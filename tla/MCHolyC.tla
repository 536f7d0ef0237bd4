------------------------------- MODULE MCHolyC -------------------------------
(* HolyC with the programs of HcPrograms, whose tables TLC computes first:   *)
(* it evaluates the right side of <- at every use, so that is only a name.   *)
EXTENDS HcPrograms, HolyC

MCLineEnd == "~"
MCFiles == FileTable
MCPrograms == AllPrograms
MCIntLit == IntTable
MCRealLit == RealTable
MCStrLit == StrTable
UnitTable == [i \in DOMAIN AllPrograms |-> hc_unit(AllPrograms[i].src)]
MCUnits == LET t == UnitTable IN t
MCInputs == {[key |-> 0, kind |-> "none", btn |-> 0, rbtn |-> 0, xy |-> <<1, 2>>]}
=============================================================================
