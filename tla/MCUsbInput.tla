----------------------------- MODULE MCUsbInput -----------------------------
(* Two root ports and one port of a hub: a bus that is full at boot, one with *)
(* a device that is no input device, and an empty one. Two changes of the     *)
(* bus, or two of a change, a report and a failure.                           *)
EXTENDS UsbInput, TLC

Bus(one, two, behind) == (1 :> one) @@ (2 :> two) @@ (11 :> behind)

Mixed == Bus({"hub", "keyboard"}, {"combo", "other"}, {"tablet", "keyboard"})
MixedStarts == {Bus("hub", "combo", "tablet"), Bus("hub", "other", "keyboard"),
                Bus("none", "none", "none")}

Budget(p, r, f) == [plugs |-> p, reports |-> r, faults |-> f]
MixedBudgets ==
    {Budget(2, 0, 0), Budget(1, 0, 1), Budget(1, 1, 0), Budget(0, 1, 1)}
=============================================================================
