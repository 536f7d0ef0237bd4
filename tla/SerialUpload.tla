---------------------------- MODULE SerialUpload ----------------------------
(***************************************************************************)
(* Uploads over the serial line: the guest's zrecv command and the host's  *)
(* scripts/send-zc.py, composed with the files of SourceFiles. A line may  *)
(* get lost or damaged on its way to the guest, and either side may give   *)
(* up at any time: the host after 30 seconds without the answer it waits   *)
(* for, the guest after 120 seconds without a chunk. While zrecv waits, it *)
(* keeps the processor: no guest task runs.                                *)
(***************************************************************************)
EXTENDS SourceFiles

CONSTANTS
    ShortChunks,    \* chunks of less than 128 bytes: the last of a file may be one
    Noise           \* the chunks a damaged line may be taken for

VARIABLES
    host,       \* send-zc.py
    recv,       \* zrecv_serial
    toGuest,    \* lines on the way to the guest
    toHost,     \* the guest's messages that the host has not read
    stored,     \* history: what uploads stored since the host last started
    uploads     \* uploads so far

uploadVars == <<host, recv, toGuest, toHost, stored, uploads>>
vars == <<fileVars, uploadVars>>

Chunks == (UNION {ToSet(f) : f \in Files}) \union Noise
Width(c) == IF c \in ShortChunks THEN "short" ELSE "full"

\* The length in bytes that the command announces.
Length(f) == [chunks |-> Len(f), last |-> Width(Last(f))]
Lengths == {Length(f) : f \in Files}

Command(n, f) == [line |-> "zrecv", name |-> n, length |-> Length(f), crc |-> f]
ChunkLine(c) == [line |-> "chunk", chunk |-> c]
Junk == [line |-> "junk"]

\* What a damaged line looks like to the guest, if anything is left of it.
\* The checksum is taken to tell all contents of a length apart.
Damaged(l) ==
    {<<>>, <<Junk>>} \union
    (IF l.line = "zrecv"
     THEN {<<[l EXCEPT !.name = n]>> : n \in Names \ {l.name}} \union
          {<<[l EXCEPT !.length = len]>> : len \in Lengths \ {l.length}}
     ELSE {<<ChunkLine(c)>> : c \in {c \in Noise : Width(c) = Width(l.chunk)}})

\* Sending a line; the damage counts as an error.
send(l) ==
    \/ /\ toGuest' = Append(toGuest, l)
       /\ UNCHANGED faults
    \/ /\ faults < MaxFaults
       /\ faults' = faults + 1
       /\ \E d \in Damaged(l) : toGuest' = toGuest \o d

-----------------------------------------------------------------------------
(* The host.                                                               *)

\* The text that wait_for looks for.
Marker ==
    CASE host.sent = 0 -> [text |-> "ready"]
      [] host.sent \in 1 .. Len(host.file) /\ ~host.last ->
             [text |-> "ack", sent |-> host.sent,
              width |-> Width(host.file[host.sent])]
      [] OTHER -> [text |-> "saved", name |-> host.name,
                   length |-> Length(host.file)]

IsError(m) == m.text = "error"

\* The user starts send-zc.py. What the port has received before is dropped,
\* what the guest has yet to print is not.
HostStarts(n, f) ==
    /\ host.pc = "idle"
    /\ uploads < budget.uploads
    /\ uploads' = uploads + 1
    /\ host' = [pc |-> "wait", name |-> n, file |-> f, sent |-> 0,
                last |-> FALSE, pending |-> <<>>, told |-> FALSE]
    /\ send(Command(n, f))
    /\ toHost' \in {<<>>, toHost}
    /\ stored' = {}
    /\ UNCHANGED <<budget, part, log, legacy, revision, catalog, cache, edit, acked,
                   landed, recv>>

\* wait_for reads what has arrived, when what it has is not enough.
HostReads ==
    /\ host.pc = "wait"
    /\ \A m \in ToSet(host.pending) : ~IsError(m) /\ m # Marker
    /\ \E k \in 1 .. Len(toHost) :
          /\ host' = [host EXCEPT !.pending = @ \o SubSeq(toHost, 1, k)]
          /\ toHost' = SubSeq(toHost, k + 1, Len(toHost))
    /\ UNCHANGED <<fileVars, recv, toGuest, stored, uploads>>

\* wait_for finds the marker, and send goes on with the next chunk; after
\* the last acknowledgement it waits for the final message.
HostGoesOn ==
    /\ host.pc = "wait"
    /\ Marker \in ToSet(host.pending)
    /\ \A m \in ToSet(host.pending) : ~IsError(m)
    /\ LET at == CHOOSE i \in DOMAIN host.pending :
                     /\ host.pending[i] = Marker
                     /\ \A j \in 1 .. i - 1 : host.pending[j] # Marker
           rest == SubSeq(host.pending, at + 1, Len(host.pending))
       IN  \/ /\ Marker.text = "saved"
              /\ host' = [host EXCEPT !.pc = "idle", !.told = TRUE,
                                         !.pending = <<>>]
              /\ UNCHANGED <<toGuest, faults>>
           \/ /\ Marker.text = "ack" /\ host.sent = Len(host.file)
              /\ host' = [host EXCEPT !.last = TRUE, !.pending = rest]
              /\ UNCHANGED <<toGuest, faults>>
           \/ /\ Marker.text # "saved" /\ host.sent < Len(host.file)
              /\ host' = [host EXCEPT !.sent = @ + 1, !.pending = rest]
              /\ send(ChunkLine(host.file[host.sent + 1]))
    /\ UNCHANGED <<budget, part, log, legacy, revision, catalog, cache, edit, acked,
                   landed, recv, toHost, stored, uploads>>

\* An error message, or no answer in time: the script ends.
HostGivesUp ==
    /\ host.pc = "wait"
    /\ host' = [host EXCEPT !.pc = "idle", !.pending = <<>>]
    /\ UNCHANGED <<fileVars, recv, toGuest, toHost, stored, uploads>>

-----------------------------------------------------------------------------
(* The guest.                                                              *)

NoUpload == [pc |-> "shell", name |-> CHOOSE n \in Names : TRUE,
             length |-> CHOOSE l \in Lengths : TRUE, crc |-> <<>>, got |-> <<>>]

say(m) == toHost' = Append(toHost, m)
Error == [text |-> "error"]
Other == [text |-> "other"]

\* zrecv_serial up to its first message: zss_stream_begin wants a partition
\* that can be read and has room. The host does not know these refusals.
zrecv_begin ==
    /\ recv.pc = "shell"
    /\ toGuest # <<>> /\ Head(toGuest).line = "zrecv"
    /\ ~edit.active
    /\ toGuest' = Tail(toGuest)
    /\ \/ /\ part /\ Len(log) < MaxRecords
          /\ recv' = [pc |-> "chunk", name |-> Head(toGuest).name,
                      length |-> Head(toGuest).length,
                      crc |-> Head(toGuest).crc, got |-> <<>>]
          /\ say([text |-> "ready"])
          /\ UNCHANGED faults
       \/ /\ ~part \/ Len(log) >= MaxRecords
          /\ say(Other)
          /\ UNCHANGED <<recv, faults>>
       \/ /\ faults < MaxFaults
          /\ faults' = faults + 1
          /\ say(Other)
          /\ UNCHANGED recv
    /\ UNCHANGED <<budget, part, log, legacy, revision, catalog, cache, edit, acked,
                   landed, host, stored, uploads>>

\* Any other line is no command of the shell, nor one of the editor.
ShellIgnores ==
    /\ recv.pc = "shell"
    /\ toGuest # <<>>
    /\ edit.active \/ Head(toGuest).line # "zrecv"
    /\ toGuest' = Tail(toGuest)
    /\ UNCHANGED <<fileVars, host, recv, toHost, stored, uploads>>

\* The chunk that zrecv_chunk expects next has this width.
NextWidth == IF Len(recv.got) + 1 < recv.length.chunks THEN "full"
             ELSE recv.length.last

\* zrecv_chunk: a line of the right length is stored and acknowledged.
IsExpected(l) == l.line = "chunk" /\ Width(l.chunk) = NextWidth

zrecv_chunk ==
    /\ recv.pc = "chunk"
    /\ toGuest # <<>>
    /\ IsExpected(Head(toGuest))
    /\ toGuest' = Tail(toGuest)
    /\ \/ LET got == Append(recv.got, Head(toGuest).chunk)
          IN  /\ recv' = [recv EXCEPT !.got = got,
                            !.pc = IF Len(got) = recv.length.chunks
                                   THEN "finish" ELSE "chunk"]
              /\ say([text |-> "ack", sent |-> Len(got), width |-> NextWidth])
              /\ UNCHANGED faults
       \/ /\ faults < MaxFaults
          /\ faults' = faults + 1
          /\ recv' = NoUpload
          /\ say(Error)
    /\ UNCHANGED <<budget, part, log, legacy, revision, catalog, cache, edit, acked,
                   landed, host, stored, uploads>>

\* Any other line ends the upload; what is left of the line is none of the
\* shell's commands.
zrecv_malformed ==
    /\ recv.pc = "chunk"
    /\ toGuest # <<>>
    /\ ~IsExpected(Head(toGuest))
    /\ toGuest' = Tail(toGuest)
    /\ recv' = NoUpload
    /\ say(Error)
    /\ UNCHANGED <<fileVars, host, stored, uploads>>

\* Mutant: the deadline is only looked at when a line has come.
NoDeadline ==
    /\ recv.pc = "chunk"
    /\ FALSE
    /\ UNCHANGED vars

\* zrecv_getc reaches the deadline of the chunk.
zrecv_timeout ==
    /\ recv.pc = "chunk"
    /\ toGuest = <<>>
    /\ recv' = NoUpload
    /\ say(Error)
    /\ UNCHANGED <<fileVars, host, toGuest, stored, uploads>>

\* Mutant: the checksum is not compared.
NoChecksum ==
    /\ recv.pc = "finish"
    /\ recv' = NoUpload
    /\ append(recv.name, recv.got, "saved")
    /\ say([text |-> "saved", name |-> recv.name, length |-> recv.length])
    /\ stored' = stored \union {<<recv.name, recv.got>>}
    /\ UNCHANGED <<budget, part, legacy, cache, edit, host, toGuest, uploads>>

\* zss_stream_finish: only a file with the announced checksum is appended.
zrecv_finish ==
    /\ recv.pc = "finish"
    /\ recv' = NoUpload
    /\ \/ /\ recv.got # recv.crc
          /\ say(Error)
          /\ UNCHANGED <<log, revision, catalog, faults, acked, landed, stored>>
       \/ /\ recv.got = recv.crc
          /\ \E ending \in Endings :
                /\ append(recv.name, recv.got, ending)
                /\ IF ending = "saved"
                   THEN /\ say([text |-> "saved", name |-> recv.name,
                                length |-> recv.length])
                        /\ stored' = stored \union {<<recv.name, recv.got>>}
                   ELSE /\ say(Error)
                        /\ UNCHANGED stored
    /\ UNCHANGED <<budget, part, legacy, cache, edit, host, toGuest, uploads>>

-----------------------------------------------------------------------------
Init ==
    /\ FilesInit
    /\ host = [pc |-> "idle", name |-> CHOOSE n \in Names : TRUE,
               file |-> CHOOSE f \in Files : TRUE, sent |-> 0, last |-> FALSE,
               pending |-> <<>>, told |-> FALSE]
    /\ recv = NoUpload
    /\ toGuest = <<>>
    /\ toHost = <<>>
    /\ stored = {}
    /\ uploads = 0

zrecv_serial ==
    \/ zrecv_begin \/ ShellIgnores \/ zrecv_chunk \/ zrecv_malformed
    \/ zrecv_timeout \/ zrecv_finish

Host == HostReads \/ HostGoesOn \/ HostGivesUp

Others ==
    /\ recv.pc = "shell"
    /\ TaskCall \/ ShellCommand
    /\ UNCHANGED uploadVars

Next ==
    \/ Others
    \/ zrecv_serial
    \/ Host
    \/ \E n \in Names, f \in Files : HostStarts(n, f)

\* The guest consumes its input, and the deadline of a chunk is wall-clock
\* time. Nothing is assumed of the host.
Spec == Init /\ [][Next]_vars /\ WF_vars(zrecv_serial)

-----------------------------------------------------------------------------
TypeOK ==
    /\ part \in BOOLEAN
    /\ log \in Seq(Record) /\ Len(log) <= MaxRecords
    /\ legacy \in [RootNames -> Files \union {Absent}]
    /\ revision \in 0 .. budget.saves + budget.uploads
    /\ catalog.items \in Seq(Record)
    /\ cache.revision \in 0 .. revision
    /\ edit.text \in Files \union {<<>>}
    /\ recv.got \in Seq(Chunks) /\ Len(recv.got) <= recv.length.chunks
    /\ acked \in [Names -> Files \union {Absent, Deleted, Unknown}]

\* What was last answered about a name is what the guest's reads find, however
\* the name was written (FileWrite, zedit, zrecv), hidden (zrm), compacted or
\* left behind in the old RedSea root: source_file_find over zc_read_redsea. A
\* device error shows an older copy of the file or none, never a mixture.
ReadsLatest ==
    \A n \in Names :
        /\ LET copies == {FileRead(n), legacy_of(n), Bundled[n], Absent}
           IN  \A e1, e2 \in {"none", "super", "log"} :
                   source_file_find(n, e1, e2) \in copies
        /\ acked[n] \in Files => FileRead(n) = acked[n]
        /\ acked[n] = Deleted => FileRead(n) = Absent
        /\ acked[n] = Absent => FileRead(n) \in {legacy_of(n), Bundled[n]}

\* The merged view of FilesFind: the list, then the files of the RedSea root
\* that no tombstone hides (zeal_redsea_file_at).
View(n) ==
    LET listed == {e \in ToSet(cache.list) : e.name = n}
    IN  IF listed # {} THEN {e.size : e \in listed}
        ELSE IF legacy_of(n) # Absent /\ ~(part /\ zss_find(n) = Deleted)
        THEN {Len(legacy_of(n))}
        ELSE {}

\* A bundled file behind a RedSea file of its name is listed with the size of
\* the wrong one.
Shadowed(n) ==
    /\ legacy_of(n) # Absent /\ Bundled[n] # Absent
    /\ ~part \/ zss_find(n) = Absent

\* The list that FilesFind and directory tests use agrees with what reads
\* find, each file once and with its size, as long as no error cut it short
\* and no record landed behind the back of the driver: every save, delete and
\* upload makes source_list_cache and g_zss_catalog out of date.
ListAgrees ==
    cache.ready /\ cache.revision = revision /\ cache.whole /\ ~landed =>
        /\ \A i, j \in DOMAIN cache.list :
               cache.list[i].name = cache.list[j].name => i = j
        /\ \A n \in Names : ~Shadowed(n) =>
               View(n) = IF FileRead(n) = Absent THEN {} ELSE {Len(FileRead(n))}

\* When send-zc.py says that a file is saved, zrecv has stored exactly that
\* file under that name, and nothing but whole files is ever stored. On its
\* first start no number of lost or damaged lines matters; on a later one,
\* when answers of an upload it has given up may still come, not one.
UploadExact ==
    /\ TypeOK
    /\ host.told => <<host.name, host.file>> \in stored
    /\ \A i \in DOMAIN log : log[i].x \in Files \union {Deleted}

\* An upload ends: the shell and the guest's tasks get the processor back from
\* zrecv although the host gave up long ago, and whatever it sent before.
UploadEnds == recv.pc # "shell" ~> recv.pc = "shell"
=============================================================================
