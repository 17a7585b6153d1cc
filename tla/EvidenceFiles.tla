---------------------------- MODULE EvidenceFiles ----------------------------
(***************************************************************************)
(* The append-only evidence files: the paper journal (core/paper/src/       *)
(* journal.rs), the live audit journal (core/live/src/lib.rs), the          *)
(* operations journal (core/operations/src/lib.rs) and the commercial       *)
(* ledger (core/commercial/src/lib.rs).  Each is written by one process at  *)
(* a time, one chained record to a line, and verified whole before it is    *)
(* opened.  A process may stop between any two writes, and a write may      *)
(* reach the file in part.  The commercial ledger hands record and newline  *)
(* to one write_all, which may stop between them; the other three make two  *)
(* calls.                                                                   *)
(*                                                                         *)
(* A record is the entry it holds and the entries before it, which is what  *)
(* its hash chain commits to: equal hashes are equal histories.             *)
(***************************************************************************)
EXTENDS Naturals, Sequences, SequencesExt, FiniteSets

CONSTANTS Formats,       \* the formats under check
          Owners,        \* processes that may open the file
          Entries,       \* identities of entries
          Provisions,    \* Entries -> the tenant a commercial entry provisions
          MaxLines,      \* bound: lines of the file
          MaxTears       \* bound: interrupted writes

VARIABLES format,
          file,          \* complete lines, and the text after the last newline
          owners,        \* Owners -> the handle of each process
          told,          \* history: the entries that callers were told are recorded
          tears          \* history: interrupted writes, in all and since the last
                         \* verification of the whole file

fileVars == <<format, file, owners, told, tears>>

Cut == [entry |-> "CUT", previous |-> <<>>]
Closed == [phase |-> "CLOSED", head |-> <<>>, ids |-> {}, pending |-> Cut]

(* A line is the pieces written before its newline: whole records or cuts.   *)
FilesInit ==
    /\ format \in Formats
    /\ file = [lines |-> <<>>, tail |-> <<>>]
    /\ owners = [p \in Owners |-> Closed]
    /\ told = <<>>
    /\ tears = [all |-> 0, since |-> 0]

-----------------------------------------------------------------------------
(* The readers split the text at newlines, so that a tail counts as a line; *)
(* operations and commercial ask for a final newline first.                 *)
EndsInNewline == file.tail = <<>>
LinesRead == IF file.tail = <<>> THEN file.lines ELSE Append(file.lines, file.tail)

(* A line is one whole record that continues the chain of those before it.  *)
Chained(line, before) ==
    /\ Len(line) = 1 /\ line[1] # Cut
    /\ line[1].previous = before

EntriesOf(lines) == [n \in 1..Len(lines) |-> IF Len(lines[n]) = 1 THEN lines[n][1].entry
                                             ELSE "CUT"]

(* provisionings, which every reader of the commercial ledger runs.          *)
ProvisionedOnce(entries) ==
    \A m, n \in 1..Len(entries) :
        m # n /\ {entries[m], entries[n]} \subseteq Entries =>
            Provisions[entries[m]] # Provisions[entries[n]]

(* open_with, open, verify_journal_file and verify_locked_ledger.           *)
Verifies ==
    LET lines == LinesRead
        entries == EntriesOf(lines)
    IN  /\ \A n \in 1..Len(lines) : Chained(lines[n], SubSeq(entries, 1, n - 1))
        /\ format \in {"OPERATIONS", "COMMERCIAL"} =>
              EndsInNewline /\ IsInjective(entries)
        /\ format = "COMMERCIAL" => ProvisionedOnce(entries)

Recorded == EntriesOf(LinesRead)

-----------------------------------------------------------------------------
(* try_lock_exclusive.                                                      *)
Locks(p) == \A q \in Owners \ {p} : owners[q].phase = "CLOSED"

Open(p) ==
    /\ owners[p].phase = "CLOSED"
    /\ Locks(p)
    /\ Verifies
    /\ owners' = [owners EXCEPT ![p] = [phase |-> "OPEN", head |-> Recorded,
                                        ids |-> Range(Recorded), pending |-> Cut]]
    /\ told' = Recorded
    /\ tears' = [tears EXCEPT !.since = 0]
    /\ UNCHANGED <<format, file>>

(* append: an entry identity is refused twice where the format has one; the *)
(* snapshots of the paper and live journals are new every time.             *)
Appendable(p, e) ==
    /\ owners[p].phase = "OPEN" /\ Len(LinesRead) < MaxLines
    /\ e \notin owners[p].ids

RecordFor(p, e) == [entry |-> e, previous |-> owners[p].head]

(* The first write puts the record after whatever the file ends with.       *)
WriteRecord(p, e) ==
    /\ Appendable(p, e)
    /\ file' = [file EXCEPT !.tail = Append(@, RecordFor(p, e))]
    /\ owners' = [owners EXCEPT ![p].phase = "WRITING", ![p].pending = RecordFor(p, e)]
    /\ UNCHANGED <<format, told, tears>>

(* Faulty: the newline is written and the chain head is left behind.        *)
AfterAppendStale(handle) ==
    [handle EXCEPT !.phase = "OPEN", !.pending = Cut,
                   !.ids = @ \union {handle.pending.entry}]

AfterAppend(handle) ==
    [handle EXCEPT !.phase = "OPEN", !.pending = Cut,
                   !.head = Append(@, handle.pending.entry),
                   !.ids = @ \union {handle.pending.entry}]

(* The second write ends the line; sync_data, and the caller is told.       *)
FinishRecord(p) ==
    /\ owners[p].phase = "WRITING"
    /\ file' = [lines |-> Append(file.lines, file.tail), tail |-> <<>>]
    /\ owners' = [owners EXCEPT ![p] = AfterAppend(@)]
    /\ told' = Append(told, owners[p].pending.entry)
    /\ UNCHANGED <<format, tears>>

Torn == [all |-> tears.all + 1, since |-> tears.since + 1]

(* The first write fails or the process dies in it, with part of the record *)
(* in the file.  No handle is used after an error: the OMS and the kernel   *)
(* refuse every further append, and a command line process ends.            *)
CutRecord(p, e) ==
    /\ Appendable(p, e) /\ tears.all < MaxTears
    /\ file' = [file EXCEPT !.tail = Append(@, Cut)]
    /\ owners' = [owners EXCEPT ![p] = Closed]
    /\ tears' = Torn
    /\ UNCHANGED <<format, told>>

(* The second write fails or the process dies before it: the record stands  *)
(* without its newline.                                                     *)
LeaveUnended(p) ==
    /\ owners[p].phase = "WRITING" /\ tears.all < MaxTears
    /\ owners' = [owners EXCEPT ![p] = Closed]
    /\ tears' = Torn
    /\ UNCHANGED <<format, file, told>>

(* The handle is dropped, and its lock with it.                             *)
Close(p) ==
    /\ owners[p].phase = "OPEN"
    /\ owners' = [owners EXCEPT ![p] = Closed]
    /\ UNCHANGED <<format, file, told, tears>>

FilesNext ==
    \E p \in Owners :
        \/ Open(p) \/ FinishRecord(p) \/ LeaveUnended(p) \/ Close(p)
        \/ \E e \in Entries : WriteRecord(p, e) \/ CutRecord(p, e)

FilesSpec == FilesInit /\ [][FilesNext]_fileVars

-----------------------------------------------------------------------------
Records == [entry : Entries, previous : Seq(Entries)] \union {Cut}

FilesTypeOK ==
    /\ format \in Formats
    /\ file.lines \in Seq(Seq(Records)) /\ file.tail \in Seq(Records)
    /\ \A p \in Owners :
          /\ owners[p].phase \in {"CLOSED", "OPEN", "WRITING"}
          /\ owners[p].head \in Seq(Entries) /\ owners[p].ids \subseteq Entries
          /\ owners[p].pending \in Records
    /\ told \in Seq(Entries)
    /\ tears.since <= tears.all /\ tears.all <= MaxTears

(* Whatever processes follow each other and wherever their writes stop, a   *)
(* file that verifies holds every entry a caller was told is recorded, in   *)
(* order, and at most the one entry after them whose answer was lost.       *)
ToldIsRecorded ==
    Verifies => /\ IsPrefix(told, Recorded)
                /\ Len(Recorded) <= Len(told) + 1

(* A file that was verified whole and has seen only complete appends since  *)
(* is verified again, by its owner or by the next process.                  *)
VerifiesAgain ==
    (tears.since = 0 /\ \A p \in Owners : owners[p].phase # "WRITING") => Verifies

(* The formats whose readers ask for the final newline keep that promise;   *)
(* the commercial ledger unless a tenant was provisioned twice, which its   *)
(* append accepts and its readers refuse.                                   *)
LedgersVerifyAgain ==
    \/ format \in {"PAPER", "LIVE"}
    \/ format = "COMMERCIAL" /\ ~ProvisionedOnce(Recorded)
    \/ VerifiesAgain

(* The two together: nothing that was acknowledged is lost, and a file that *)
(* was written without interruption opens again.                            *)
EvidenceSurvives == ToldIsRecorded /\ LedgersVerifyAgain
=============================================================================
