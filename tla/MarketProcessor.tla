--------------------------- MODULE MarketProcessor ---------------------------
(***************************************************************************)
(* The order commands of MarketProcessor (zkapp/engine/src/processor.rs)   *)
(* and the write-ahead log they are kept in (zkapp/engine/src/wal.rs),     *)
(* with crashes of the process and a disk that may refuse a write.         *)
(*                                                                         *)
(* PlaceOrder, CancelOrder and ExecuteBundle do the same for each of their *)
(* orders: write a log entry, apply it to the book.  Then the client gets  *)
(* the events.  GetDepth and SubmitBid write nothing; what a bid does is   *)
(* in Settlement.                                                          *)
(*                                                                         *)
(* The book is a function of the entries applied to it, in their order     *)
(* (OrderBook has no choice but that of the next command), so the entries  *)
(* stand for the book: two engines with the same `executed' have the same  *)
(* book.                                                                   *)
(*                                                                         *)
(* In the file an entry is two pieces, so that a write can stop within it. *)
(* The log is written through a BufWriter of 8 KiB: an entry goes there    *)
(* field by field and is flushed when it is complete, or earlier if a      *)
(* field does not fit into what is left.  A crash is one of the process:   *)
(* what the operating system has accepted stays.                           *)
(***************************************************************************)
EXTENDS Integers, Sequences, FiniteSets, Functions

CONSTANTS
  Places,      \* the PlaceOrder commands clients send, each once
  Cancels,     \* the CancelOrder commands
  Bundles,     \* the ExecuteBundle commands
  Depths,      \* the GetDepth commands
  Bids,        \* the SubmitBid commands
  Orders,      \* the number of orders of each bundle
  Idle,        \* no command is being handled
  Garbage,     \* an entry that nobody wrote, decoded from the bytes of two others
  Fits(_),     \* the pieces fit into the 8 KiB of BufWriter
  MaxFailures, \* bound: writes the disk refuses
  MaxCrashes   \* bound: crashes

Commands == Places \cup Cancels \cup Bundles \cup Depths \cup Bids

\* How many log entries a command makes.
Size ==
  [c \in Commands |-> IF c \in Bundles THEN Orders[c]
                      ELSE IF c \in Depths \cup Bids THEN 0 ELSE 1]

Entry == [command : Commands, part : Nat \ {0}]

ASSUME ProcessorAssumption ==
  /\ Orders \in [Bundles -> Nat]
  /\ Idle \notin [command : Commands, part : Nat, at : {"write", "execute"}]
  /\ Garbage \notin Entry
  /\ MaxFailures \in Nat
  /\ MaxCrashes \in Nat

VARIABLES
  file,     \* velocity.wal: a sequence of pieces
  buffer,   \* the pieces BufWriter still holds
  executed, \* the entries applied to the book
  current,  \* the command being handled, with the order it has come to
  up,       \* the process runs
  sent,     \* the commands clients have sent
  answered, \* history: the commands answered, in order
  written,  \* history: the entries for which write_entry returned Ok
  failed,   \* history: the last write_entry returned an error
  lost,     \* history: the process crashed when the last write_entry had failed, or
            \* BufWriter was full of what the disk refused, or the power failed
  failures, \* writes refused so far
  crashes   \* crashes so far

vars == <<file, buffer, executed, current, up, sent, answered, written, failed, lost,
          failures, crashes>>

-----------------------------------------------------------------------------

Encode(e) == <<[entry |-> e, half |-> 1], [entry |-> e, half |-> 2]>>

\* The k-th pair of pieces is an entry.
IsEntry(pieces, k) == pieces[2 * k] = [pieces[2 * k - 1] EXCEPT !.half = 2]

\* How many entries read_all decodes before the first error.
Readable(pieces) ==
  CHOOSE n \in 0 .. Len(pieces) \div 2 :
    /\ \A k \in 1 .. n : IsEntry(pieces, k)
    /\ n < Len(pieces) \div 2 => ~ IsEntry(pieces, n + 1)

ReadAll(pieces) == [k \in 1 .. Readable(pieces) |-> pieces[2 * k].entry]

\* What decoding yields once an entry is cut short: the end of the file is an error,
\* other bytes may decode as an entry or not.
Misread(pieces) ==
  IF Len(pieces) >= 2 * Readable(pieces) + 2 THEN {<<>>, <<Garbage>>} ELSE {<<>>}

Working(at) == up /\ current # Idle /\ current.at = at

CurrentEntry == [command |-> current.command, part |-> current.part]

-----------------------------------------------------------------------------

\* The process has never run, there is no log.
Init ==
  /\ file = <<>>
  /\ buffer = <<>>
  /\ executed = <<>>
  /\ current = Idle
  /\ up = FALSE
  /\ sent = {}
  /\ answered = <<>>
  /\ written = {}
  /\ failed = FALSE
  /\ lost = FALSE
  /\ failures = 0
  /\ crashes = 0

\* The actor takes a command from its channel and comes to its first order.
Receive(c) ==
  /\ up
  /\ current = Idle
  /\ c \notin sent
  /\ sent' = sent \cup {c}
  /\ current' = [command |-> c, part |-> 1, at |-> "write"]
  /\ UNCHANGED <<file, buffer, executed, up, answered, written, failed, lost, failures,
                 crashes>>

PlaceOrder(c) == c \in Places /\ Receive(c)

CancelOrder(c) == c \in Cancels /\ Receive(c)

ExecuteBundle(c) == c \in Bundles /\ Receive(c)

GetDepth(c) == c \in Depths /\ Receive(c)

SubmitBid(c) == c \in Bids /\ Receive(c)

\* Variant: the entry is not flushed.
WriteEntryUnflushed ==
  /\ Working("write")
  /\ current.part <= Size[current.command]
  /\ buffer' = buffer \o Encode(CurrentEntry)
  /\ written' = written \cup {CurrentEntry}
  /\ failed' = FALSE
  /\ current' = [current EXCEPT !.at = "execute"]
  /\ UNCHANGED <<file, executed, up, sent, answered, lost, failures, crashes>>

\* write_entry succeeds: everything in the buffer is in the file.
WriteEntry ==
  /\ Working("write")
  /\ current.part <= Size[current.command]
  /\ file' = file \o buffer \o Encode(CurrentEntry)
  /\ buffer' = <<>>
  /\ written' = written \cup {CurrentEntry}
  /\ failed' = FALSE
  /\ current' = [current EXCEPT !.at = "execute"]
  /\ UNCHANGED <<executed, up, sent, answered, lost, failures, crashes>>

\* write_entry fails after k pieces; the buffer keeps the others.  (If they did not
\* all fit, an earlier flush, within the entry, has succeeded.)  The error is only
\* logged.
WriteFails ==
  /\ Working("write")
  /\ current.part <= Size[current.command]
  /\ failures < MaxFailures
  /\ failures' = failures + 1
  /\ LET pieces == buffer \o Encode(CurrentEntry)
     IN \E k \in (IF Fits(pieces) THEN 0 ELSE Len(buffer)) .. Len(pieces) - 1 :
          /\ file' = file \o SubSeq(pieces, 1, k)
          /\ buffer' = SubSeq(pieces, k + 1, Len(pieces))
  /\ failed' = TRUE
  /\ current' = [current EXCEPT !.at = "execute"]
  /\ UNCHANGED <<executed, up, sent, answered, written, lost, crashes>>

\* write_entry fails within the entry: the next field does not fit with what the disk
\* has refused so far, and the flush that would make room is refused too.  The rest
\* of the entry is nowhere, also when later writes succeed.
WriteOverflows ==
  /\ Working("write")
  /\ current.part <= Size[current.command]
  /\ failures < MaxFailures
  /\ failures' = failures + 1
  /\ ~ Fits(buffer \o Encode(CurrentEntry))
  /\ \E j \in 0 .. 1 :
       LET pieces == buffer \o SubSeq(Encode(CurrentEntry), 1, j)
       IN /\ Fits(pieces)
          /\ \E k \in 0 .. Len(pieces) - 1 :
               /\ file' = file \o SubSeq(pieces, 1, k)
               /\ buffer' = SubSeq(pieces, k + 1, Len(pieces))
  /\ failed' = TRUE
  /\ lost' = TRUE
  /\ current' = [current EXCEPT !.at = "execute"]
  /\ UNCHANGED <<executed, up, sent, answered, written, crashes>>

\* Variant: the loop over the orders goes one too far.
ExecuteAgain ==
  /\ Working("execute")
  /\ executed' = Append(executed, CurrentEntry)
  /\ current' = [current EXCEPT !.part = @ + 2, !.at = "write"]
  /\ UNCHANGED <<file, buffer, up, sent, answered, written, failed, lost, failures, crashes>>

\* place_limit_order or cancel_order, and on to the next order of the command.
Execute ==
  /\ Working("execute")
  /\ executed' = Append(executed, CurrentEntry)
  /\ current' = [current EXCEPT !.part = @ + 1, !.at = "write"]
  /\ UNCHANGED <<file, buffer, up, sent, answered, written, failed, lost, failures, crashes>>

\* All orders are done: the events are sent to the client.  A bid has no answer.
Respond ==
  /\ Working("write")
  /\ current.part > Size[current.command]
  /\ answered' = IF current.command \in Bids THEN answered
                 ELSE Append(answered, current.command)
  /\ current' = Idle
  /\ UNCHANGED <<file, buffer, executed, up, sent, written, failed, lost, failures, crashes>>

\* The process ends at any point, or the task of the processor does.  The book and the
\* buffer are gone; if BufWriter is dropped it still tries to write what it holds.
Crash ==
  /\ up
  /\ crashes < MaxCrashes
  /\ crashes' = crashes + 1
  /\ up' = FALSE
  /\ \E k \in 0 .. Len(buffer) : file' = file \o SubSeq(buffer, 1, k)
  /\ buffer' = <<>>
  /\ executed' = <<>>
  /\ current' = Idle
  /\ lost' = (lost \/ failed)
  /\ UNCHANGED <<sent, answered, written, failed, failures>>

\* Variant: the file is opened with truncate instead of append.
RecoverTruncating ==
  /\ ~ up
  /\ up' = TRUE
  /\ \E extra \in Misread(file) : executed' = ReadAll(file) \o extra
  /\ file' = <<>>
  /\ failed' = FALSE
  /\ UNCHANGED <<buffer, current, sent, answered, written, lost, failures, crashes>>

\* MarketProcessor::new replays what read_all returns and opens the file to append.
Recover ==
  /\ ~ up
  /\ up' = TRUE
  /\ \E extra \in Misread(file) : executed' = ReadAll(file) \o extra
  /\ failed' = FALSE
  /\ UNCHANGED <<file, buffer, current, sent, answered, written, lost, failures, crashes>>

Next ==
  \/ \E c \in Commands :
       \/ PlaceOrder(c) \/ CancelOrder(c) \/ ExecuteBundle(c) \/ GetDepth(c) \/ SubmitBid(c)
  \/ WriteEntry \/ WriteFails \/ WriteOverflows \/ Execute \/ Respond
  \/ Crash \/ Recover

Spec == Init /\ [][Next]_vars

-----------------------------------------------------------------------------
(***************************************************************************)
(* Properties                                                              *)
(***************************************************************************)

Pieces == [entry : Entry, half : {1, 2}]

\* The type invariant.  The actor is never past the end of its command.
TypeOK ==
  /\ file \in Seq(Pieces)
  /\ buffer \in Seq(Pieces)
  /\ executed \in Seq(Entry \cup {Garbage})
  /\ \/ current = Idle
     \/ /\ current \in [command : Commands, part : Nat \ {0}, at : {"write", "execute"}]
        /\ current.part <= Size[current.command] + 1
  /\ up \in BOOLEAN /\ failed \in BOOLEAN /\ lost \in BOOLEAN
  /\ sent \subseteq Commands
  /\ answered \in Seq(sent)
  /\ written \subseteq Entry
  /\ failures \in 0 .. MaxFailures
  /\ crashes \in 0 .. MaxCrashes

\* The log runs ahead of the book by one entry at most: the book is what a replay of
\* the file, and of what the disk has refused so far, would give, except for an
\* entry that is about to be executed.  It holds across any number of crashes and of
\* refused writes, until a crash comes when the disk has just refused a write, what it
\* has refused fills BufWriter, or the power fails.
LogLeadsBook ==
  up /\ ~ lost =>
    LET log == ReadAll(file \o buffer)
    IN /\ Len(log) \in Len(executed) .. Len(executed) + 1
       /\ executed = SubSeq(log, 1, Len(executed))

\* The entries of a command.
Parts(c) == [p \in 1 .. Size[c] |-> [command |-> c, part |-> p]]

\* What clients were told stays true: the commands that were answered are in the
\* book, whole and in the order of the answers, after any number of crashes (with the
\* exceptions of LogLeadsBook).
AnswersSurvive ==
  up /\ ~ lost =>
    /\ {e \in Range(executed) : e.command \in Range(answered)}
         = UNION {Range(Parts(c)) : c \in Range(answered)}
    /\ \A k, l \in DOMAIN executed, i, j \in DOMAIN answered :
         executed[k].command = answered[i] /\ executed[l].command = answered[j] =>
           (k < l <=> i < j \/ (i = j /\ executed[k].part < executed[l].part))

\* What was written is replayed: after a crash the book has every entry for which
\* write_entry returned Ok ("the engine perfectly reconstructs its state by replaying
\* the WAL", README.md).
WrittenEntriesAreReplayed ==
  up /\ current = Idle => written \subseteq Range(executed)
=============================================================================
