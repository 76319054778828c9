---------------------------- MODULE StealStream -----------------------------
(***************************************************************************)
(* One steal after the other between a thief and its victims (steal.c):    *)
(* the units are streamed in batches, each announced by a header, and the  *)
(* outcome sets how eagerly the thief probes on (steal.h).                 *)
(*                                                                         *)
(* Headers and payloads are sent with two tags, so they are two channels.  *)
(* An MPI send may be buffered, or wait for its receive: the victim may go *)
(* on while what it sent is still on its way, but can count on going on    *)
(* only when all of it was received.                                       *)
(***************************************************************************)
EXTENDS Integers, Sequences, FiniteSets, Functions

CONSTANTS
  Units,        \* units the victims hold at the start
  Par,          \* those that are parallel tasks
  Chunk,        \* XLB_STEAL_CHUNK_SIZE
  NServers,     \* xlb_s.layout.servers
  ProbeLimit,   \* most probes without a response
  MaxFailed     \* bound: failures counted

ASSUME StealStreamAssumption ==
  /\ IsFiniteSet(Units) /\ Par \subseteq Units
  /\ Chunk \in Nat \ {0} /\ NServers \in Nat \ {0, 1}
  /\ ProbeLimit \in 1..(NServers - 1)      \* one for each other server

VARIABLES
  pool,         \* units of the victims
  todo,         \* units xlb_workq_steal() has still to hand to its callback
  batch,        \* the batch being filled
  hdrs,         \* channel of ADLB_TAG_RESPONSE_STEAL_COUNT
  payloads,     \* channel of ADLB_TAG_RESPONSE_STEAL
  victim,       \* "loop" or "steal"
  thief,        \* "loop", "header", "list" or "units"
  hdr,          \* the header received last
  incoming,     \* units announced by the list of the batch
  queued,       \* units the thief has put into its work queue
  totals,       \* units of this steal: single and parallel
  given,        \* history: the units chosen for this steal
  probes,       \* probes without a response
  failed        \* xlb_failed_steals_since_backoff

vars == <<pool, todo, batch, hdrs, payloads, victim, thief, hdr, incoming, queued,
          totals, given, probes, failed>>
victimVars == <<pool, todo, batch, victim, given>>
channels == <<hdrs, payloads>>

NoHdr == [count |-> 0, last |-> FALSE]
NoTotals == [single |-> 0, par |-> 0]

Init ==
  /\ pool = Units /\ todo = <<>> /\ batch = <<>>
  /\ hdrs = <<>> /\ payloads = <<>>
  /\ victim = "loop" /\ thief = "loop"
  /\ hdr = NoHdr /\ incoming = <<>> /\ queued = {} /\ totals = NoTotals /\ given = {}
  /\ probes = 0 /\ failed = 0

(* xlb_steal_allowed(): after NServers failures there is a pause, and the  *)
(* count starts again.  How long the pauses are is left open.              *)
StealAllowed == failed' = IF failed = NServers THEN 0 ELSE failed

(* check_steal() sends a probe. *)
Probe ==
  /\ thief = "loop" /\ probes < ProbeLimit
  /\ StealAllowed
  /\ probes' = probes + 1
  /\ UNCHANGED <<victimVars, channels, thief, hdr, incoming, queued, totals>>

(* The response shows nothing to steal. *)
NothingThere ==
  /\ thief = "loop" /\ probes > 0
  /\ probes' = probes - 1
  /\ UNCHANGED <<victimVars, channels, thief, hdr, incoming, queued, totals, failed>>

(* It shows some work: the steal, for which the victim chooses any of its  *)
(* units, in any order.                                                    *)
StartSteal(units) ==
  /\ thief = "loop" /\ victim = "loop" /\ probes > 0
  /\ failed < MaxFailed
  /\ probes' = probes - 1
  /\ thief' = "header" /\ totals' = NoTotals
  /\ victim' = "steal"
  /\ todo' = units
  /\ pool' = pool \ Range(units)
  /\ given' = Range(units)
  /\ UNCHANGED <<batch, channels, hdr, incoming, queued, failed>>

-----------------------------------------------------------------------------
(* send_steal_batch(): the header; then the list of the batch, and the     *)
(* units one by one.                                                       *)
SendStealBatch(b, finish) ==
  /\ hdrs' = Append(hdrs, [count |-> Len(b), last |-> finish])
  /\ payloads' = IF b = <<>> THEN payloads
                 ELSE Append(payloads, b) \o [i \in DOMAIN b |-> <<b[i]>>]
  /\ batch' = <<>>

\* Mutant of StealCallback: the full batch is sent as the last.
StealCallbackLast ==
  /\ victim = "steal" /\ todo # <<>>
  /\ LET b == Append(batch, Head(todo))
     IN IF Len(b) = Chunk THEN SendStealBatch(b, Len(todo) = 1)
        ELSE batch' = b /\ UNCHANGED channels
  /\ todo' = Tail(todo)
  /\ victim' = "steal"
  /\ UNCHANGED <<pool, given, thief, hdr, incoming, queued, totals, probes, failed>>

(* handle_steal_callback(): a full batch is sent at once. *)
StealCallback ==
  /\ victim = "steal" /\ todo # <<>>
  /\ LET b == Append(batch, Head(todo))
     IN IF Len(b) = Chunk THEN SendStealBatch(b, FALSE)
        ELSE batch' = b /\ UNCHANGED channels
  /\ todo' = Tail(todo)
  /\ UNCHANGED <<pool, victim, given, thief, hdr, incoming, queued, totals, probes, failed>>

(* xlb_handle_steal(): the rest, possibly none, is the last batch. *)
StealFinish ==
  /\ victim = "steal" /\ todo = <<>>
  /\ SendStealBatch(batch, TRUE)
  /\ victim' = "loop"
  /\ UNCHANGED <<pool, todo, given, thief, hdr, incoming, queued, totals, probes, failed>>

-----------------------------------------------------------------------------
(* The end of xlb_steal(): the failures are counted by the last header.    *)
StealEnds(h) ==
  /\ thief' = "loop"
  /\ failed' = IF h.count > 0 THEN 0 ELSE failed + 1

\* Mutants of RecvHeader: the totals are those of the last batch; the header
\* of an empty batch is looked at without being received.
RecvHeaderResets ==
  /\ thief = "header" /\ hdrs # <<>>
  /\ hdr' = Head(hdrs) /\ hdrs' = Tail(hdrs)
  /\ totals' = NoTotals
  /\ IF Head(hdrs).count > 0 THEN thief' = "list" /\ UNCHANGED failed
     ELSE IF Head(hdrs).last THEN StealEnds(Head(hdrs))
     ELSE UNCHANGED <<thief, failed>>
  /\ UNCHANGED <<victimVars, payloads, incoming, queued, probes>>

RecvHeaderProbed ==
  /\ thief = "header" /\ hdrs # <<>>
  /\ hdr' = Head(hdrs)
  /\ IF Head(hdrs).count > 0 THEN thief' = "list" /\ hdrs' = Tail(hdrs)
     ELSE UNCHANGED <<thief, hdrs>>
  /\ UNCHANGED <<victimVars, payloads, incoming, queued, totals, probes, failed>>

(* xlb_steal(): a header; the loop ends with the last one. *)
RecvHeader ==
  /\ thief = "header" /\ hdrs # <<>>
  /\ hdr' = Head(hdrs) /\ hdrs' = Tail(hdrs)
  /\ IF Head(hdrs).count > 0 THEN thief' = "list" /\ UNCHANGED failed
     ELSE IF Head(hdrs).last THEN StealEnds(Head(hdrs))
     ELSE UNCHANGED <<thief, failed>>
  /\ UNCHANGED <<victimVars, payloads, incoming, queued, totals, probes>>

(* steal_payloads(): the list, *)
RecvList ==
  /\ thief = "list" /\ payloads # <<>>
  /\ incoming' = Head(payloads) /\ payloads' = Tail(payloads)
  /\ thief' = "units"
  /\ UNCHANGED <<victimVars, hdrs, hdr, queued, totals, probes, failed>>

(* and the units, which are queued as they come. *)
RecvUnit ==
  LET u == Head(incoming)
      counted == IF u \in Par THEN [totals EXCEPT !.par = @ + 1]
                 ELSE [totals EXCEPT !.single = @ + 1]
  IN /\ thief = "units" /\ payloads # <<>>
     /\ payloads' = Tail(payloads)
     /\ incoming' = Tail(incoming)
     /\ queued' = queued \cup {u}
     /\ totals' = counted
     /\ IF Len(incoming) > 1 THEN UNCHANGED <<thief, failed>>
        ELSE IF hdr.last THEN StealEnds(hdr)
        ELSE thief' = "header" /\ UNCHANGED failed
     /\ UNCHANGED <<victimVars, hdrs, hdr, probes>>

Next ==
  \/ Probe \/ NothingThere
  \/ \E us \in SUBSET pool : \E units \in Bijection(1..Cardinality(us), us) : StartSteal(units)
  \/ StealCallback \/ StealFinish
  \/ RecvHeader \/ RecvList \/ RecvUnit

Spec == Init /\ [][Next]_vars

(* Messages arrive, and a server in a steal runs on. *)
(* The victim's sends have all returned, whether buffered or not. *)
Sent == hdrs = <<>> /\ payloads = <<>>
LiveSpec == /\ Spec
            /\ WF_vars(Sent /\ StealCallback) /\ WF_vars(Sent /\ StealFinish)
            /\ WF_vars(RecvHeader) /\ WF_vars(RecvList) /\ WF_vars(RecvUnit)
-----------------------------------------------------------------------------
(* Between two steals every unit is with the victims or in the queue of    *)
(* the thief, and nothing is left in the channels for the next steal.      *)
StealComplete ==
  (thief = "loop" /\ victim = "loop") =>
    hdrs = <<>> /\ payloads = <<>> /\ batch = <<>> /\ queued = Units \ pool

(* The totals from which the flags of xlb_recheck_queues() are made count  *)
(* all units of the steal, over all its batches.                           *)
TotalsExact ==
  [][thief' = "loop" /\ thief # "loop" =>
       totals' = [single |-> Cardinality(given \ Par), par |-> Cardinality(given \cap Par)]]_vars

(* A steal that was started ends, whether sends are buffered or not: no    *)
(* side waits for what the other never sends.                              *)
StealTerminates == thief # "loop" ~> thief = "loop"
=============================================================================
