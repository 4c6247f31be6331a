---------------------------- MODULE AuditSession ----------------------------
(***************************************************************************)
(* The audit state machine of one endpoint (crates/yon/src/audit/          *)
(* session.rs, AuditSession).  Every operator takes the state of a session *)
(* and returns the next one.                                               *)
(*                                                                         *)
(* A chain head is a hash over everything committed before it, so a chain  *)
(* is modelled by what was committed: the control chain is its sequence of *)
(* events, and a byte chain, whose blocks are cut at fixed offsets of one  *)
(* ordered stream, is the number of its blocks and of the bytes in them.   *)
(* Signatures and session IDs always verify: both ends run this code.      *)
(***************************************************************************)
EXTENDS Naturals, Sequences

CONSTANTS
    BlockLen   \* CANONICAL_BLOCK_LEN, the bytes of a full block

ASSUME BlockLenAssumption == BlockLen \in Nat \ {0}

\* One byte direction: committed blocks and the normalizer's partial block.
NoBytes == [count |-> 0, bytes |-> 0, partial |-> 0]

\* No checkpoint in this direction yet; sequences start at 1.
NoCheckpoint == [sequence |-> 0, snapshot |-> <<>>]

\* The session as AuditReady leaves it.
NewSession ==
    [ phase |-> "Active",
      input |-> NoBytes,
      output |-> NoBytes,
      control |-> <<>>,
      next |-> 1,
      sent |-> NoCheckpoint,
      received |-> NoCheckpoint,
      confirmedSent |-> 0,
      confirmedReceived |-> 0 ]

\* AuditSession::new.
FreshSession == [NewSession EXCEPT !.phase = "Fresh"]

\* receive_peer_hello and compute_ready, which always follow each other.
ReceivePeerHello(s) == [s EXCEPT !.phase = "Ready"]

\* receive_peer_ready: only now may the terminal become active.
ReceivePeerReady(s) == [s EXCEPT !.phase = "Active"]

-----------------------------------------------------------------------------
(* Byte directions *)

\* Normalizer::feed: whole blocks leave the buffer, whatever the segment.
Feed(d, length) ==
    LET buffered == d.partial + length
        blocks   == buffered \div BlockLen
    IN  [ count   |-> d.count + blocks,
          bytes   |-> d.bytes + blocks * BlockLen,
          partial |-> buffered % BlockLen ]

\* Mutant of Finish: the partial block is dropped instead of committed.
FinishDropsTail(d) == [d EXCEPT !.partial = 0]

\* Normalizer::finish: what is left becomes the last, shorter block.
Finish(d) ==
    [ count   |-> IF d.partial = 0 THEN d.count ELSE d.count + 1,
      bytes   |-> d.bytes + d.partial,
      partial |-> 0 ]

\* Bytes this side has recorded in a direction, committed or not.
Recorded(d) == d.bytes + d.partial

RecordInput(s, length) == [s EXCEPT !.input = Feed(@, length)]

RecordOutput(s, length) == [s EXCEPT !.output = Feed(@, length)]

\* commit_shared_control: one chain holds the events of both directions.
RecordControl(s, event) == [s EXCEPT !.control = Append(@, event)]

\* require_recordable.
Recordable(s) == s.phase = "Active"

-----------------------------------------------------------------------------
(* Checkpoints *)

\* shared_snapshot: the counts and heads, which a partial block is not in.
Snapshot(s) ==
    << <<s.input.count, s.input.bytes>>, <<s.output.count, s.output.bytes>>, s.control >>

\* The signed checkpoint of the state before it.
Checkpoint(s) == [sequence |-> s.next, snapshot |-> Snapshot(s)]

BuildCheckpoint(s) == [s EXCEPT !.sent = Checkpoint(s), !.next = @ + 1]

\* fail_checkpoint.
FailCheckpoint(s) == [s EXCEPT !.phase = "Failed"]

\* A retransmission of the last one is acknowledged again; a gap is a mismatch.
CheckpointAccepted(s, c) == c.sequence = s.received.sequence + 1 \/ c = s.received

ReceiveCheckpoint(s, c) ==
    IF CheckpointAccepted(s, c)
    THEN [s EXCEPT !.received = c, !.confirmedReceived = c.sequence]
    ELSE FailCheckpoint(s)

\* An acknowledgement names the last checkpoint sent and repeats its snapshot.
AckAccepted(s, c) == c = s.sent

ReceiveAck(s, c) ==
    IF AckAccepted(s, c)
    THEN [s EXCEPT !.confirmedSent = IF @ >= c.sequence THEN @ ELSE c.sequence]
    ELSE FailCheckpoint(s)

\* last_confirmed_checkpoint_sequence: the larger of the two directions.
LastConfirmed(s) ==
    IF s.confirmedSent >= s.confirmedReceived THEN s.confirmedSent ELSE s.confirmedReceived

-----------------------------------------------------------------------------
(* Closing *)

\* close_directions: the tails are committed and recording ends.
CloseDirections(s) ==
    [s EXCEPT !.input = Finish(@), !.output = Finish(@), !.phase = "Finalizing"]

\* build_manifest: both ends must build the identical one.
Manifest(s, ending) ==
    [snapshot |-> Snapshot(s), ending |-> ending, confirmed |-> LastConfirmed(s)]

\* fail_closed_records; a session that has failed already gets none.
FailClosed(s) == [s EXCEPT !.phase = "Failed"]

\* finish_ledger_commit.
FinishLedgerCommit(s) == [s EXCEPT !.phase = "Finished"]
=============================================================================
