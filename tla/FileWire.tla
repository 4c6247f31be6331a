------------------------------ MODULE FileWire ------------------------------
(***************************************************************************)
(* The direction tables of the file transfer protocol                      *)
(* (crates/yonder-core/src/wire/file_transfer.rs, WireSession::send and    *)
(* WireSession::receive): for a direction, a side and a WireState, which   *)
(* message may be sent or received and the state that follows.  A message  *)
(* without a row is refused with WireStateError and changes nothing.       *)
(***************************************************************************)
EXTENDS FiniteSets

Directions == {"upload", "download"}
Sides == {"controller", "host"}

Tags == {"UploadOpen", "DownloadOpen", "DownloadOffer", "Ready", "Data",
         "Finish", "Committed", "Cancel", "Error"}

WireStates == {"AwaitingOpen", "OpenSent", "AwaitingOffer", "AwaitingReady",
               "Transferring", "AwaitingCommitted", "Committed", "Closed"}

\* The rows of one (direction, side, state): each tag of a pair leads to its state.
Rows(direction, side, state, moves) ==
    {<<direction, side, state, m[1], m[2]>> : m \in moves}

Closing(tags) == {<<t, "Closed">> : t \in tags}

\* What the sender of the file may send, and the controller as a receiver.
Streaming == {<<"Data", "Transferring">>, <<"Finish", "AwaitingCommitted">>}

SendTable ==
    Rows("upload", "controller", "AwaitingOpen", {<<"UploadOpen", "OpenSent">>})
    \cup Rows("upload", "controller", "OpenSent",
              {<<"Ready", "Transferring">>} \cup Closing({"Cancel", "Error"}))
    \cup Rows("upload", "controller", "Transferring",
              Streaming \cup Closing({"Cancel", "Error"}))
    \cup Rows("upload", "host", "OpenSent", {<<"Ready", "Transferring">>})
    \cup Rows("upload", "host", "Transferring", Closing({"Error"}))
    \cup Rows("upload", "host", "AwaitingCommitted", {<<"Committed", "Committed">>})
    \cup Rows("download", "controller", "AwaitingOpen", {<<"DownloadOpen", "AwaitingOffer">>})
    \cup Rows("download", "controller", "AwaitingOffer", Closing({"Cancel", "Error"}))
    \cup Rows("download", "controller", "AwaitingReady",
              {<<"Ready", "Transferring">>} \cup Closing({"Cancel", "Error"}))
    \cup Rows("download", "controller", "Transferring",
              Streaming \cup Closing({"Cancel", "Error"}))
    \cup Rows("download", "controller", "AwaitingCommitted", {<<"Committed", "Committed">>})
    \cup Rows("download", "host", "OpenSent", {<<"DownloadOffer", "AwaitingReady">>})
    \cup Rows("download", "host", "Transferring", Streaming \cup Closing({"Error"}))

\* What the sender of an upload may receive once Finish is out.
\* Mutant of AfterFinish: a failure of the receiver is not expected any more.
AfterFinishNoError == {<<"Committed", "Committed">>}

AfterFinish == {<<"Committed", "Committed">>} \cup Closing({"Error"})

ReceiveTable ==
    Rows("upload", "controller", "OpenSent", {<<"Ready", "Transferring">>} \cup Closing({"Error"}))
    \cup Rows("upload", "controller", "AwaitingCommitted", AfterFinish)
    \cup Rows("upload", "host", "AwaitingOpen", {<<"UploadOpen", "OpenSent">>})
    \cup Rows("upload", "host", "OpenSent", Closing({"Cancel", "Error"}))
    \cup Rows("upload", "host", "Transferring", Streaming \cup Closing({"Cancel", "Error"}))
    \cup Rows("download", "controller", "AwaitingOffer",
              {<<"DownloadOffer", "AwaitingReady">>} \cup Closing({"Error"}))
    \cup Rows("download", "controller", "Transferring", Streaming \cup Closing({"Error"}))
    \cup Rows("download", "host", "AwaitingOpen", {<<"DownloadOpen", "OpenSent">>})
    \cup Rows("download", "host", "AwaitingReady",
              {<<"Ready", "Transferring">>} \cup Closing({"Cancel", "Error"}))
    \cup Rows("download", "host", "AwaitingCommitted",
              {<<"Committed", "Committed">>} \cup Closing({"Cancel", "Error"}))

\* send() and receive() accept the message.
MaySend(direction, side, state, tag) ==
    \E to \in WireStates : <<direction, side, state, tag, to>> \in SendTable

MayReceive(direction, side, state, tag) ==
    \E to \in WireStates : <<direction, side, state, tag, to>> \in ReceiveTable

\* The state after an accepted message.
SentState(direction, side, state, tag) ==
    CHOOSE to \in WireStates : <<direction, side, state, tag, to>> \in SendTable

ReceivedState(direction, side, state, tag) ==
    CHOOSE to \in WireStates : <<direction, side, state, tag, to>> \in ReceiveTable
=============================================================================
