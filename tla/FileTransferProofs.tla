------------------------- MODULE FileTransferProofs -------------------------
(***************************************************************************)
(* One file transfer for files of any size and any number of faults:       *)
(* FileTransfer implements FileDelivery, and what is published is what     *)
(* Finish announced.                                                       *)
(*                                                                         *)
(* The digest of Finish carries the argument.  It is computed from the     *)
(* blocks sent, which recheck_source has found to be those of the source   *)
(* as it was opened (Sourced); the receiver publishes only what has that   *)
(* digest (Published); and from the moment a Finish may be on its way the  *)
(* sender's only way to report a failure is an Error of a receiver that    *)
(* has given up (Honest).                                                  *)
(***************************************************************************)
EXTENDS FileTransfer, TLAPS

\* Every frame there is, of files of any size.
AllFrames ==
    {Bare(t) : t \in {"DownloadOpen", "Ready", "Committed", "Cancel", "Cut"}}
    \cup {Sized(t, n) : t \in {"UploadOpen", "DownloadOffer"}, n \in Nat}
    \cup {Data(b) : b \in Nat}
    \cup {Finish(n, d) : n \in Nat, d \in Seq(Nat)}
    \cup {Error(c) : c \in Codes}

\* The stages of the side that sends the file, and of the one that receives it.
SenderStages ==
    {"start", "awaitOpen", "openSource", "audit", "offer", "awaitReady", "stream", "finish",
     "awaitCommitted", "settled", "end", "foreign"}
ReceiverStages ==
    {"start", "awaitOpen", "awaitOffer", "audit", "prepare", "ready", "receive", "seal",
     "commit", "ack", "settled", "end", "foreign"}

Entries(q) == {q[i] : i \in DOMAIN q}

\* The frames on their way to s.
Carried(s) == Entries(chan[s])

Gone == {"settled", "end"}
Outcomes == [kind : Kinds \cup {"Failed"}, code : Codes \cup {"none"}]

\* Each side is at a stage of its role, and has an outcome once it has left.
Settings ==
    /\ dir \in Directions
    /\ pc \in [Sides -> SenderStages \cup ReceiverStages]
    /\ pc[Sender] \in SenderStages /\ pc[Receiver] \in ReceiverStages
    /\ pc["controller"] # "awaitOpen" /\ pc["host"] # "start"
    /\ wire \in [Sides -> WireStates] /\ chan \in [Sides -> Seq(AllFrames)]
    /\ out \in [Sides -> Outcomes]
    /\ \A s \in Sides : out[s].kind = "none" <=> pc[s] \notin Gone
    /\ \A s \in Sides : pc[s] \in Gone \cup {"foreign"} => chan[s] = <<>>
    /\ pc[Sender] = "awaitCommitted" => wire[Sender] = "AwaitingCommitted"

\* The blocks sent are the source as it was opened, once they are rechecked.
Sourced ==
    /\ src \in [version : Nat, size : Nat] /\ opened \in [version : Nat, size : Nat]
    /\ opened.version <= src.version
    /\ sent \in Seq(Nat)
    /\ \A i \in DOMAIN sent : opened.version <= sent[i] /\ sent[i] <= src.version
    /\ pc[Sender] \in {"awaitOpen", "openSource"} => sent = <<>>
    /\ pc[Sender] \in {"finish", "awaitCommitted"} => sent = Snapshot

\* Only what verify_finish has accepted is published.
Published ==
    /\ target \in {"absent", "other", "file"}
    /\ pc[Receiver] = "seal" => finish = Finish(finish.size, finish.digest)
    /\ pc[Receiver] = "commit" => Len(temp) = declared /\ finish = Finish(declared, temp)
    /\ stored # NoFile => pc[Receiver] \in {"ack", "settled", "end"}
    /\ PublishedIsWhole

\* A Finish is on its way or has been read.
FinishSent ==
    \/ \E f \in Carried(Receiver) : f.tag = "Finish"
    \/ pc[Receiver] \in {"seal", "commit", "ack"}
    \/ target = "file"

\* What two sides of this program know of each other around the Finish.
Honest ==
    /\ \A f \in Carried(Receiver) : f.tag = "Finish" => f = Finish(Len(sent), sent)
    /\ pc[Receiver] \in {"seal", "commit"} => finish = Finish(Len(sent), sent)
    /\ FinishSent =>
          /\ sent = Snapshot
          /\ pc[Sender] \in {"awaitCommitted", "settled", "end"}
          /\ out[Sender].kind \in {"none", "CommitStatusUnknown", "Committed", "AuditFailed"}
    /\ target = "file" <=> pc[Receiver] = "ack" \/ out[Receiver].kind \in StoredKinds
    /\ target = "file" => stored = sent
    /\ \A f \in Carried(Sender) :
          /\ f.tag = "Committed" => target = "file"
          /\ f.tag = "Error" => out[Receiver].kind # "none" /\ target # "file"
    /\ out[Sender].kind \in {"Committed", "AuditFailed"} => target = "file"

FtInv == Settings /\ Sourced /\ Published /\ (~Mixed => Honest)

-----------------------------------------------------------------------------
(* Sequences, sides, frames and tables *)

\* What is in a queue after it is read from or written to.
LEMMA QueueFacts ==
    ASSUME NEW S, NEW q \in Seq(S)
    PROVE  /\ Entries(q) \subseteq S /\ Entries(<<>>) = {}
           /\ q # <<>> => /\ Head(q) \in Entries(q) /\ Tail(q) \in Seq(S)
                          /\ Entries(Tail(q)) \subseteq Entries(q)
           /\ \A r \in Seq(S) : q \o r \in Seq(S) /\ Entries(q \o r) = Entries(q) \cup Entries(r)
           /\ \A f \in S : /\ <<f>> \in Seq(S) /\ Entries(<<f>>) = {f}
                           /\ Append(q, f) \in Seq(S) /\ Entries(Append(q, f)) = Entries(q) \cup {f}
  <1>1. DOMAIN q = 1..Len(q) /\ Len(q) \in Nat /\ \A i \in DOMAIN q : q[i] \in S
    OBVIOUS
  <1>2. Entries(q) \subseteq S /\ Entries(<<>>) = {}
    BY <1>1 DEF Entries
  <1>3. ASSUME q # <<>>
        PROVE  Head(q) \in Entries(q) /\ Tail(q) \in Seq(S) /\ Entries(Tail(q)) \subseteq Entries(q)
    <2>1. /\ Len(q) >= 1 /\ Head(q) = q[1] /\ Tail(q) \in Seq(S)
          /\ DOMAIN Tail(q) = 1..(Len(q) - 1) /\ \A i \in 1..(Len(q) - 1) : Tail(q)[i] = q[i + 1]
      BY <1>1, <1>3
    <2>2. \A i \in DOMAIN Tail(q) : i + 1 \in DOMAIN q
      BY <1>1, <2>1
    <2> QED  BY <1>1, <2>1, <2>2 DEF Entries
  <1>4. ASSUME NEW r \in Seq(S)
        PROVE  q \o r \in Seq(S) /\ Entries(q \o r) = Entries(q) \cup Entries(r)
    <2>1. /\ q \o r \in Seq(S) /\ Len(r) \in Nat /\ DOMAIN r = 1..Len(r)
          /\ DOMAIN (q \o r) = 1..(Len(q) + Len(r))
          /\ \A i \in 1..Len(q) : (q \o r)[i] = q[i]
          /\ \A i \in 1..(Len(q) + Len(r)) : i > Len(q) => (q \o r)[i] = r[i - Len(q)]
      BY <1>1
    <2>2. ASSUME NEW x \in Entries(q \o r) PROVE x \in Entries(q) \cup Entries(r)
      <3>1. PICK i \in 1..(Len(q) + Len(r)) : x = (q \o r)[i]
        BY <2>1 DEF Entries
      <3>2. CASE i > Len(q)
        <4>1. i - Len(q) \in DOMAIN r /\ x = r[i - Len(q)]
          BY <1>1, <2>1, <3>1, <3>2
        <4> QED  BY <4>1 DEF Entries
      <3>3. CASE ~(i > Len(q))
        <4>1. i \in DOMAIN q /\ x = q[i]
          BY <1>1, <2>1, <3>1, <3>3
        <4> QED  BY <4>1 DEF Entries
      <3> QED  BY <3>2, <3>3
    <2>3. ASSUME NEW x \in Entries(q) PROVE x \in Entries(q \o r)
      <3>1. PICK i \in DOMAIN q : x = q[i]
        BY DEF Entries
      <3>2. i \in DOMAIN (q \o r) /\ x = (q \o r)[i]
        BY <1>1, <2>1, <3>1
      <3> QED  BY <3>2 DEF Entries
    <2>4. ASSUME NEW x \in Entries(r) PROVE x \in Entries(q \o r)
      <3>1. PICK i \in DOMAIN r : x = r[i]
        BY DEF Entries
      <3>2. i + Len(q) \in 1..(Len(q) + Len(r)) /\ i + Len(q) > Len(q) /\ (i + Len(q)) - Len(q) = i
        BY <1>1, <2>1, <3>1
      <3>3. x = (q \o r)[i + Len(q)]
        BY <2>1, <3>1, <3>2
      <3> QED  BY <2>1, <3>2, <3>3 DEF Entries
    <2> QED  BY <2>1, <2>2, <2>3, <2>4
  <1>5. ASSUME NEW f \in S
        PROVE  /\ <<f>> \in Seq(S) /\ Entries(<<f>>) = {f}
               /\ Append(q, f) \in Seq(S) /\ Entries(Append(q, f)) = Entries(q) \cup {f}
    <2>1. <<f>> \in Seq(S) /\ Entries(<<f>>) = {f}
      BY DEF Entries
    <2>2. Append(q, f) = q \o <<f>>
      OBVIOUS
    <2> QED  BY <1>4, <2>1, <2>2
  <1> QED  BY <1>2, <1>3, <1>4, <1>5

\* The two sides and their roles.
LEMMA SideFacts ==
    ASSUME dir \in Directions
    PROVE  /\ Sender \in Sides /\ Receiver \in Sides /\ Sender # Receiver
           /\ Peer(Sender) = Receiver /\ Peer(Receiver) = Sender
           /\ \A s \in Sides : s = Sender \/ s = Receiver
           /\ Sender = "controller" <=> dir = "upload"
           /\ Receiver = "controller" <=> dir = "download"
  BY DEF Directions, Sides, Sender, Receiver, Peer

LEMMA SameSides ==
    ASSUME UNCHANGED dir
    PROVE  Sender' = Sender /\ Receiver' = Receiver
  BY DEF Sender, Receiver, Peer

\* What the frames carry.
LEMMA FrameFacts ==
    /\ \A f \in AllFrames : f.tag \in Tags \cup {"Cut"}
    /\ \A f \in AllFrames : f.tag = "Finish" => f = Finish(f.size, f.digest)
    /\ \A f \in AllFrames : f.tag = "Error" => f.code \in Codes
    /\ \A n, d : Finish(n, d).tag = "Finish" /\ Finish(n, d).size = n /\ Finish(n, d).digest = d
    /\ \A t : Bare(t).tag = t
    /\ \A t, n : Sized(t, n).tag = t
    /\ \A b : Data(b).tag = "Data"
    /\ \A c : Error(c).tag = "Error"
    /\ Cut \in AllFrames /\ Cut.tag = "Cut"
  <1>1. /\ \A n, d : Finish(n, d).tag = "Finish" /\ Finish(n, d).size = n /\ Finish(n, d).digest = d
        /\ \A t : Bare(t).tag = t
        /\ \A t, n : Sized(t, n).tag = t
        /\ \A b : Data(b).tag = "Data"
        /\ \A c : Error(c).tag = "Error" /\ Error(c).code = c
    BY DEF Finish, Bare, Sized, Data, Error
  <1>2. Cut \in AllFrames /\ Cut.tag = "Cut"
    <2>1. Cut = Bare("Cut")
      BY DEF Cut, Bare
    <2> QED  BY <1>1, <2>1 DEF AllFrames
  <1>3. ASSUME NEW f \in AllFrames
        PROVE  /\ f.tag \in Tags \cup {"Cut"}
               /\ f.tag = "Finish" => f = Finish(f.size, f.digest)
               /\ f.tag = "Error" => f.code \in Codes
    BY <1>1 DEF AllFrames, Tags
  <1> QED  BY <1>1, <1>2, <1>3

\* Once Finish is sent its sender awaits the commit, and expects both answers.
LEMMA TableFacts ==
    /\ \A d, s, w : MaySend(d, s, w, "Finish") => SentState(d, s, w, "Finish") = "AwaitingCommitted"
    /\ \A d, s, w, t : MaySend(d, s, w, t) => SentState(d, s, w, t) \in WireStates
    /\ \A d, s, w, t : MayReceive(d, s, w, t) => ReceivedState(d, s, w, t) \in WireStates
    /\ \A t \in {"Committed", "Error"} :
          /\ MayReceive("upload", "controller", "AwaitingCommitted", t)
          /\ MayReceive("download", "host", "AwaitingCommitted", t)
  <1>1. \A d, s, w, to : <<d, s, w, "Finish", to>> \in SendTable => to = "AwaitingCommitted"
    BY DEF SendTable, Rows, Closing, Streaming
  <1>2. \A d, s, w, t : MaySend(d, s, w, t) =>
           SentState(d, s, w, t) \in WireStates /\ <<d, s, w, t, SentState(d, s, w, t)>> \in SendTable
    BY DEF MaySend, SentState
  <1>3. \A d, s, w, t : MayReceive(d, s, w, t) => ReceivedState(d, s, w, t) \in WireStates
    BY DEF MayReceive, ReceivedState
  <1>4. /\ <<"upload", "controller", "AwaitingCommitted", "Committed", "Committed">> \in ReceiveTable
        /\ <<"upload", "controller", "AwaitingCommitted", "Error", "Closed">> \in ReceiveTable
        /\ <<"download", "host", "AwaitingCommitted", "Committed", "Committed">> \in ReceiveTable
        /\ <<"download", "host", "AwaitingCommitted", "Error", "Closed">> \in ReceiveTable
    <2> DEFINE both == {<<"Committed", "Committed">>} \cup Closing({"Cancel", "Error"})
    <2>1. \A d, s, w, moves, x, y : <<x, y>> \in moves => <<d, s, w, x, y>> \in Rows(d, s, w, moves)
      BY DEF Rows
    <2>2. \A x \in {"Committed", "Error"} : \E y \in {"Committed", "Closed"} :
             (x = "Committed" <=> y = "Committed") /\ <<x, y>> \in AfterFinish /\ <<x, y>> \in both
      BY DEF AfterFinish, Closing
    <2>3. /\ Rows("upload", "controller", "AwaitingCommitted", AfterFinish) \subseteq ReceiveTable
          /\ Rows("download", "host", "AwaitingCommitted", both) \subseteq ReceiveTable
      BY DEF ReceiveTable
    <2> HIDE DEF both
    <2>4. /\ <<"Committed", "Committed">> \in AfterFinish /\ <<"Error", "Closed">> \in AfterFinish
          /\ <<"Committed", "Committed">> \in both /\ <<"Error", "Closed">> \in both
      BY <2>2
    <2> QED  BY <2>1, <2>3, <2>4
  <1>5. "Committed" \in WireStates /\ "Closed" \in WireStates
    BY DEF WireStates
  <1> QED  BY <1>1, <1>2, <1>3, <1>4, <1>5 DEF MayReceive

-----------------------------------------------------------------------------
(* A handler goes on, or leaves its state machine *)

\* The handler of s continues at another stage of its role.
LEMMA SettingsMove ==
    ASSUME Settings, UNCHANGED <<dir, out>>, NEW s \in Sides, NEW next,
           pc' = [pc EXCEPT ![s] = next],
           pc[s] \notin Gone \cup {"foreign"},
           next \notin Gone \cup {"foreign", "awaitOpen", "start"},
           s = Sender => next \in SenderStages, s = Receiver => next \in ReceiverStages,
           wire' \in [Sides -> WireStates], \A x \in Sides : x # s => wire'[x] = wire[x],
           next = "awaitCommitted" => wire'[s] = "AwaitingCommitted",
           chan' \in [Sides -> Seq(AllFrames)],
           \A x \in Sides : pc[x] \in Gone \cup {"foreign"} => chan'[x] = chan[x]
    PROVE  /\ Settings' /\ (Mixed' <=> Mixed)
           /\ pc'[s] = next /\ \A x \in Sides : x # s => pc'[x] = pc[x]
           /\ Sender' = Sender /\ Receiver' = Receiver
  <1> HIDE DEF AllFrames
  <1>1. /\ Sender' = Sender /\ Receiver' = Receiver
        /\ Sender \in Sides /\ Receiver \in Sides /\ Sender # Receiver
        /\ \A x \in Sides : x = Sender \/ x = Receiver
    BY SameSides, SideFacts DEF Settings
  <1>2. pc'[s] = next /\ \A x \in Sides : x # s => pc'[x] = pc[x]
    BY DEF Settings
  <1>3. pc' \in [Sides -> SenderStages \cup ReceiverStages]
    BY <1>1 DEF Settings
  <1>4. pc'[Sender] \in SenderStages /\ pc'[Receiver] \in ReceiverStages
    BY <1>1, <1>2 DEF Settings
  <1>5. Mixed' <=> Mixed
    BY <1>2 DEF Mixed
  <1>6. pc'["controller"] # "awaitOpen" /\ pc'["host"] # "start"
    BY <1>2 DEF Settings, Sides
  <1>7. pc'[Sender] = "awaitCommitted" => wire'[Sender] = "AwaitingCommitted"
    BY <1>1, <1>2 DEF Settings
  <1>8. \A x \in Sides : pc'[x] \in Gone \cup {"foreign"} => pc[x] = pc'[x] /\ x # s
    BY <1>2
  <1>9. \A x \in Sides : (out'[x].kind = "none" <=> pc'[x] \notin Gone)
                         /\ (pc'[x] \in Gone \cup {"foreign"} => chan'[x] = <<>>)
    BY <1>2, <1>8 DEF Settings
  <1> QED  BY <1>1, <1>2, <1>3, <1>4, <1>5, <1>6, <1>7, <1>9 DEF Settings

\* The handler of s leaves with outcome o, having written fs.
LEMMA SettingsEnd ==
    ASSUME Settings, UNCHANGED dir, NEW s \in Sides, pc[s] \notin Gone \cup {"foreign"},
           NEW o \in Outcomes, o.kind # "none", NEW fs \in Seq(AllFrames), Ends(s, o, fs)
    PROVE  /\ Settings' /\ (Mixed' <=> Mixed)
           /\ Sender' = Sender /\ Receiver' = Receiver
           /\ pc'[s] = "settled" /\ out'[s] = o /\ Carried(s)' = {}
           /\ \A x \in Sides : x # s =>
                 /\ pc'[x] = pc[x] /\ out'[x] = out[x]
                 /\ Carried(x)' \subseteq Carried(x) \cup Entries(fs)
                 /\ pc[x] \in Gone => Carried(x)' = {}
           /\ temp' = (IF s = Receiver THEN NoFile ELSE temp)
  <1> HIDE DEF AllFrames, Outcomes
  <1>1. /\ Sender' = Sender /\ Receiver' = Receiver
        /\ Sender \in Sides /\ Receiver \in Sides /\ Sender # Receiver
        /\ \A x \in Sides : x = Sender \/ x = Receiver
    BY SameSides, SideFacts DEF Settings
  <1>2. /\ pc'[s] = "settled" /\ \A x \in Sides : x # s => pc'[x] = pc[x]
        /\ out'[s] = o /\ \A x \in Sides : x # s => out'[x] = out[x]
        /\ \A x \in Sides : x # s => wire'[x] = wire[x]
        /\ temp' = (IF s = Receiver THEN NoFile ELSE temp)
    BY DEF Ends, Settings
  <1>3. /\ pc' \in [Sides -> SenderStages \cup ReceiverStages] /\ out' \in [Sides -> Outcomes]
        /\ wire' \in [Sides -> WireStates]
    BY DEF Ends, Settings, SenderStages, WireStates
  <1>4. \A x \in Sides : chan'[x] = IF x = s THEN <<>> ELSE Delivered(x, fs)
    BY DEF Ends
  <1>5. ASSUME NEW x \in Sides
        PROVE  /\ chan'[x] \in Seq(AllFrames)
               /\ x = s => chan'[x] = <<>> /\ Carried(x)' = {}
               /\ x # s => Carried(x)' \subseteq Carried(x) \cup Entries(fs)
               /\ x # s /\ pc[x] \in Gone \cup {"foreign"} => chan'[x] = <<>> /\ Carried(x)' = {}
    <2>1. chan[x] \in Seq(AllFrames)
      BY DEF Settings
    <2>2. /\ <<>> \in Seq(AllFrames) /\ Entries(<<>>) = {}
          /\ chan[x] \o fs \in Seq(AllFrames) /\ Entries(chan[x] \o fs) = Entries(chan[x]) \cup Entries(fs)
      BY <2>1, QueueFacts
    <2>3. PICK c : c = chan'[x]
      OBVIOUS
    <2>4. Carried(x)' = Entries(c)
      BY <2>3 DEF Carried, Entries
    <2>5. pc[x] \in Gone \cup {"foreign"} => ~Listening(x) /\ chan[x] = <<>>
      BY DEF Listening, Gone, Settings
    <2>6. c = IF x = s THEN <<>> ELSE IF Listening(x) THEN chan[x] \o fs ELSE chan[x]
      BY <1>4, <2>3 DEF Delivered
    <2> QED  BY <2>1, <2>2, <2>3, <2>4, <2>5, <2>6 DEF Carried
  <1>6. chan' \in [Sides -> Seq(AllFrames)]
    BY <1>5 DEF Ends
  <1>7. Mixed' <=> Mixed
    BY <1>2 DEF Mixed
  <1>8. \A x \in Sides : /\ out'[x].kind = "none" <=> pc'[x] \notin Gone
                         /\ pc'[x] \in Gone \cup {"foreign"} => chan'[x] = <<>>
    BY <1>2, <1>5 DEF Settings, Gone
  <1>9. pc'[Sender] \in SenderStages /\ pc'[Receiver] \in ReceiverStages
    BY <1>1, <1>2 DEF Settings, SenderStages, ReceiverStages
  <1>10. pc'["controller"] # "awaitOpen" /\ pc'["host"] # "start"
    BY <1>2 DEF Settings, Sides
  <1>11. pc'[Sender] = "awaitCommitted" => wire'[Sender] = "AwaitingCommitted"
    BY <1>1, <1>2 DEF Settings
  <1>12. Settings'
    BY <1>1, <1>3, <1>6, <1>8, <1>9, <1>10, <1>11 DEF Settings
  <1> QED  BY <1>1, <1>2, <1>5, <1>7, <1>12 DEF Gone

\* The receiver says Committed only once the file is there, and Error only
\* when it never will be; the sender fails only before Finish, or after a
\* receiver that has given up.
EndsSoundly(s, o, fs) ==
    /\ s = Receiver =>
          IF pc[s] = "ack" THEN o.kind \in StoredKinds /\ \A f \in Entries(fs) : f.tag # "Error"
          ELSE o.kind \notin StoredKinds /\ \A f \in Entries(fs) : f.tag # "Committed"
    /\ s = Sender =>
          /\ \A f \in Entries(fs) : f.tag = "Finish" =>
                pc[s] = "finish" /\ f = Finish(Len(sent), sent) /\ o.kind = "CommitStatusUnknown"
          /\ ~Mixed /\ o.kind \in {"Committed", "AuditFailed"} => target = "file"
          /\ ~Mixed /\ pc[s] = "awaitCommitted" =>
                \/ o.kind \in {"CommitStatusUnknown", "Committed"}
                \/ out[Receiver].kind # "none" /\ target # "file"

\* A handler that leaves so keeps the invariant.
LEMMA EndStep ==
    ASSUME FtInv, NEW s \in Sides, pc[s] \notin Gone \cup {"foreign"},
           NEW o \in Outcomes, o.kind # "none", NEW fs \in Seq(AllFrames), Ends(s, o, fs),
           UNCHANGED <<dir, src, opened, sent, declared, finish, target, stored>>,
           EndsSoundly(s, o, fs)
    PROVE  FtInv'
  <1> HIDE DEF AllFrames, Outcomes
  <1>1. /\ Settings' /\ (Mixed' <=> Mixed)
        /\ Sender' = Sender /\ Receiver' = Receiver
        /\ pc'[s] = "settled" /\ out'[s] = o /\ Carried(s)' = {}
        /\ \A x \in Sides : x # s =>
              /\ pc'[x] = pc[x] /\ out'[x] = out[x]
              /\ Carried(x)' \subseteq Carried(x) \cup Entries(fs)
              /\ pc[x] \in Gone => Carried(x)' = {}
        /\ temp' = (IF s = Receiver THEN NoFile ELSE temp)
    BY SettingsEnd DEF FtInv
  <1>2. /\ Sender \in Sides /\ Receiver \in Sides /\ Sender # Receiver
        /\ s = Sender \/ s = Receiver
    BY SideFacts DEF FtInv, Settings
  <1>3. Sourced'
    <2>1. Snapshot' = Snapshot
      BY DEF Snapshot
    <2>2. pc'[Sender] = pc[Sender] \/ pc'[Sender] = "settled"
      BY <1>1, <1>2
    <2> QED  BY <1>1, <2>1, <2>2 DEF FtInv, Sourced
  <1>4. Published'
    <2>1. PublishedIsWhole'
      BY DEF FtInv, Published, PublishedIsWhole, NoFile, Finish
    <2>2. CASE s = Receiver
      BY <1>1, <2>1, <2>2 DEF FtInv, Published
    <2>3. CASE s # Receiver
      BY <1>1, <1>2, <2>1, <2>3 DEF FtInv, Published, NoFile, Finish
    <2> QED  BY <2>2, <2>3
  <1>5. ASSUME ~Mixed, s = Receiver PROVE Honest'
    <2>1. Honest /\ Carried(Receiver)' = {} /\ pc'[Receiver] = "settled" /\ out'[Receiver] = o
          /\ pc'[Sender] = pc[Sender] /\ out'[Sender] = out[Sender] /\ out[Receiver].kind = "none"
          /\ Carried(Sender)' \subseteq Carried(Sender) \cup Entries(fs)
      BY <1>1, <1>2, <1>5 DEF FtInv, Settings
    <2>2. FinishSent' <=> target = "file"
      BY <1>1, <2>1 DEF FinishSent, Carried
    <2>3. target = "file" <=> pc[Receiver] = "ack"
      BY <2>1 DEF Honest, StoredKinds
    <2>4. target = "file" <=> o.kind \in StoredKinds
      BY <1>5, <2>3 DEF EndsSoundly
    <2>5. Snapshot' = Snapshot
      BY DEF Snapshot
    <2>6. target = "file" => FinishSent
      BY DEF FinishSent
    <2>7. \A f \in Carried(Sender)' : /\ f.tag = "Committed" => target = "file"
                                      /\ f.tag = "Error" => target # "file"
      BY <1>5, <2>1, <2>3 DEF Honest, EndsSoundly
    <2>8. \A f \in Carried(Receiver)' : FALSE
      BY <2>1
    <2> QED  BY <1>1, <2>1, <2>2, <2>3, <2>4, <2>5, <2>6, <2>7, <2>8 DEF Honest
  <1>6. ASSUME ~Mixed, s = Sender PROVE Honest'
    <2>1. /\ Honest /\ Carried(Sender)' = {} /\ pc'[Sender] = "settled" /\ out'[Sender] = o
          /\ pc'[Receiver] = pc[Receiver] /\ out'[Receiver] = out[Receiver]
          /\ Carried(Receiver)' \subseteq Carried(Receiver) \cup Entries(fs)
          /\ pc[Receiver] \in Gone => Carried(Receiver)' = {}
      BY <1>1, <1>2, <1>6 DEF FtInv, Settings
    <2>2. Snapshot' = Snapshot
      BY DEF Snapshot
    <2>3. \A f \in Carried(Receiver)' : f.tag = "Finish" => f = Finish(Len(sent), sent)
      BY <1>6, <2>1 DEF Honest, EndsSoundly
    <2>4. ASSUME FinishSent'
          PROVE  sent = Snapshot /\ o.kind \in {"CommitStatusUnknown", "Committed"}
      <3>1. CASE FinishSent
        <4>1. sent = Snapshot /\ pc[Sender] = "awaitCommitted"
          BY <1>6, <2>1, <3>1 DEF Honest, Gone
        <4>2. CASE out[Receiver].kind # "none" /\ target # "file"
          <5>1. pc[Receiver] \in Gone
            BY <1>2, <4>2 DEF FtInv, Settings
          <5>2. \A f \in Carried(Receiver)' : FALSE
            BY <2>1, <5>1
          <5> QED  BY <1>1, <2>1, <2>4, <4>2, <5>1, <5>2 DEF FinishSent, Gone
        <4> QED  BY <1>6, <4>1, <4>2 DEF EndsSoundly
      <3>2. CASE ~FinishSent
        <4>1. PICK f \in Carried(Receiver)' : f.tag = "Finish" /\ f \notin Carried(Receiver)
          BY <1>1, <2>1, <2>4, <3>2 DEF FinishSent
        <4>2. pc[s] = "finish" /\ o.kind = "CommitStatusUnknown"
          BY <1>6, <2>1, <4>1 DEF EndsSoundly
        <4> QED  BY <1>6, <4>2 DEF FtInv, Sourced
      <3> QED  BY <3>1, <3>2
    <2>5. \A f \in Carried(Sender)' : FALSE
      BY <2>1
    <2> QED  BY <1>1, <1>6, <2>1, <2>2, <2>3, <2>4, <2>5 DEF Honest, Finish, EndsSoundly
  <1> QED  BY <1>1, <1>2, <1>3, <1>4, <1>5, <1>6 DEF FtInv

-----------------------------------------------------------------------------
(* What a step means for the delivery *)

\* The variables of FileDelivery, as FileTransfer shows them.
TheFile ==
    IF Mixed THEN "absent"
    ELSE IF target # "file" THEN target
    ELSE IF stored = Snapshot THEN "whole" ELSE "torn"
TheSender == IF Mixed THEN "pending" ELSE SenderVerdict
TheReceiver == IF Mixed THEN "pending" ELSE ReceiverVerdict

DeliveryStep == [Delivery!Next]_<<TheFile, TheSender, TheReceiver>>

\* What the invariant makes of them.
Mapped ==
    /\ Mixed => TheFile = "absent" /\ TheSender = "pending" /\ TheReceiver = "pending"
    /\ ~Mixed => /\ TheFile = (IF target = "file" THEN "whole" ELSE target)
                 /\ TheFile = "whole" <=> target = "file"
                 /\ TheSender = SenderVerdict /\ TheReceiver = ReceiverVerdict

LEMMA MappedFacts == FtInv => Mapped
  <1> SUFFICES ASSUME FtInv PROVE Mapped
    OBVIOUS
  <1>1. ~Mixed /\ target = "file" => stored = Snapshot
    BY DEF FtInv, Honest, FinishSent
  <1>2. target \in {"absent", "other", "file"}
    BY DEF FtInv, Published
  <1> QED  BY <1>1, <1>2 DEF Mapped, TheFile, TheSender, TheReceiver

\* A step that settles no side and leaves the target alone.
LEMMA StutterStep ==
    ASSUME FtInv, FtInv', UNCHANGED <<dir, out, target>>, Mixed' <=> Mixed
    PROVE  DeliveryStep
  <1>1. SenderVerdict' = SenderVerdict /\ ReceiverVerdict' = ReceiverVerdict
    BY SameSides DEF SenderVerdict, ReceiverVerdict
  <1>2. Mapped
    BY MappedFacts
  <1>3. Mapped'
    BY MappedFacts, PTL
  <1>4. UNCHANGED <<TheFile, TheSender, TheReceiver>>
    BY <1>1, <1>2, <1>3 DEF Mapped
  <1> QED  BY <1>4 DEF DeliveryStep

\* A side learns its verdict.
LEMMA VerdictStep ==
    ASSUME FtInv, FtInv', UNCHANGED <<dir, target>>, Mixed' <=> Mixed,
           NEW s \in Sides, out[s].kind = "none", out'[s].kind # "none",
           \A x \in Sides : x # s => out'[x] = out[x]
    PROVE  DeliveryStep
  <1>1. /\ Sender' = Sender /\ Receiver' = Receiver /\ Sender # Receiver
        /\ Sender \in Sides /\ Receiver \in Sides /\ (s = Sender \/ s = Receiver)
    BY SameSides, SideFacts DEF FtInv, Settings
  <1>2. Mapped
    BY MappedFacts
  <1>3. Mapped'
    BY MappedFacts, PTL
  <1>4. CASE Mixed
    BY <1>2, <1>3, <1>4 DEF DeliveryStep, Mapped
  <1>5. CASE ~Mixed /\ s = Receiver
    <2>1. UNCHANGED <<TheFile, TheSender>>
      BY <1>1, <1>2, <1>3, <1>5 DEF SenderVerdict, Mapped
    <2>2. TheReceiver = "pending"
      <3>1. out[Receiver].kind = "none"
        BY <1>5
      <3>2. ReceiverVerdict = "pending"
        BY <3>1 DEF ReceiverVerdict, StoredKinds
      <3> QED  BY <1>2, <1>5, <3>2 DEF Mapped
    <2>3. target = "file" <=> out'[Receiver].kind \in StoredKinds
      <3>1. Honest' /\ Settings'
        BY <1>5 DEF FtInv
      <3>2. pc'[Receiver] # "ack"
        BY <1>1, <1>5, <3>1 DEF Settings, Gone
      <3> QED  BY <1>1, <3>1, <3>2 DEF Honest
    <2>4. TheReceiver' = (IF TheFile = "whole" THEN "stored" ELSE "discarded")
      BY <1>1, <1>2, <1>3, <1>5, <2>3 DEF ReceiverVerdict, Mapped
    <2>5. Delivery!ReceiverEnds
      BY <2>1, <2>2, <2>4 DEF Delivery!ReceiverEnds, TheFile, TheSender, TheReceiver
    <2> QED  BY <2>5 DEF DeliveryStep, Delivery!Next
  <1>6. CASE ~Mixed /\ s = Sender
    <2>1. UNCHANGED <<TheFile, TheReceiver>>
      BY <1>1, <1>2, <1>3, <1>6 DEF ReceiverVerdict, Mapped
    <2>2. TheSender = "pending"
      <3>1. out[Sender].kind = "none"
        BY <1>6
      <3>2. SenderVerdict = "pending"
        BY <3>1 DEF SenderVerdict
      <3> QED  BY <1>2, <1>6, <3>2 DEF Mapped
    <2>3. /\ out'[Sender].kind \in {"Committed", "AuditFailed"} => target = "file"
          /\ target = "file" =>
                out'[Sender].kind \in {"none", "CommitStatusUnknown", "Committed", "AuditFailed"}
      <3>1. Honest'
        BY <1>6 DEF FtInv
      <3> QED  BY <1>1, <3>1 DEF Honest, FinishSent
    <2>4. \/ TheFile = "whole" /\ TheSender' = "delivered"
          \/ TheFile # "whole" /\ TheSender' = "failed"
          \/ TheSender' = "unknown"
      BY <1>1, <1>2, <1>3, <1>6, <2>3 DEF SenderVerdict, Mapped
    <2>5. Delivery!SenderLearns
      BY <2>1, <2>2, <2>4 DEF Delivery!SenderLearns, TheFile, TheSender, TheReceiver
    <2> QED  BY <2>5 DEF DeliveryStep, Delivery!Next
  <1> QED  BY <1>1, <1>4, <1>5, <1>6

-----------------------------------------------------------------------------
(* Handlers that leave *)

LEMMA OutcomeFacts ==
    /\ \A k \in Kinds : Outcome(k) \in Outcomes /\ Outcome(k).kind = k
    /\ \A c \in Codes : Failed(c) \in Outcomes /\ Failed(c).kind = "Failed"
  BY DEF Outcome, Failed, Outcomes

\* What a notification nobody waits for may leave behind.
LEMMA AttemptFacts ==
    ASSUME NEW f \in AllFrames, NEW fs \in Attempt(f)
    PROVE  fs \in Seq(AllFrames) /\ Entries(fs) \subseteq {f, Cut}
  <1> HIDE DEF AllFrames
  <1>1. <<>> \in Seq(AllFrames) /\ Cut \in AllFrames
    BY FrameFacts
  <1>2. /\ Entries(<<>>) = {} /\ <<f>> \in Seq(AllFrames) /\ Entries(<<f>>) = {f}
        /\ <<Cut>> \in Seq(AllFrames) /\ Entries(<<Cut>>) = {Cut}
    BY <1>1, QueueFacts
  <1> QED  BY <1>1, <1>2 DEF Attempt

\* A handler that leaves so also takes a step of FileDelivery.
LEMMA EndsWell ==
    ASSUME FtInv, NEW s \in Sides, pc[s] \notin Gone \cup {"foreign"},
           NEW o \in Outcomes, o.kind # "none", NEW fs \in Seq(AllFrames), Ends(s, o, fs),
           UNCHANGED <<dir, src, opened, sent, declared, finish, target, stored>>,
           EndsSoundly(s, o, fs)
    PROVE  FtInv' /\ DeliveryStep
  <1> HIDE DEF AllFrames, Outcomes
  <1>1. FtInv'
    BY EndStep
  <1>2. /\ Mixed' <=> Mixed
        /\ out'[s] = o /\ \A x \in Sides : x # s => out'[x] = out[x]
    BY SettingsEnd DEF FtInv
  <1>3. out[s].kind = "none"
    BY DEF FtInv, Settings
  <1>4. DeliveryStep
    BY <1>1, <1>2, <1>3, VerdictStep
  <1> QED  BY <1>1, <1>4

\* A handler that gives up with neither the commit behind it nor a Finish to
\* be answered.
LEMMA GivesUp ==
    ASSUME FtInv, NEW s \in Sides, pc[s] \notin {"ack", "awaitCommitted", "foreign"} \cup Gone,
           NEW o \in Outcomes, o.kind \notin StoredKinds \cup {"none"},
           NEW f \in AllFrames, f.tag \notin {"Finish", "Committed"},
           NEW fs \in Attempt(f), Ends(s, o, fs),
           UNCHANGED <<dir, src, opened, sent, declared, finish, target, stored>>
    PROVE  FtInv' /\ DeliveryStep
  <1> HIDE DEF AllFrames, Outcomes
  <1>1. fs \in Seq(AllFrames) /\ \A g \in Entries(fs) : g.tag \notin {"Finish", "Committed"}
    BY AttemptFacts, FrameFacts
  <1>2. EndsSoundly(s, o, fs)
    BY <1>1 DEF EndsSoundly, StoredKinds
  <1> QED  BY <1>1, <1>2, EndsWell

\* The same without a frame, and fail_local.
LEMMA GivesUpQuietly ==
    ASSUME FtInv, NEW s \in Sides, pc[s] \notin {"ack", "awaitCommitted", "foreign"} \cup Gone,
           NEW o \in Outcomes, o.kind \notin StoredKinds \cup {"none"}, Ends(s, o, <<>>),
           UNCHANGED <<dir, src, opened, sent, declared, finish, target, stored>>
    PROVE  FtInv' /\ DeliveryStep
  <1>1. <<>> \in Attempt(Cut)
    BY DEF Attempt
  <1>2. Cut \in AllFrames /\ Cut.tag \notin {"Finish", "Committed"}
    BY FrameFacts
  <1> HIDE DEF AllFrames, Outcomes
  <1> QED  BY <1>1, <1>2, GivesUp

LEMMA FailsLocally ==
    ASSUME FtInv, NEW s \in Sides, pc[s] \notin {"ack", "awaitCommitted", "foreign"} \cup Gone,
           FailLocal(s),
           UNCHANGED <<dir, src, opened, sent, declared, finish, target, stored>>
    PROVE  FtInv' /\ DeliveryStep
  <1>1. PICK fs \in Attempt(Error("File")) : Ends(s, Failed("File"), fs)
    BY DEF FailLocal
  <1>2. Error("File") \in AllFrames /\ Error("File").tag \notin {"Finish", "Committed"}
    BY FrameFacts DEF AllFrames, Codes
  <1>3. Failed("File") \in Outcomes /\ Failed("File").kind \notin StoredKinds \cup {"none"}
    BY OutcomeFacts DEF Codes, StoredKinds
  <1> HIDE DEF AllFrames, Outcomes
  <1> QED  BY <1>1, <1>2, <1>3, GivesUp

\* The frames of this program are frames.
LEMMA OwnFrames ==
    /\ \A c \in Codes : Error(c) \in AllFrames
    /\ \A t \in {"DownloadOpen", "Ready", "Committed", "Cancel", "Cut"} : Bare(t) \in AllFrames
    /\ \A t \in {"UploadOpen", "DownloadOffer"}, n \in Nat : Sized(t, n) \in AllFrames
    /\ \A b \in Nat : Data(b) \in AllFrames
    /\ \A n \in Nat, d \in Seq(Nat) : Finish(n, d) \in AllFrames
  BY DEF AllFrames

\* A handler that leaves before Finish and before the commit.
LEMMA EarlyEnds ==
    ASSUME FtInv, NEW s \in Sides,
           \/ Refuse(s) \/ SourceFails(s) \/ StreamFails(s) \/ PeerCancels(s)
           \/ LocalCancel(s) \/ EncodeFails(s)
    PROVE  FtInv' /\ DeliveryStep
  <1> DEFINE Before == pc[s] \notin {"ack", "awaitCommitted", "foreign"} \cup Gone
             Rest == UNCHANGED <<dir, src, opened, sent, declared, finish, target, stored>>
  <1>1. \A k \in {"NotServed", "Cancelled"} :
           Outcome(k) \in Outcomes /\ Outcome(k).kind \notin StoredKinds \cup {"none"}
    BY OutcomeFacts DEF Kinds, StoredKinds
  <1>2. \A c \in Codes : Failed(c) \in Outcomes /\ Failed(c).kind \notin StoredKinds \cup {"none"}
    BY OutcomeFacts DEF StoredKinds
  <1>3. /\ \A c \in Codes : Error(c) \in AllFrames /\ Error(c).tag \notin {"Finish", "Committed"}
        /\ Bare("Cancel") \in AllFrames /\ Bare("Cancel").tag \notin {"Finish", "Committed"}
    BY FrameFacts, OwnFrames
  <1>4. \A f, fs : fs \in BestEffort(s, f) => fs \in Attempt(f)
    BY DEF BestEffort, Attempt
  <1>5. {"Busy", "InvalidRequest", "Cancelled", "SessionClosing", "File"} \subseteq Codes
    BY DEF Codes
  <1> HIDE DEF AllFrames, Outcomes
  <1>6. CASE Refuse(s)
    <2>1. Before /\ Rest
      BY <1>6 DEF Refuse, Gone, sourceVars
    <2>2. CASE Ends(s, Outcome("NotServed"), <<>>)
      BY <1>1, <2>1, <2>2, GivesUpQuietly
    <2>3. ASSUME NEW fs \in Attempt(Error("Busy")), Ends(s, Outcome("NotServed"), fs)
          PROVE  FtInv' /\ DeliveryStep
      BY <1>1, <1>3, <1>5, <2>1, <2>3, GivesUp
    <2> QED  BY <1>6, <2>2, <2>3 DEF Refuse
  <1>7. CASE SourceFails(s)
    <2>1. Before /\ Rest /\ FailLocal(s)
      BY <1>7 DEF SourceFails, Gone, sourceVars
    <2> QED  BY <2>1, FailsLocally
  <1>8. CASE StreamFails(s)
    <2>1. Before /\ Rest
      BY <1>8 DEF StreamFails, Reading, Gone, sourceVars
    <2>2. PICK code \in Codes : Ends(s, Failed(code), <<>>)
      BY <1>8 DEF StreamFails
    <2> QED  BY <1>2, <2>1, <2>2, GivesUpQuietly
  <1>9. CASE PeerCancels(s)
    <2>1. Before /\ Rest
      BY <1>9 DEF PeerCancels, Reading, Gone, sourceVars
    <2>2. PICK fs \in Attempt(Error("Cancelled")) : Ends(s, Outcome("Cancelled"), fs)
      BY <1>4, <1>9 DEF PeerCancels
    <2> QED  BY <1>1, <1>3, <1>5, <2>1, <2>2, GivesUp
  <1>10. CASE LocalCancel(s)
    <2>1. Before /\ Rest
      BY <1>10 DEF LocalCancel, Reading, Gone, sourceVars
    <2>2. PICK f \in {Bare("Cancel"), Error("SessionClosing")} :
             \E fs \in BestEffort(s, f) : Ends(s, Outcome("Cancelled"), fs)
      BY <1>10 DEF LocalCancel
    <2>3. PICK fs \in Attempt(f) : Ends(s, Outcome("Cancelled"), fs)
      BY <1>4, <2>2
    <2>4. f \in AllFrames /\ f.tag \notin {"Finish", "Committed"}
      BY <1>3, <1>5
    <2> QED  BY <1>1, <2>1, <2>3, <2>4, GivesUp
  <1>11. CASE EncodeFails(s)
    <2>1. Before /\ Rest /\ Ends(s, Failed("InvalidRequest"), <<>>)
      BY <1>11 DEF EncodeFails, Gone, sourceVars
    <2> QED  BY <1>2, <1>5, <2>1, GivesUpQuietly
  <1> QED  BY <1>6, <1>7, <1>8, <1>9, <1>10, <1>11

\* What the sender learns after Finish, and the receiver's acknowledgement.
LEMMA LateEnds ==
    ASSUME FtInv, NEW s \in Sides,
           Acknowledge(s) \/ CommittedArrives(s) \/ CommitUncertain(s)
    PROVE  FtInv' /\ DeliveryStep
  <1> DEFINE Rest == UNCHANGED <<dir, src, opened, sent, declared, finish, target, stored>>
  <1>1. \A k \in {"Committed", "CommitStatusUnknown"} :
           Outcome(k) \in Outcomes /\ Outcome(k).kind = k
    BY OutcomeFacts DEF Kinds
  <1>2. /\ <<>> \in Seq(AllFrames) /\ Entries(<<>>) = {}
        /\ <<Bare("Committed")>> \in Seq(AllFrames) /\ Entries(<<Bare("Committed")>>) = {Bare("Committed")}
    <2>1. <<>> \in Seq(AllFrames) /\ Bare("Committed") \in AllFrames
      BY OwnFrames
    <2> HIDE DEF AllFrames
    <2> QED  BY <2>1, QueueFacts
  <1>3. /\ Sender # Receiver /\ (s = Sender \/ s = Receiver)
        /\ pc[s] = "ack" => s = Receiver
        /\ pc[s] = "awaitCommitted" => s = Sender
    BY SideFacts DEF FtInv, Settings, SenderStages, ReceiverStages
  <1> HIDE DEF AllFrames, Outcomes
  <1>4. CASE Acknowledge(s)
    <2>1. /\ Rest /\ pc[s] = "ack" /\ s = Receiver
          /\ Ends(s, Outcome("Committed"), <<Bare("Committed")>>)
      BY <1>3, <1>4 DEF Acknowledge, sourceVars
    <2>2. EndsSoundly(s, Outcome("Committed"), <<Bare("Committed")>>)
      BY <1>1, <1>2, <1>3, <2>1, FrameFacts DEF EndsSoundly, StoredKinds
    <2> QED  BY <1>1, <1>2, <2>1, <2>2, EndsWell DEF Gone
  <1>5. CASE CommittedArrives(s)
    <2>1. /\ Rest /\ pc[s] = "awaitCommitted" /\ s = Sender /\ Reads(s, {"Committed"})
          /\ Ends(s, Outcome("Committed"), <<>>)
      BY <1>3, <1>5 DEF CommittedArrives, sourceVars
    <2>2. First(s) \in Carried(s) /\ First(s).tag = "Committed"
      <3>1. chan[s] \in Seq(AllFrames) /\ chan[s] # <<>>
        BY <2>1 DEF FtInv, Settings, Reads
      <3> QED  BY <2>1, <3>1, QueueFacts DEF Reads, First, Carried
    <2>3. ~Mixed => target = "file"
      BY <2>1, <2>2 DEF FtInv, Honest
    <2>4. EndsSoundly(s, Outcome("Committed"), <<>>)
      BY <1>1, <1>2, <1>3, <2>1, <2>3 DEF EndsSoundly
    <2> QED  BY <1>1, <1>2, <2>1, <2>4, EndsWell DEF Gone
  <1>6. CASE CommitUncertain(s)
    <2>1. /\ Rest /\ pc[s] = "awaitCommitted" /\ s = Sender
          /\ Ends(s, Outcome("CommitStatusUnknown"), <<>>)
      BY <1>3, <1>6 DEF CommitUncertain, sourceVars
    <2>2. EndsSoundly(s, Outcome("CommitStatusUnknown"), <<>>)
      BY <1>1, <1>2, <1>3, <2>1 DEF EndsSoundly
    <2> QED  BY <1>1, <1>2, <2>1, <2>2, EndsWell DEF Gone
  <1> QED  BY <1>4, <1>5, <1>6

\* The frame of each writing stage.
LEMMA FrameOf ==
    ASSUME FtInv, NEW s \in Sides
    PROVE  /\ pc[s] \in Writing => Frame(s) \in AllFrames
           /\ pc[s] = "start" => Frame(s).tag = OpenTag
           /\ pc[s] = "offer" => Frame(s).tag = "DownloadOffer"
           /\ pc[s] = "ready" => Frame(s).tag = "Ready"
           /\ pc[s] = "stream" => Frame(s).tag = "Data"
           /\ pc[s] = "finish" => Frame(s) = Finish(Len(sent), sent)
           /\ pc[s] = "ack" => Frame(s) = Bare("Committed")
           /\ OpenTag \in {"UploadOpen", "DownloadOpen"}
  <1>1. opened.size \in Nat /\ src.version \in Nat /\ sent \in Seq(Nat) /\ Len(sent) \in Nat
    BY DEF FtInv, Sourced
  <1>2. /\ pc[s] = "start" => Frame(s) = OpenFrame
        /\ pc[s] = "offer" => Frame(s) = Sized("DownloadOffer", opened.size)
        /\ pc[s] = "ready" => Frame(s) = Bare("Ready")
        /\ pc[s] = "stream" => Frame(s) = Data(src.version)
        /\ pc[s] = "finish" => Frame(s) = Finish(Len(sent), sent)
        /\ pc[s] = "ack" => Frame(s) = Bare("Committed")
    BY DEF Frame
  <1>3. OpenFrame \in AllFrames /\ OpenFrame.tag = OpenTag /\ OpenTag \in {"UploadOpen", "DownloadOpen"}
    BY <1>1, OwnFrames, FrameFacts DEF OpenFrame, OpenTag
  <1>4. /\ Sized("DownloadOffer", opened.size) \in AllFrames /\ Bare("Ready") \in AllFrames
        /\ Data(src.version) \in AllFrames /\ Finish(Len(sent), sent) \in AllFrames
        /\ Bare("Committed") \in AllFrames
    BY <1>1, OwnFrames
  <1>5. /\ Sized("DownloadOffer", opened.size).tag = "DownloadOffer" /\ Bare("Ready").tag = "Ready"
        /\ Data(src.version).tag = "Data"
    BY FrameFacts
  <1> HIDE DEF AllFrames
  <1> QED  BY <1>2, <1>3, <1>4, <1>5 DEF Writing

\* An Error ends the transfer of its reader, also of one that awaits the
\* commit: then the receiver that sent it has published nothing.  No frame is
\* a violation there.
LEMMA PeerEnds ==
    ASSUME FtInv, NEW s \in Sides, PeerFails(s) \/ PeerViolates(s)
    PROVE  FtInv' /\ DeliveryStep
  <1> DEFINE Rest == UNCHANGED <<dir, src, opened, sent, declared, finish, target, stored>>
  <1>1. \A c \in Codes : Failed(c) \in Outcomes /\ Failed(c).kind = "Failed"
    BY OutcomeFacts
  <1>2. chan[s] \in Seq(AllFrames) /\ <<>> \in Seq(AllFrames) /\ \A f \in Entries(<<>>) : FALSE
    BY DEF FtInv, Settings, Entries
  <1>3. chan[s] # <<>>
    BY DEF PeerFails, PeerViolates, Reads
  <1> HIDE DEF AllFrames, Outcomes
  <1>4. First(s) \in Carried(s) /\ First(s) \in AllFrames
    BY <1>2, <1>3, QueueFacts DEF First, Carried
  <1>5. /\ Sender # Receiver /\ (s = Sender \/ s = Receiver) /\ dir \in Directions
        /\ pc[s] = "awaitCommitted" => s = Sender
        /\ s = Sender => s = IF dir = "upload" THEN "controller" ELSE "host"
    BY SideFacts DEF FtInv, Settings, SenderStages, ReceiverStages, Sender
  <1>6. CASE PeerFails(s)
    <2>1. /\ Rest /\ pc[s] \in Reading \cup {"awaitCommitted"} /\ First(s).tag = "Error"
          /\ Ends(s, Failed(First(s).code), <<>>)
      BY <1>6 DEF PeerFails, Reads, sourceVars
    <2>2. First(s).code \in Codes
      BY <1>4, <2>1, FrameFacts
    <2>3. ~Mixed /\ s = Sender => out[Receiver].kind # "none" /\ target # "file"
      BY <1>4, <2>1 DEF FtInv, Honest
    <2>4. EndsSoundly(s, Failed(First(s).code), <<>>)
      BY <1>1, <1>2, <1>5, <2>1, <2>2, <2>3 DEF EndsSoundly, StoredKinds, Reading
    <2> QED  BY <1>1, <1>2, <2>1, <2>2, <2>4, EndsWell DEF Gone, Reading
  <1>7. CASE PeerViolates(s)
    <2>1. /\ Rest /\ pc[s] \in Reading \cup {"awaitCommitted"}
          /\ First(s).tag \in Tags \ (Handled(s) \cup Uncertain(s))
          /\ Ends(s, Failed("InvalidRequest"), <<>>)
      BY <1>7 DEF PeerViolates, Reads, sourceVars
    <2>2. ASSUME pc[s] = "awaitCommitted" PROVE FALSE
      <3>1. wire[s] = "AwaitingCommitted" /\ s = Sender
        BY <1>5, <2>2 DEF FtInv, Settings
      <3>2. \A t \in {"Committed", "Error"} : MayReceive(dir, s, wire[s], t)
        BY <1>5, <3>1, TableFacts DEF Directions
      <3>3. "Committed" \in Expected(s)
        BY <2>2 DEF Expected
      <3>4. {"Committed", "Error"} \subseteq Handled(s)
        BY <3>2, <3>3 DEF Handled
      <3>5. Tags \ {"Committed", "Error"} \subseteq Uncertain(s)
        BY <2>2 DEF Uncertain
      <3> QED  BY <2>1, <3>4, <3>5
    <2>3. "InvalidRequest" \in Codes
      BY DEF Codes
    <2>4. Failed("InvalidRequest").kind \notin StoredKinds \cup {"none"}
      BY <1>1, <2>3 DEF StoredKinds
    <2> QED  BY <1>1, <2>1, <2>2, <2>3, <2>4, GivesUpQuietly DEF Gone, Reading
  <1> QED  BY <1>6, <1>7

\* A write that fails: of Finish, once begun, the status is unknown; of
\* Committed, the file is there.
LEMMA WriteEnds ==
    ASSUME FtInv, NEW s \in Sides, WriteFails(s)
    PROVE  FtInv' /\ DeliveryStep
  <1>1. /\ UNCHANGED <<dir, src, opened, sent, declared, finish, target, stored>>
        /\ pc[s] \in Writing
    BY DEF WriteFails, sourceVars
  <1>2. PICK started \in BOOLEAN, why \in {"cancelled", "lost"} :
           \E fs \in IF started THEN Attempt(Frame(s)) ELSE {<<>>} :
               Ends(s, WriteFailure(s, why, started), fs)
    BY DEF WriteFails
  <1> DEFINE o == WriteFailure(s, why, started)
  <1>3. PICK fs : /\ fs \in IF started THEN Attempt(Frame(s)) ELSE {<<>>}
                  /\ Ends(s, o, fs)
    BY <1>2
  <1>4. /\ Sender # Receiver /\ (s = Sender \/ s = Receiver)
        /\ pc[s] = "ack" => s = Receiver
        /\ pc[s] = "finish" => s = Sender
    BY SideFacts DEF FtInv, Settings, SenderStages, ReceiverStages
  <1>5. /\ o \in Outcomes /\ o.kind # "none"
        /\ pc[s] = "ack" => o.kind = "CommittedUnconfirmed"
        /\ pc[s] = "finish" /\ started => o.kind = "CommitStatusUnknown"
        /\ pc[s] # "ack" /\ (pc[s] # "finish" \/ ~started) => o.kind \in {"Cancelled", "Failed"}
    BY OutcomeFacts DEF WriteFailure, Kinds, Codes
  <1>6. fs \in Attempt(Frame(s)) /\ Frame(s) \in AllFrames
    BY <1>1, <1>3, FrameOf DEF Attempt
  <1>7. pc[s] \notin Gone \cup {"foreign"}
    BY <1>1 DEF Writing, Gone
  <1> HIDE DEF AllFrames, Outcomes, o
  <1>8. fs \in Seq(AllFrames) /\ Entries(fs) \subseteq {Frame(s), Cut}
    BY <1>6, AttemptFacts
  <1>9. CASE pc[s] = "ack"
    <2>1. \A f \in Entries(fs) : f.tag \in {"Committed", "Cut"}
      BY <1>8, <1>9, FrameOf, FrameFacts
    <2>2. EndsSoundly(s, o, fs)
      BY <1>4, <1>5, <1>9, <2>1 DEF EndsSoundly, StoredKinds
    <2> QED  BY <1>1, <1>3, <1>5, <1>7, <1>8, <2>2, EndsWell
  <1>10. CASE pc[s] = "finish" /\ started
    <2>1. \A f \in Entries(fs) : f = Finish(Len(sent), sent) \/ f.tag = "Cut"
      BY <1>8, <1>10, FrameOf, FrameFacts
    <2>2. EndsSoundly(s, o, fs)
      BY <1>4, <1>5, <1>10, <2>1 DEF EndsSoundly
    <2> QED  BY <1>1, <1>3, <1>5, <1>7, <1>8, <2>2, EndsWell
  <1>11. CASE pc[s] = "finish" /\ ~started
    <2>1. fs = <<>> /\ o.kind \notin StoredKinds \cup {"none"}
      BY <1>3, <1>5, <1>11 DEF StoredKinds
    <2> QED  BY <1>1, <1>3, <1>5, <1>7, <1>11, <2>1, GivesUpQuietly DEF Gone
  <1>12. CASE pc[s] \notin {"ack", "finish"}
    <2>1. Frame(s).tag \notin {"Finish", "Committed"}
      BY <1>1, <1>12, FrameOf DEF Writing
    <2>2. o.kind \notin StoredKinds \cup {"none"}
      BY <1>5, <1>12 DEF StoredKinds
    <2>3. pc[s] # "awaitCommitted"
      BY <1>1 DEF Writing
    <2> QED  BY <1>1, <1>3, <1>5, <1>6, <1>7, <1>12, <2>1, <2>2, <2>3, GivesUp
  <1> QED  BY <1>9, <1>10, <1>11, <1>12

-----------------------------------------------------------------------------
(* Handlers that go on *)

\* A step of a sender that has not sent Finish, or sends it now.
LEMMA SenderMoves ==
    ASSUME FtInv, NEW s \in Sides, s = Sender, UNCHANGED <<dir, out>>,
           pc[s] \notin {"awaitCommitted", "foreign"} \cup Gone,
           Settings', Mixed' <=> Mixed,
           \A x \in Sides : x # s => pc'[x] = pc[x],
           Sourced', UNCHANGED <<declared, temp, finish, target, stored>>,
           \A f \in Carried(Receiver)' : f.tag = "Finish" =>
              \/ f \in Carried(Receiver)
              \/ /\ pc'[s] = "awaitCommitted" /\ f = Finish(Len(sent), sent) /\ sent = Snapshot
                 /\ UNCHANGED <<opened, sent>>,
           Carried(Sender)' \subseteq Carried(Sender)
    PROVE  FtInv' /\ DeliveryStep
  <1>1. /\ Sender' = Sender /\ Receiver' = Receiver
        /\ Receiver \in Sides /\ Sender # Receiver /\ pc'[Receiver] = pc[Receiver]
    BY SameSides, SideFacts DEF FtInv, Settings
  <1>2. Published'
    BY <1>1 DEF FtInv, Published, PublishedIsWhole, NoFile, Finish
  <1>3. ASSUME ~Mixed PROVE Honest'
    <2>1. Honest /\ ~FinishSent
      BY <1>3 DEF FtInv, Honest, Gone
    <2>2. /\ \A f \in Carried(Receiver) : f.tag # "Finish"
          /\ pc[Receiver] \notin {"seal", "commit", "ack"} /\ target # "file"
      BY <2>1 DEF FinishSent
    <2>3. \A f \in Carried(Receiver)' : f.tag = "Finish" =>
             /\ f = Finish(Len(sent), sent) /\ pc'[s] = "awaitCommitted"
             /\ sent = Snapshot /\ UNCHANGED <<opened, sent>>
      BY <2>2
    <2>4. \A f \in Carried(Receiver)' : f.tag = "Finish" => f = Finish(Len(sent'), sent')
      BY <2>3
    <2>5. ASSUME FinishSent' PROVE sent' = Snapshot' /\ pc'[Sender] = "awaitCommitted"
      <3>1. PICK f \in Carried(Receiver)' : f.tag = "Finish"
        BY <1>1, <2>2, <2>5 DEF FinishSent
      <3>2. sent = Snapshot /\ UNCHANGED <<opened, sent>>
        BY <2>3, <3>1
      <3>3. Snapshot' = Snapshot
        BY <3>2 DEF Snapshot
      <3> QED  BY <2>3, <3>1, <3>2, <3>3
    <2>6. out[Sender].kind = "none"
      BY DEF FtInv, Settings
    <2>7. \A f \in Carried(Sender)' : /\ f.tag = "Committed" => target = "file"
                                      /\ f.tag = "Error" => out[Receiver].kind # "none" /\ target # "file"
      BY <2>1 DEF Honest
    <2>8. target = "file" <=> pc[Receiver] = "ack" \/ out[Receiver].kind \in StoredKinds
      BY <2>1 DEF Honest
    <2> QED  BY <1>1, <2>2, <2>4, <2>5, <2>6, <2>7, <2>8 DEF Honest, Finish
  <1>4. FtInv'
    BY <1>2, <1>3 DEF FtInv
  <1>5. DeliveryStep
    BY <1>4, StutterStep
  <1> QED  BY <1>4, <1>5

\* A step of a receiver before the commit.
LEMMA ReceiverMoves ==
    ASSUME FtInv, NEW s \in Sides, s = Receiver, UNCHANGED <<dir, out>>,
           pc[s] \notin {"ack", "foreign"} \cup Gone,
           Settings', Mixed' <=> Mixed,
           \A x \in Sides : x # s => pc'[x] = pc[x],
           UNCHANGED <<src, opened, sent, target, stored>>,
           pc'[s] \notin {"ack"} \cup Gone,
           pc'[s] = "seal" => /\ finish' = Finish(finish'.size, finish'.digest)
                              /\ finish' \in Carried(Receiver),
           pc'[s] = "commit" => /\ pc[s] = "seal" /\ UNCHANGED <<declared, temp, finish>>
                                /\ Verified,
           Carried(Receiver)' \subseteq Carried(Receiver),
           \A f \in Carried(Sender)' : f.tag \in {"Committed", "Error"} => f \in Carried(Sender)
    PROVE  FtInv' /\ DeliveryStep
  <1>1. /\ Sender' = Sender /\ Receiver' = Receiver
        /\ Sender \in Sides /\ Sender # Receiver /\ pc'[Sender] = pc[Sender]
    BY SameSides, SideFacts DEF FtInv, Settings
  <1>2. Snapshot' = Snapshot
    BY DEF Snapshot
  <1>3. Sourced'
    BY <1>1, <1>2 DEF FtInv, Sourced
  <1>4. Published'
    <2>1. stored = NoFile
      BY DEF FtInv, Published, Gone
    <2>2. NoFile' = NoFile
      BY DEF NoFile
    <2>3. PublishedIsWhole'
      BY <2>1, <2>2 DEF PublishedIsWhole
    <2>4. pc'[Receiver] = "commit" => Len(temp') = declared' /\ finish' = Finish(declared', temp')
      BY DEF FtInv, Published, Verified
    <2>5. target' \in {"absent", "other", "file"}
      BY DEF FtInv, Published
    <2> QED  BY <1>1, <2>1, <2>2, <2>3, <2>4, <2>5 DEF Published, Finish
  <1>5. ASSUME ~Mixed PROVE Honest'
    <2>1. Honest
      BY <1>5 DEF FtInv
    <2>2. finish' \in Carried(Receiver) /\ finish' = Finish(finish'.size, finish'.digest) =>
             finish'.tag = "Finish"
      BY FrameFacts
    <2>3. FinishSent' => FinishSent
      BY <1>1, <2>2 DEF FinishSent
    <2>4. pc'[Receiver] \in {"seal", "commit"} => finish' = Finish(Len(sent), sent)
      BY <2>1, <2>2 DEF Honest
    <2>5. target # "file"
      BY <2>1 DEF Honest, FtInv, Settings, StoredKinds
    <2>6. \A f \in Carried(Receiver)' : f.tag = "Finish" => f = Finish(Len(sent), sent)
      BY <2>1 DEF Honest
    <2>7. \A f \in Carried(Sender)' : f.tag \in {"Committed", "Error"} =>
             f.tag = "Error" /\ out[Receiver].kind # "none"
      BY <2>1, <2>5 DEF Honest
    <2>8. out[Receiver].kind \notin StoredKinds /\ out[Sender].kind \notin {"Committed", "AuditFailed"}
      BY <2>1, <2>5 DEF Honest
    <2>9. FinishSent' =>
             /\ sent = Snapshot /\ pc[Sender] \in {"awaitCommitted", "settled", "end"}
             /\ out[Sender].kind \in {"none", "CommitStatusUnknown", "Committed", "AuditFailed"}
      BY <2>1, <2>3 DEF Honest
    <2> QED  BY <1>1, <1>2, <2>4, <2>5, <2>6, <2>7, <2>8, <2>9 DEF Honest, Finish
  <1>6. FtInv'
    BY <1>3, <1>4, <1>5 DEF FtInv
  <1>7. DeliveryStep
    BY <1>6, StutterStep
  <1> QED  BY <1>6, <1>7

\* What a write and a read do to the stream.
LEMMA WrittenFacts ==
    ASSUME FtInv, NEW s \in Sides, NEW next, pc[s] \in Writing, Written(s, next),
           UNCHANGED <<dir, out>>,
           next \notin Gone \cup {"foreign", "awaitOpen", "start"},
           s = Sender => next \in SenderStages, s = Receiver => next \in ReceiverStages,
           next = "awaitCommitted" => pc[s] = "finish"
    PROVE  /\ Settings' /\ (Mixed' <=> Mixed)
           /\ pc'[s] = next /\ \A x \in Sides : x # s => pc'[x] = pc[x]
           /\ Carried(s)' = Carried(s)
           /\ \A x \in Sides : x # s => Carried(x)' \subseteq Carried(x) \cup {Frame(s)}
  <1>1. Frame(s) \in AllFrames /\ (pc[s] = "finish" => Frame(s).tag = "Finish")
    BY FrameOf, FrameFacts
  <1>2. pc[s] \notin Gone \cup {"foreign"}
    BY DEF Writing, Gone
  <1>3. pc' = [pc EXCEPT ![s] = next]
    BY DEF Written
  <1>4. wire \in [Sides -> WireStates] /\ chan \in [Sides -> Seq(AllFrames)]
    BY DEF FtInv, Settings
  <1>5. PICK w : /\ w \in WireStates /\ wire' = [wire EXCEPT ![s] = w]
                 /\ pc[s] = "finish" => w = "AwaitingCommitted"
    BY <1>1, TableFacts DEF Written
  <1>6. wire' \in [Sides -> WireStates] /\ wire'[s] = w /\ \A x \in Sides : x # s => wire'[x] = wire[x]
    BY <1>4, <1>5
  <1> HIDE DEF AllFrames
  <1>7. Peer(s) \in Sides /\ Peer(s) # s /\ \A x \in Sides : x # s => x = Peer(s)
    BY DEF Peer, Sides
  <1>8. PICK c : c = Delivered(Peer(s), <<Frame(s)>>)
    OBVIOUS
  <1>9. /\ c \in Seq(AllFrames) /\ Entries(c) \subseteq Entries(chan[Peer(s)]) \cup {Frame(s)}
        /\ pc[Peer(s)] \in Gone \cup {"foreign"} => c = chan[Peer(s)]
    <2>1. <<Frame(s)>> \in Seq(AllFrames) /\ Entries(<<Frame(s)>>) = {Frame(s)}
      BY <1>1, <1>4, <1>7, QueueFacts
    <2>2. /\ chan[Peer(s)] \o <<Frame(s)>> \in Seq(AllFrames)
          /\ Entries(chan[Peer(s)] \o <<Frame(s)>>) = Entries(chan[Peer(s)]) \cup {Frame(s)}
      <3>1. PICK q, r : q = chan[Peer(s)] /\ r = <<Frame(s)>>
        OBVIOUS
      <3>2. q \in Seq(AllFrames) /\ r \in Seq(AllFrames)
        BY <1>4, <1>7, <2>1, <3>1
      <3>3. q \o r \in Seq(AllFrames) /\ Entries(q \o r) = Entries(q) \cup Entries(r)
        BY <3>2, QueueFacts
      <3> QED  BY <2>1, <3>1, <3>3
    <2> QED  BY <1>4, <1>7, <1>8, <2>2 DEF Delivered, Listening, Gone
  <1>10. chan' = [chan EXCEPT ![Peer(s)] = c]
    BY <1>8 DEF Written
  <1>11. /\ chan' \in [Sides -> Seq(AllFrames)] /\ chan'[s] = chan[s] /\ chan'[Peer(s)] = c
         /\ \A x \in Sides : pc[x] \in Gone \cup {"foreign"} => chan'[x] = chan[x]
    BY <1>2, <1>4, <1>7, <1>9, <1>10
  <1>12. /\ Settings' /\ (Mixed' <=> Mixed)
         /\ pc'[s] = next /\ \A x \in Sides : x # s => pc'[x] = pc[x]
    <2>1. Settings /\ (next = "awaitCommitted" => wire'[s] = "AwaitingCommitted")
      BY <1>5, <1>6 DEF FtInv
    <2> QED  BY <1>2, <1>3, <1>6, <1>11, <2>1, SettingsMove
  <1>13. Carried(s)' = Carried(s) /\ Carried(Peer(s))' = Entries(c)
    BY <1>11 DEF Carried, Entries
  <1> QED  BY <1>7, <1>9, <1>12, <1>13 DEF Carried

LEMMA ReceivedFacts ==
    ASSUME FtInv, NEW s \in Sides, NEW next, Received(s, next), chan[s] # <<>>,
           UNCHANGED <<dir, out>>, pc[s] \notin Gone \cup {"foreign"},
           next \notin Gone \cup {"foreign", "awaitOpen", "start", "awaitCommitted"},
           s = Sender => next \in SenderStages, s = Receiver => next \in ReceiverStages
    PROVE  /\ Settings' /\ (Mixed' <=> Mixed)
           /\ pc'[s] = next /\ \A x \in Sides : x # s => pc'[x] = pc[x]
           /\ \A x \in Sides : Carried(x)' \subseteq Carried(x)
           /\ First(s) \in Carried(s) /\ First(s) \in AllFrames
  <1>1. pc' = [pc EXCEPT ![s] = next]
    BY DEF Received
  <1>2. wire \in [Sides -> WireStates] /\ chan \in [Sides -> Seq(AllFrames)]
    BY DEF FtInv, Settings
  <1>3. PICK w : w \in WireStates /\ wire' = [wire EXCEPT ![s] = w]
    BY TableFacts DEF Received
  <1>4. wire' \in [Sides -> WireStates] /\ \A x \in Sides : x # s => wire'[x] = wire[x]
    BY <1>2, <1>3
  <1> HIDE DEF AllFrames
  <1>5. /\ Tail(chan[s]) \in Seq(AllFrames) /\ Entries(Tail(chan[s])) \subseteq Entries(chan[s])
        /\ Head(chan[s]) \in Entries(chan[s]) /\ Entries(chan[s]) \subseteq AllFrames
    BY <1>2, QueueFacts
  <1>6. PICK c : c = Tail(chan[s])
    OBVIOUS
  <1>7. chan' = [chan EXCEPT ![s] = c]
    BY <1>6 DEF Received
  <1>8. /\ chan' \in [Sides -> Seq(AllFrames)] /\ chan'[s] = c
        /\ \A x \in Sides : x # s => chan'[x] = chan[x]
    BY <1>2, <1>5, <1>6, <1>7
  <1>9. /\ Settings' /\ (Mixed' <=> Mixed)
        /\ pc'[s] = next /\ \A x \in Sides : x # s => pc'[x] = pc[x]
    <2>1. Settings /\ \A x \in Sides : pc[x] \in Gone \cup {"foreign"} => chan'[x] = chan[x]
      BY <1>8 DEF FtInv
    <2> QED  BY <1>1, <1>4, <1>8, <2>1, SettingsMove, ZenonT(30)
  <1>10. Carried(s)' = Entries(c) /\ \A x \in Sides : x # s => Carried(x)' = Carried(x)
    BY <1>8 DEF Carried, Entries
  <1> QED  BY <1>5, <1>6, <1>9, <1>10 DEF Carried, First

\* Who is at which stage.
LEMMA RoleFacts ==
    ASSUME FtInv, NEW s \in Sides
    PROVE  /\ Sender \in Sides /\ Receiver \in Sides /\ Sender # Receiver
           /\ (s = Sender \/ s = Receiver) /\ \A x \in Sides : x # s => x = Peer(s)
           /\ pc[s] \in {"openSource", "offer", "awaitReady", "stream", "finish", "awaitCommitted"} =>
                 s = Sender
           /\ pc[s] \in {"awaitOffer", "prepare", "ready", "receive", "seal", "commit", "ack"} =>
                 s = Receiver
           /\ pc[s] = "start" => s = "controller" /\ (s = Sender <=> dir = "upload")
           /\ pc[s] = "awaitOpen" => s = "host" /\ (s = Sender <=> dir # "upload")
  <1>1. dir \in Directions /\ pc[Sender] \in SenderStages /\ pc[Receiver] \in ReceiverStages
        /\ pc["controller"] # "awaitOpen" /\ pc["host"] # "start"
    BY DEF FtInv, Settings
  <1>2. /\ Sender \in Sides /\ Receiver \in Sides /\ Sender # Receiver
        /\ \A x \in Sides : x = Sender \/ x = Receiver
        /\ Sender = "controller" <=> dir = "upload"
    BY <1>1, SideFacts
  <1>3. s \in {"controller", "host"} /\ \A x \in Sides : x # s => x = Peer(s)
    BY DEF Sides, Peer
  <1>4. s = Sender => pc[s] \notin {"awaitOffer", "prepare", "ready", "receive", "seal", "commit", "ack"}
    BY <1>1 DEF SenderStages
  <1>5. s = Receiver =>
           pc[s] \notin {"openSource", "offer", "awaitReady", "stream", "finish", "awaitCommitted"}
    BY <1>1 DEF ReceiverStages
  <1>6. /\ pc[s] = "start" => s = "controller"
        /\ pc[s] = "awaitOpen" => s = "host"
    BY <1>1, <1>3
  <1>7. s = "host" => (s = Sender <=> dir # "upload")
    BY <1>1, <1>2 DEF Sender
  <1> QED  BY <1>2, <1>3, <1>4, <1>5, <1>6, <1>7

\* A stage that writes a frame and goes on.
LEMMA WritingSteps ==
    ASSUME FtInv, NEW s \in Sides,
           SendOpen(s) \/ SendOffer(s) \/ SendReady(s) \/ SendBlock(s) \/ SendFinish(s)
    PROVE  FtInv' /\ DeliveryStep
  <1>1. PICK next :
           /\ Written(s, next) /\ UNCHANGED <<dir, out, src, opened, declared, temp, finish, target, stored>>
           /\ \/ /\ pc[s] = "start" /\ UNCHANGED sent
                 /\ next = IF dir = "upload" THEN "audit" ELSE "awaitOffer"
              \/ pc[s] = "offer" /\ next = "awaitReady" /\ UNCHANGED sent
              \/ pc[s] = "ready" /\ next = "receive" /\ UNCHANGED sent
              \/ /\ pc[s] = "stream" /\ next = "stream" /\ sent' = Append(sent, src.version)
                 /\ Len(sent) < opened.size
              \/ pc[s] = "finish" /\ next = "awaitCommitted" /\ UNCHANGED sent
    BY DEF SendOpen, SendOffer, SendReady, SendBlock, SendFinish, sourceVars, targetVars
  <1>2. /\ Sender \in Sides /\ Receiver \in Sides /\ Sender # Receiver /\ (s = Sender \/ s = Receiver)
        /\ pc[s] \in {"offer", "stream", "finish"} => s = Sender
        /\ pc[s] = "ready" => s = Receiver
        /\ pc[s] = "start" => (s = Sender <=> dir = "upload")
    BY RoleFacts
  <1>3. /\ pc[s] \in Writing /\ next \notin Gone \cup {"foreign", "awaitOpen", "start"}
        /\ s = Sender => next \in SenderStages
        /\ s = Receiver => next \in ReceiverStages
        /\ next = "awaitCommitted" => pc[s] = "finish"
    BY <1>1, <1>2 DEF Writing, Gone, SenderStages, ReceiverStages
  <1>4. /\ Settings' /\ (Mixed' <=> Mixed)
        /\ pc'[s] = next /\ \A x \in Sides : x # s => pc'[x] = pc[x]
        /\ Sender' = Sender /\ Receiver' = Receiver
        /\ Carried(s)' = Carried(s)
        /\ \A x \in Sides : x # s => Carried(x)' \subseteq Carried(x) \cup {Frame(s)}
    BY <1>1, <1>3, WrittenFacts, SameSides
  <1>5. Frame(s).tag \in {"UploadOpen", "DownloadOpen", "DownloadOffer", "Ready", "Data", "Finish"}
    BY <1>1, FrameOf, FrameFacts
  <1>6. CASE s = Receiver
    <2>1. pc[s] \in {"start", "ready"} /\ next \in {"awaitOffer", "receive"} /\ UNCHANGED sent
      BY <1>1, <1>2, <1>6
    <2>2. \A f \in Carried(Sender)' : f.tag \in {"Committed", "Error"} => f \in Carried(Sender)
      BY <1>2, <1>4, <1>5, <1>6
    <2> QED  BY <1>1, <1>4, <1>6, <2>1, <2>2, ReceiverMoves DEF Gone
  <1>7. CASE s = Sender
    <2>1. Snapshot' = Snapshot
      BY <1>1 DEF Snapshot
    <2>2. Sourced'
      <3>1. Sender' = Sender
        BY <1>1, SameSides
      <3>2. CASE UNCHANGED sent
        BY <1>1, <1>4, <1>7, <2>1, <3>1, <3>2 DEF FtInv, Sourced
      <3>3. CASE pc[s] = "stream" /\ next = "stream" /\ sent' = Append(sent, src.version)
        <4>1. /\ src.version \in Nat /\ opened.version <= src.version /\ sent \in Seq(Nat)
              /\ \A i \in DOMAIN sent : opened.version <= sent[i] /\ sent[i] <= src.version
          BY DEF FtInv, Sourced
        <4>2. /\ sent' \in Seq(Nat)
              /\ \A i \in DOMAIN sent' : (i \in DOMAIN sent /\ sent'[i] = sent[i]) \/ sent'[i] = src.version
          BY <3>3, <4>1
        <4>3. \A i \in DOMAIN sent' : opened.version <= sent'[i] /\ sent'[i] <= src.version
          BY <4>1, <4>2
        <4> QED  BY <1>1, <1>4, <1>7, <3>1, <3>3, <4>2, <4>3 DEF FtInv, Sourced
      <3> QED  BY <1>1, <3>2, <3>3
    <2>3. \A f \in Carried(Receiver)' : f.tag = "Finish" =>
             \/ f \in Carried(Receiver)
             \/ /\ pc'[s] = "awaitCommitted" /\ f = Finish(Len(sent), sent) /\ sent = Snapshot
                /\ UNCHANGED <<opened, sent>>
      <3>1. SUFFICES ASSUME NEW f \in Carried(Receiver)', f.tag = "Finish", f \notin Carried(Receiver)
                     PROVE  /\ pc'[s] = "awaitCommitted" /\ f = Finish(Len(sent), sent) /\ sent = Snapshot
                            /\ UNCHANGED <<opened, sent>>
        OBVIOUS
      <3>2. f = Frame(s)
        BY <1>2, <1>4, <1>7, <3>1
      <3>3. pc[s] = "finish"
        BY <1>1, <3>1, <3>2, FrameOf, FrameFacts
      <3>4. sent = Snapshot /\ Frame(s) = Finish(Len(sent), sent)
        BY <1>7, <3>3, FrameOf DEF FtInv, Sourced
      <3> QED  BY <1>1, <1>4, <3>2, <3>3, <3>4
    <2>4. pc[s] \notin {"awaitCommitted", "foreign"} \cup Gone
      BY <1>3 DEF Writing, Gone
    <2>5. Carried(Sender)' \subseteq Carried(Sender)
      BY <1>4, <1>7
    <2> QED  BY <1>1, <1>4, <1>7, <2>2, <2>3, <2>4, <2>5, SenderMoves
  <1> QED  BY <1>2, <1>6, <1>7

\* A stage that reads the frame it waits for and goes on.
LEMMA ReadingSteps ==
    ASSUME FtInv, NEW s \in Sides,
           \/ Serve(s) /\ ~cancel[s]
           \/ OfferArrives(s) \/ ReadyArrives(s) \/ FinishArrives(s)
           \/ DataArrives(s) /\ Received(s, "receive") /\ UNCHANGED out
    PROVE  FtInv' /\ DeliveryStep
  <1>1. PICK next :
           /\ Received(s, next) /\ chan[s] # <<>>
           /\ UNCHANGED <<dir, out, src, opened, sent, target, stored>>
           /\ \/ /\ pc[s] = "awaitOpen" /\ next = IF dir = "upload" THEN "audit" ELSE "openSource"
                 /\ UNCHANGED <<temp, finish>> /\ (dir # "upload" => UNCHANGED declared)
              \/ pc[s] = "awaitOffer" /\ next = "audit" /\ UNCHANGED finish
              \/ pc[s] = "awaitReady" /\ next = "stream" /\ UNCHANGED <<declared, temp, finish>>
              \/ pc[s] = "receive" /\ next = "seal" /\ finish' = First(s) /\ First(s).tag = "Finish"
              \/ pc[s] = "receive" /\ next = "receive" /\ UNCHANGED finish
    BY DEF Serve, OfferArrives, ReadyArrives, FinishArrives, DataArrives, Reads, sourceVars, targetVars
  <1>2. /\ Sender \in Sides /\ Receiver \in Sides /\ Sender # Receiver /\ (s = Sender \/ s = Receiver)
        /\ pc[s] = "awaitReady" => s = Sender
        /\ pc[s] \in {"awaitOffer", "receive"} => s = Receiver
        /\ pc[s] = "awaitOpen" => (s = Sender <=> dir # "upload")
    BY RoleFacts
  <1>3. /\ pc[s] \notin {"awaitCommitted", "ack", "foreign"} \cup Gone
        /\ next \notin Gone \cup {"foreign", "awaitOpen", "start", "awaitCommitted", "ack", "commit"}
        /\ s = Sender => next \in SenderStages
        /\ s = Receiver => next \in ReceiverStages
    BY <1>1, <1>2 DEF Gone, SenderStages, ReceiverStages
  <1>4. /\ Settings' /\ (Mixed' <=> Mixed)
        /\ pc'[s] = next /\ \A x \in Sides : x # s => pc'[x] = pc[x]
        /\ Sender' = Sender /\ Receiver' = Receiver
        /\ \A x \in Sides : Carried(x)' \subseteq Carried(x)
        /\ First(s) \in Carried(s) /\ First(s) \in AllFrames
    BY <1>1, <1>3, ReceivedFacts, SameSides
  <1> HIDE DEF AllFrames
  <1>5. CASE s = Receiver
    <2>1. next = "seal" => finish' = Finish(finish'.size, finish'.digest) /\ finish' \in Carried(Receiver)
      BY <1>1, <1>4, <1>5, FrameFacts
    <2>2. \A f \in Carried(Sender)' : f.tag \in {"Committed", "Error"} => f \in Carried(Sender)
      BY <1>2, <1>4
    <2>3. Carried(Receiver)' \subseteq Carried(Receiver)
      BY <1>2, <1>4
    <2> QED  BY <1>1, <1>3, <1>4, <1>5, <2>1, <2>2, <2>3, ReceiverMoves
  <1>6. CASE s = Sender
    <2>1. UNCHANGED <<declared, temp, finish>> /\ next \in {"openSource", "stream"}
          /\ (next = "openSource" => pc[s] = "awaitOpen")
      BY <1>1, <1>2, <1>6
    <2>2. Sourced'
      <3>1. Sender' = Sender /\ Snapshot' = Snapshot
        BY <1>1, SameSides DEF Snapshot
      <3> QED  BY <1>1, <1>4, <1>6, <2>1, <3>1 DEF FtInv, Sourced
    <2>3. /\ \A f \in Carried(Receiver)' : f.tag = "Finish" => f \in Carried(Receiver)
          /\ Carried(Sender)' \subseteq Carried(Sender)
      BY <1>2, <1>4
    <2> QED  BY <1>1, <1>3, <1>4, <1>6, <2>1, <2>2, <2>3, SenderMoves
  <1> QED  BY <1>2, <1>5, <1>6

\* A stage that neither reads nor writes, and goes on.
LEMMA LocalSteps ==
    ASSUME FtInv, NEW s \in Sides,
           AuditStart(s) \/ OpenSource(s) \/ Prepare(s) \/ RecheckSource(s) \/ Seal(s),
           UNCHANGED out
    PROVE  FtInv' /\ DeliveryStep
  <1>1. PICK next :
           /\ pc' = [pc EXCEPT ![s] = next]
           /\ UNCHANGED <<dir, wire, chan, out, src, sent, declared, finish, target, stored>>
           /\ \/ pc[s] = "audit" /\ next = AfterAudit(s) /\ UNCHANGED <<opened, temp>>
              \/ pc[s] = "openSource" /\ next = "audit" /\ opened' = src /\ UNCHANGED temp
              \/ pc[s] = "prepare" /\ next = "ready" /\ UNCHANGED opened
              \/ /\ pc[s] = "stream" /\ next = "finish" /\ UNCHANGED <<opened, temp>>
                 /\ Len(sent) = opened.size /\ src = opened
              \/ pc[s] = "seal" /\ next = "commit" /\ UNCHANGED <<opened, temp>> /\ Verified
    <2>1. ASSUME NEW o, NEW fs, Ends(s, o, fs), o.kind # "none", pc[s] \notin Gone PROVE FALSE
      <3>1. out' = [out EXCEPT ![s] = o] /\ out[s].kind = "none" /\ out \in [Sides -> Outcomes]
        BY <2>1 DEF Ends, FtInv, Settings
      <3> QED  BY <2>1, <3>1
    <2>2. ASSUME FailLocal(s), pc[s] \notin Gone PROVE FALSE
      <3>1. PICK fs \in Attempt(Error("File")) : Ends(s, Failed("File"), fs)
        BY <2>2 DEF FailLocal
      <3>2. Failed("File").kind # "none"
        BY OutcomeFacts DEF Codes
      <3> QED  BY <2>1, <2>2, <3>1, <3>2
    <2>3. Outcome("AuditFailedBeforeCommit").kind # "none"
      BY OutcomeFacts DEF Kinds
    <2>4. CASE AuditStart(s)
      BY <2>1, <2>3, <2>4 DEF AuditStart, sourceVars, Gone
    <2>5. CASE OpenSource(s)
      BY <2>2, <2>5 DEF OpenSource, Gone
    <2>6. CASE Prepare(s)
      BY <2>2, <2>6 DEF Prepare, sourceVars, Gone
    <2>7. CASE RecheckSource(s)
      BY <2>2, <2>7 DEF RecheckSource, Unchanged, sourceVars, Gone
    <2>8. CASE Seal(s)
      BY <2>2, <2>8 DEF Seal, sourceVars, Gone
    <2> QED  BY <2>4, <2>5, <2>6, <2>7, <2>8
  <1>2. /\ Sender \in Sides /\ Receiver \in Sides /\ Sender # Receiver /\ (s = Sender \/ s = Receiver)
        /\ pc[s] \in {"openSource", "stream"} => s = Sender
        /\ pc[s] \in {"prepare", "seal"} => s = Receiver
        /\ Sender' = Sender /\ Receiver' = Receiver
    BY <1>1, RoleFacts, SameSides
  <1>3. /\ s = Sender /\ pc[s] = "audit" => next \in {"awaitReady", "offer"}
        /\ s = Receiver /\ pc[s] = "audit" => next = "prepare"
    BY <1>1, <1>2 DEF AfterAudit
  <1>4. /\ pc[s] \notin {"awaitCommitted", "ack", "foreign"} \cup Gone
        /\ next \notin Gone \cup {"foreign", "awaitOpen", "start", "awaitCommitted", "ack", "seal", "openSource"}
        /\ s = Sender => next \in SenderStages
        /\ s = Receiver => next \in ReceiverStages
        /\ next = "commit" => pc[s] = "seal"
        /\ next = "finish" => pc[s] = "stream"
    BY <1>1, <1>2, <1>3 DEF Gone, SenderStages, ReceiverStages
  <1>5. wire \in [Sides -> WireStates] /\ chan \in [Sides -> Seq(AllFrames)]
    BY DEF FtInv, Settings
  <1>6. /\ Settings' /\ (Mixed' <=> Mixed)
        /\ pc'[s] = next /\ \A x \in Sides : x # s => pc'[x] = pc[x]
    BY <1>1, <1>4, <1>5, SettingsMove DEF FtInv
  <1>7. Carried(Sender)' = Carried(Sender) /\ Carried(Receiver)' = Carried(Receiver)
    BY <1>1, <1>2 DEF Carried, Entries
  <1>8. CASE s = Receiver
    BY <1>1, <1>2, <1>4, <1>6, <1>7, <1>8, ReceiverMoves
  <1>9. CASE s = Sender
    <2>1. /\ src \in [version : Nat, size : Nat] /\ opened \in [version : Nat, size : Nat]
          /\ opened.version <= src.version /\ sent \in Seq(Nat)
          /\ \A i \in DOMAIN sent : opened.version <= sent[i] /\ sent[i] <= src.version
          /\ pc[s] = "openSource" => sent = <<>>
      BY <1>9 DEF FtInv, Sourced
    <2>2. Sourced'
      <3>1. CASE pc[s] = "openSource"
        BY <1>1, <1>2, <1>4, <1>6, <1>9, <2>1, <3>1 DEF Sourced
      <3>2. CASE UNCHANGED opened
        <4>1. Snapshot' = Snapshot
          BY <3>2 DEF Snapshot
        <4>2. next = "finish" => sent = Snapshot
          <5>1. SUFFICES ASSUME next = "finish" PROVE sent = Snapshot
            OBVIOUS
          <5>2. Len(sent) = opened.size /\ src = opened
            BY <1>1, <1>4, <5>1
          <5>3. DOMAIN sent = 1 .. opened.size /\ \A i \in 1 .. opened.size : sent[i] = opened.version
            BY <2>1, <5>2
          <5>4. sent = [i \in DOMAIN sent |-> sent[i]]
            BY <2>1
          <5> QED  BY <5>3, <5>4 DEF Snapshot
        <4> QED  BY <1>1, <1>2, <1>4, <1>6, <1>9, <2>1, <3>2, <4>1, <4>2 DEF Sourced
      <3> QED  BY <1>1, <1>2, <1>9, <2>1, <3>1, <3>2
    <2>3. UNCHANGED <<declared, temp, finish, target, stored>>
      BY <1>1, <1>2, <1>9
    <2> QED  BY <1>1, <1>4, <1>6, <1>7, <1>9, <2>2, <2>3, SenderMoves
  <1> QED  BY <1>2, <1>8, <1>9

\* persist_noclobber publishes what Finish announced, and Finish announced the
\* source as it was opened.
LEMMA CommitStep ==
    ASSUME FtInv, NEW s \in Sides, Commit(s), UNCHANGED out
    PROVE  FtInv' /\ DeliveryStep
  <1>1. /\ pc[s] = "commit" /\ target = "absent" /\ target' = "file" /\ stored' = temp
        /\ pc' = [pc EXCEPT ![s] = "ack"]
        /\ UNCHANGED <<dir, wire, chan, out, src, opened, sent, declared, finish>>
    <2>1. ~FailLocal(s)
      <3>1. SUFFICES ASSUME FailLocal(s) PROVE FALSE
        OBVIOUS
      <3>2. PICK fs \in Attempt(Error("File")) : Ends(s, Failed("File"), fs)
        BY <3>1 DEF FailLocal
      <3>3. Failed("File").kind # "none"
        BY OutcomeFacts DEF Codes
      <3>4. out' = [out EXCEPT ![s] = Failed("File")] /\ out[s].kind = "none" /\ out \in [Sides -> Outcomes]
        BY <3>2 DEF Ends, FtInv, Settings, Commit, Gone
      <3> QED  BY <3>3, <3>4
    <2> QED  BY <2>1 DEF Commit, Vacant, sourceVars
  <1>2. /\ Sender \in Sides /\ Receiver \in Sides /\ Sender # Receiver /\ s = Receiver
        /\ Sender' = Sender /\ Receiver' = Receiver
    BY <1>1, RoleFacts, SameSides
  <1>3. wire \in [Sides -> WireStates] /\ chan \in [Sides -> Seq(AllFrames)]
    BY DEF FtInv, Settings
  <1>4. /\ Settings' /\ (Mixed' <=> Mixed)
        /\ pc'[Receiver] = "ack" /\ pc'[Sender] = pc[Sender]
    BY <1>1, <1>2, <1>3, SettingsMove DEF FtInv, Gone, ReceiverStages
  <1>5. Carried(Sender)' = Carried(Sender) /\ Carried(Receiver)' = Carried(Receiver)
    BY <1>1, <1>2 DEF Carried, Entries
  <1>6. Snapshot' = Snapshot
    BY <1>1 DEF Snapshot
  <1>7. Sourced'
    BY <1>1, <1>2, <1>4, <1>6 DEF FtInv, Sourced
  <1>8. Len(temp) = declared /\ finish = Finish(declared, temp)
    BY <1>1, <1>2 DEF FtInv, Published
  <1>9. Published'
    BY <1>1, <1>2, <1>4, <1>8 DEF Published, PublishedIsWhole, Finish
  <1>10. ASSUME ~Mixed PROVE Honest' /\ stored' = Snapshot' /\ out[Sender].kind \in {"none", "CommitStatusUnknown"}
    <2>1. Honest /\ FinishSent
      BY <1>1, <1>2, <1>10 DEF FtInv, FinishSent
    <2>2. /\ finish = Finish(Len(sent), sent) /\ sent = Snapshot
          /\ pc[Sender] \in {"awaitCommitted", "settled", "end"}
          /\ out[Sender].kind \in {"none", "CommitStatusUnknown"}
      BY <1>1, <1>2, <2>1 DEF Honest
    <2>3. temp = sent
      BY <1>8, <2>2 DEF Finish
    <2>4. out[Receiver].kind = "none"
      BY <1>1, <1>2 DEF FtInv, Settings, Gone
    <2>5. \A f \in Carried(Sender) : f.tag \notin {"Committed", "Error"}
      BY <1>1, <2>1, <2>4 DEF Honest
    <2>6. \A f \in Carried(Receiver) : f.tag = "Finish" => f = Finish(Len(sent), sent)
      BY <2>1 DEF Honest
    <2> QED  BY <1>1, <1>2, <1>4, <1>5, <1>6, <2>2, <2>3, <2>4, <2>5, <2>6 DEF Honest, Finish
  <1>11. FtInv'
    BY <1>4, <1>7, <1>9, <1>10 DEF FtInv
  <1>12. Mapped /\ Mapped'
    BY <1>11, MappedFacts, PTL
  <1>13. CASE Mixed
    BY <1>4, <1>11, <1>12, <1>13 DEF Mapped, DeliveryStep
  <1>14. CASE ~Mixed
    <2>1. SenderVerdict' = SenderVerdict /\ ReceiverVerdict' = ReceiverVerdict
      BY <1>1, SameSides DEF SenderVerdict, ReceiverVerdict
    <2>2. out[Receiver].kind = "none"
      BY <1>1, <1>2 DEF FtInv, Settings, Gone
    <2>3. ReceiverVerdict = "pending"
      BY <2>2 DEF ReceiverVerdict, StoredKinds
    <2>4. SenderVerdict \in {"pending", "unknown"}
      <3>1. CASE out[Sender].kind = "none"
        BY <3>1 DEF SenderVerdict
      <3>2. CASE out[Sender].kind = "CommitStatusUnknown"
        BY <3>2 DEF SenderVerdict
      <3> QED  BY <1>10, <1>14, <3>1, <3>2
    <2>5. /\ TheFile = "absent" /\ TheReceiver = "pending" /\ TheSender \in {"pending", "unknown"}
          /\ TheFile' = "whole" /\ UNCHANGED <<TheSender, TheReceiver>>
      BY <1>1, <1>4, <1>12, <1>14, <2>1, <2>3, <2>4 DEF Mapped
    <2>6. Delivery!Publish
      BY <2>5 DEF Delivery!Publish, TheFile, TheSender, TheReceiver
    <2> QED  BY <1>11, <2>6 DEF DeliveryStep, Delivery!Next
  <1> QED  BY <1>11, <1>13, <1>14

\* The terminal record: a failed append turns Committed into AuditFailed, and
\* changes no verdict.
LEMMA RecordStep ==
    ASSUME FtInv, NEW s \in Sides, RecordEnd(s)
    PROVE  FtInv' /\ DeliveryStep
  <1>1. /\ pc[s] = "settled" /\ pc' = [pc EXCEPT ![s] = "end"]
        /\ UNCHANGED <<dir, wire, chan, src, opened, sent, declared, temp, finish, target, stored>>
    BY DEF RecordEnd, sourceVars, targetVars
  <1>2. /\ \A x \in Sides : x # s => out'[x] = out[x]
        /\ out'[s] = out[s] \/ (out[s].kind = "Committed" /\ out'[s] = Outcome("AuditFailed"))
        /\ out' \in [Sides -> Outcomes]
    <2>1. Outcome("AuditFailed") \in Outcomes /\ out \in [Sides -> Outcomes]
      BY OutcomeFacts DEF Kinds, FtInv, Settings
    <2>2. \/ out' = out
          \/ out[s].kind = "Committed" /\ out' = [out EXCEPT ![s] = Outcome("AuditFailed")]
      BY DEF RecordEnd
    <2> HIDE DEF Outcomes
    <2> QED  BY <2>1, <2>2
  <1>3. Outcome("AuditFailed").kind = "AuditFailed"
    BY OutcomeFacts DEF Kinds
  <1>4. \A x \in Sides :
           out'[x].kind = out[x].kind \/ (out[x].kind = "Committed" /\ out'[x].kind = "AuditFailed")
    <2>1. ASSUME NEW x \in Sides, x # s PROVE out'[x].kind = out[x].kind
      BY <1>2, <2>1
    <2>2. out'[s].kind = out[s].kind \/ (out[s].kind = "Committed" /\ out'[s].kind = "AuditFailed")
      BY <1>2, <1>3
    <2> QED  BY <2>1, <2>2
  <1>5. /\ Sender \in Sides /\ Receiver \in Sides /\ Sender # Receiver /\ (s = Sender \/ s = Receiver)
        /\ Sender' = Sender /\ Receiver' = Receiver
    BY <1>1, RoleFacts, SameSides
  <1>6. \A x \in Sides : pc'[x] = pc[x] \/ (pc[x] = "settled" /\ pc'[x] = "end")
    BY <1>1 DEF FtInv, Settings
  <1>7. Mixed' <=> Mixed
    BY <1>6 DEF Mixed
  <1>8. Settings'
    <2>1. pc' \in [Sides -> SenderStages \cup ReceiverStages]
      BY <1>1 DEF FtInv, Settings, SenderStages
    <2>2. pc'[Sender] \in SenderStages /\ pc'[Receiver] \in ReceiverStages
      BY <1>5, <1>6 DEF FtInv, Settings, SenderStages, ReceiverStages
    <2>3. pc'["controller"] # "awaitOpen" /\ pc'["host"] # "start"
      BY <1>6 DEF FtInv, Settings, Sides
    <2>4. \A x \in Sides : pc'[x] \in Gone <=> pc[x] \in Gone
      BY <1>6 DEF Gone
    <2>5. \A x \in Sides : pc'[x] \in Gone \cup {"foreign"} <=> pc[x] \in Gone \cup {"foreign"}
      BY <1>6 DEF Gone
    <2>6. \A x \in Sides : out'[x].kind = "none" <=> pc'[x] \notin Gone
      BY <1>4, <2>4 DEF FtInv, Settings
    <2>7. \A x \in Sides : pc'[x] \in Gone \cup {"foreign"} => chan'[x] = <<>>
      BY <1>1, <2>5 DEF FtInv, Settings
    <2>8. pc'[Sender] = "awaitCommitted" => wire'[Sender] = "AwaitingCommitted"
      BY <1>1, <1>5, <1>6 DEF FtInv, Settings
    <2> HIDE DEF AllFrames, Outcomes
    <2> QED  BY <1>1, <1>2, <1>5, <2>1, <2>2, <2>3, <2>6, <2>7, <2>8 DEF FtInv, Settings
  <1>9. Snapshot' = Snapshot /\ Carried(Sender)' = Carried(Sender) /\ Carried(Receiver)' = Carried(Receiver)
    BY <1>1, <1>5 DEF Snapshot, Carried, Entries
  <1>10. Sourced'
    BY <1>1, <1>5, <1>6, <1>9 DEF FtInv, Sourced
  <1>11. Published'
    BY <1>1, <1>5, <1>6 DEF FtInv, Published, PublishedIsWhole, NoFile, Finish
  <1>12. ASSUME ~Mixed PROVE Honest'
    <2>1. Honest
      BY <1>12 DEF FtInv
    <2>2. /\ pc[Receiver] \in {"seal", "commit", "ack"} => pc'[Receiver] = pc[Receiver]
          /\ pc'[Receiver] \in {"seal", "commit", "ack"} => pc'[Receiver] = pc[Receiver]
          /\ pc[Sender] \in {"awaitCommitted", "settled", "end"} =>
                pc'[Sender] \in {"awaitCommitted", "settled", "end"}
      BY <1>5, <1>6
    <2>3. FinishSent' => FinishSent
      BY <1>1, <1>5, <1>9, <2>2 DEF FinishSent
    <2>4. /\ out'[Receiver].kind \in StoredKinds <=> out[Receiver].kind \in StoredKinds
          /\ out'[Receiver].kind = "none" <=> out[Receiver].kind = "none"
          /\ out'[Sender].kind \in {"Committed", "AuditFailed"} => out[Sender].kind \in {"Committed", "AuditFailed"}
          /\ out[Sender].kind \in {"none", "CommitStatusUnknown", "Committed", "AuditFailed"} =>
                out'[Sender].kind \in {"none", "CommitStatusUnknown", "Committed", "AuditFailed"}
      BY <1>4, <1>5 DEF StoredKinds
    <2> QED  BY <1>1, <1>5, <1>9, <2>1, <2>2, <2>3, <2>4 DEF Honest, Finish
  <1>13. FtInv'
    BY <1>7, <1>8, <1>10, <1>11, <1>12 DEF FtInv
  <1>14. Mapped /\ Mapped'
    BY <1>13, MappedFacts, PTL
  <1>15. SenderVerdict' = SenderVerdict
    <2>1. CASE out'[Sender].kind = out[Sender].kind
      BY <1>5, <2>1 DEF SenderVerdict
    <2>2. CASE out[Sender].kind = "Committed" /\ out'[Sender].kind = "AuditFailed"
      <3>1. SenderVerdict = "delivered"
        BY <2>2 DEF SenderVerdict
      <3>2. SenderVerdict' = "delivered"
        BY <1>5, <2>2 DEF SenderVerdict
      <3> QED  BY <3>1, <3>2
    <2> QED  BY <1>4, <1>5, <2>1, <2>2
  <1>16. ReceiverVerdict' = ReceiverVerdict
    <2>1. CASE out'[Receiver].kind = out[Receiver].kind
      BY <1>5, <2>1 DEF ReceiverVerdict
    <2>2. CASE out[Receiver].kind = "Committed" /\ out'[Receiver].kind = "AuditFailed"
      <3>1. ReceiverVerdict = "stored"
        BY <2>2 DEF ReceiverVerdict, StoredKinds
      <3>2. ReceiverVerdict' = "stored"
        BY <1>5, <2>2 DEF ReceiverVerdict, StoredKinds
      <3> QED  BY <3>1, <3>2
    <2> QED  BY <1>4, <1>5, <2>1, <2>2
  <1>17. UNCHANGED <<TheFile, TheSender, TheReceiver>>
    BY <1>1, <1>7, <1>14, <1>15, <1>16 DEF Mapped
  <1> QED  BY <1>13, <1>17 DEF DeliveryStep

-----------------------------------------------------------------------------
(* The environment *)

\* A step that concerns neither the handlers' stages, the stream nor the files.
LEMMA QuietStep ==
    ASSUME FtInv,
           UNCHANGED <<dir, pc, wire, chan, out, src, opened, sent, declared, temp, finish, target, stored>>
    PROVE  FtInv' /\ DeliveryStep
  <1>1. /\ Sender' = Sender /\ Receiver' = Receiver /\ (Mixed' <=> Mixed) /\ Snapshot' = Snapshot
        /\ Carried(Sender)' = Carried(Sender) /\ Carried(Receiver)' = Carried(Receiver)
    BY SameSides DEF Mixed, Snapshot, Carried, Entries
  <1>2. Settings'
    <2> HIDE DEF AllFrames, Outcomes
    <2> QED  BY <1>1 DEF FtInv, Settings
  <1>3. Sourced' /\ Published'
    BY <1>1 DEF FtInv, Sourced, Published, PublishedIsWhole, NoFile, Finish
  <1>4. FinishSent' <=> FinishSent
    BY <1>1 DEF FinishSent
  <1>5. ~Mixed => Honest'
    BY <1>1, <1>4 DEF FtInv, Honest, Finish
  <1>6. FtInv'
    BY <1>1, <1>2, <1>3, <1>5 DEF FtInv
  <1> QED  BY <1>1, <1>6, StutterStep

\* Another program rewrites the source, or creates the target first.
LEMMA OthersStep ==
    ASSUME FtInv, SourceChanges \/ OtherCreates
    PROVE  FtInv' /\ DeliveryStep
  <1>1. /\ UNCHANGED <<dir, pc, wire, chan, out, opened, sent, declared, temp, finish, stored>>
        /\ \/ /\ UNCHANGED target /\ src' \in [version : Nat, size : Nat]
              /\ src.version <= src'.version
           \/ UNCHANGED src /\ target = "absent" /\ target' = "other"
    <2>1. src \in [version : Nat, size : Nat]
      BY DEF FtInv, Sourced
    <2>2. CASE SourceChanges
      <3>1. PICK n \in 0 .. src.size : src' = [version |-> src.version + 1, size |-> n]
        BY <2>2 DEF SourceChanges
      <3>2. src' \in [version : Nat, size : Nat] /\ src.version <= src'.version
        BY <2>1, <3>1
      <3> QED  BY <2>2, <3>2 DEF SourceChanges, sideVars, targetVars
    <2>3. CASE OtherCreates
      BY <2>3 DEF OtherCreates, sideVars, sourceVars
    <2> QED  BY <2>2, <2>3
  <1>2. /\ Sender' = Sender /\ Receiver' = Receiver /\ (Mixed' <=> Mixed) /\ Snapshot' = Snapshot
        /\ Carried(Sender)' = Carried(Sender) /\ Carried(Receiver)' = Carried(Receiver)
    BY <1>1, SameSides DEF Mixed, Snapshot, Carried, Entries
  <1>3. Settings'
    <2> HIDE DEF AllFrames, Outcomes
    <2> QED  BY <1>1, <1>2 DEF FtInv, Settings
  <1>4. Sourced'
    <2>1. /\ opened \in [version : Nat, size : Nat] /\ src \in [version : Nat, size : Nat]
          /\ src' \in [version : Nat, size : Nat]
          /\ opened.version <= src.version /\ src.version <= src'.version /\ sent \in Seq(Nat)
          /\ \A i \in DOMAIN sent : opened.version <= sent[i] /\ sent[i] <= src.version
      BY <1>1 DEF FtInv, Sourced
    <2>2. \A i \in DOMAIN sent : sent[i] \in Nat /\ opened.version <= sent[i] /\ sent[i] <= src'.version
      BY <2>1
    <2>3. opened.version <= src'.version
      BY <2>1
    <2> QED  BY <1>1, <1>2, <2>1, <2>2, <2>3 DEF FtInv, Sourced
  <1>5. Published'
    BY <1>1, <1>2 DEF FtInv, Published, PublishedIsWhole, NoFile, Finish
  <1>6. target' = "file" <=> target = "file"
    BY <1>1
  <1>7. FinishSent' <=> FinishSent
    BY <1>1, <1>2, <1>6 DEF FinishSent
  <1>8. ~Mixed => Honest'
    BY <1>1, <1>2, <1>6, <1>7 DEF FtInv, Honest, Finish
  <1>9. FtInv'
    BY <1>2, <1>3, <1>4, <1>5, <1>8 DEF FtInv
  <1>10. CASE UNCHANGED target
    BY <1>1, <1>2, <1>9, <1>10, StutterStep
  <1>11. CASE target = "absent" /\ target' = "other"
    <2>1. Mapped /\ Mapped'
      BY <1>9, MappedFacts, PTL
    <2>2. CASE Mixed
      BY <1>2, <1>9, <2>1, <2>2 DEF Mapped, DeliveryStep
    <2>3. CASE ~Mixed
      <3>1. SenderVerdict' = SenderVerdict /\ ReceiverVerdict' = ReceiverVerdict
        BY <1>1, <1>2 DEF SenderVerdict, ReceiverVerdict
      <3>2. TheFile = "absent" /\ TheFile' = "other" /\ UNCHANGED <<TheSender, TheReceiver>>
        BY <1>2, <1>11, <2>1, <2>3, <3>1 DEF Mapped
      <3>3. Delivery!Occupy
        BY <3>2 DEF Delivery!Occupy, TheFile, TheSender, TheReceiver
      <3> QED  BY <1>9, <3>3 DEF DeliveryStep, Delivery!Next
    <2> QED  BY <2>2, <2>3
  <1> QED  BY <1>1, <1>10, <1>11

\* A foreign side sends what it likes.
LEMMA ForeignStep ==
    ASSUME FtInv, NEW s \in Sides, ForeignSend(s)
    PROVE  FtInv' /\ DeliveryStep
  <1>1. /\ pc[s] = "foreign" /\ pc[Peer(s)] \notin Gone \cup {"foreign"}
        /\ UNCHANGED <<dir, pc, wire, out, src, opened, sent, declared, temp, finish, target, stored>>
    BY DEF ForeignSend, Running, Gone, sourceVars, targetVars
  <1>2. PICK f \in Frames : chan' = [chan EXCEPT ![Peer(s)] = Append(@, f)]
    BY DEF ForeignSend
  <1>3. f \in AllFrames
    <2>1. \A n \in 0 .. MaxBlocks : n \in Nat
      BY TransferAssumption
    <2>2. \A d \in Contents : d \in Seq(Nat)
      <3>1. SUFFICES ASSUME NEW n \in 0 .. MaxBlocks, NEW d \in [1 .. n -> Blocks] PROVE d \in Seq(Nat)
        BY DEF Contents
      <3>2. \A i \in 1 .. n : d[i] \in Nat
        BY DEF Blocks
      <3> QED  BY <2>1, <3>2
    <2>3. \A b \in Blocks : b \in Nat
      BY DEF Blocks
    <2> QED  BY <2>1, <2>2, <2>3 DEF Frames, AllFrames
  <1>4. /\ Sender' = Sender /\ Receiver' = Receiver /\ Mixed /\ Mixed' /\ Snapshot' = Snapshot
    BY <1>1, SameSides DEF Mixed, Snapshot
  <1>5. Settings'
    <2>1. Peer(s) \in Sides /\ chan \in [Sides -> Seq(AllFrames)]
      BY DEF Peer, Sides, FtInv, Settings
    <2> HIDE DEF AllFrames, Outcomes
    <2>2. PICK c : c = Append(chan[Peer(s)], f)
      OBVIOUS
    <2>3. c \in Seq(AllFrames)
      BY <1>3, <2>1, <2>2
    <2>4. chan' = [chan EXCEPT ![Peer(s)] = c]
      BY <1>2, <2>2
    <2>5. chan' \in [Sides -> Seq(AllFrames)] /\ \A x \in Sides : x # Peer(s) => chan'[x] = chan[x]
      BY <2>1, <2>3, <2>4
    <2> QED  BY <1>1, <1>4, <2>5 DEF FtInv, Settings
  <1>6. Sourced' /\ Published'
    BY <1>1, <1>4 DEF FtInv, Sourced, Published, PublishedIsWhole, NoFile, Finish
  <1>7. FtInv'
    BY <1>4, <1>5, <1>6 DEF FtInv
  <1> QED  BY <1>1, <1>4, <1>7, StutterStep

-----------------------------------------------------------------------------
(* The theorems *)

\* A stage that may go on or give up does either well.
LEMMA TurningSteps ==
    ASSUME FtInv, NEW s \in Sides,
           \/ Serve(s) \/ AuditStart(s) \/ OpenSource(s) \/ Prepare(s)
           \/ RecheckSource(s) \/ DataArrives(s) \/ Seal(s) \/ Commit(s)
    PROVE  FtInv' /\ DeliveryStep
  <1> DEFINE Rest == UNCHANGED <<dir, src, opened, sent, declared, finish, target, stored>>
  <1>1. \A k \in {"Cancelled", "AuditFailedBeforeCommit"} :
           Outcome(k) \in Outcomes /\ Outcome(k).kind \notin StoredKinds \cup {"none"}
    BY OutcomeFacts DEF Kinds, StoredKinds
  <1>2. pc[s] \notin {"ack", "awaitCommitted", "foreign"} \cup Gone
    BY DEF Serve, AuditStart, OpenSource, Prepare, RecheckSource, DataArrives, Seal, Commit, Gone
  <1>3. ASSUME FailLocal(s), Rest PROVE FtInv' /\ DeliveryStep
    BY <1>2, <1>3, FailsLocally
  <1>4. CASE Serve(s)
    <2>1. CASE cancel[s]
      <3>1. Rest /\ Ends(s, Outcome("Cancelled"), <<>>)
        BY <1>4, <2>1 DEF Serve, sourceVars
      <3> HIDE DEF Outcomes
      <3> QED  BY <1>1, <1>2, <3>1, GivesUpQuietly
    <2>2. CASE ~cancel[s]
      BY <1>4, <2>2, ReadingSteps
    <2> QED  BY <2>1, <2>2
  <1>5. CASE AuditStart(s)
    <2>1. CASE audit[s] = "failed"
      <3>1. Rest /\ Ends(s, Outcome("AuditFailedBeforeCommit"), <<>>)
        BY <1>5, <2>1 DEF AuditStart, sourceVars
      <3> HIDE DEF Outcomes
      <3> QED  BY <1>1, <1>2, <3>1, GivesUpQuietly
    <2>2. CASE audit[s] # "failed"
      <3>1. UNCHANGED out
        BY <1>5, <2>2 DEF AuditStart
      <3> QED  BY <1>5, <3>1, LocalSteps
    <2> QED  BY <2>1, <2>2
  <1>6. CASE OpenSource(s)
    <2>1. UNCHANGED out \/ (FailLocal(s) /\ Rest)
      BY <1>6 DEF OpenSource
    <2> QED  BY <1>3, <1>6, <2>1, LocalSteps
  <1>7. CASE Prepare(s)
    <2>1. UNCHANGED out \/ (FailLocal(s) /\ Rest)
      BY <1>7 DEF Prepare, sourceVars
    <2> QED  BY <1>3, <1>7, <2>1, LocalSteps
  <1>8. CASE RecheckSource(s)
    <2>1. UNCHANGED out \/ (FailLocal(s) /\ Rest)
      BY <1>8 DEF RecheckSource, sourceVars
    <2> QED  BY <1>3, <1>8, <2>1, LocalSteps
  <1>9. CASE DataArrives(s)
    <2>1. (Received(s, "receive") /\ UNCHANGED out) \/ (FailLocal(s) /\ Rest)
      BY <1>9 DEF DataArrives, sourceVars
    <2> QED  BY <1>3, <1>9, <2>1, ReadingSteps
  <1>10. CASE Seal(s)
    <2>1. UNCHANGED out \/ (FailLocal(s) /\ Rest)
      BY <1>10 DEF Seal, sourceVars
    <2> QED  BY <1>3, <1>10, <2>1, LocalSteps
  <1>11. CASE Commit(s)
    <2>1. UNCHANGED out \/ (FailLocal(s) /\ Rest)
      BY <1>11 DEF Commit, sourceVars
    <2> QED  BY <1>3, <1>11, <2>1, CommitStep
  <1> QED  BY <1>4, <1>5, <1>6, <1>7, <1>8, <1>9, <1>10, <1>11

\* Every step keeps the invariant and is a step of FileDelivery or none.
LEMMA TransferStep ==
    ASSUME FtInv, [FtNext]_vars
    PROVE  FtInv' /\ DeliveryStep
  <1>1. ASSUME NEW s \in Sides, Step(s) PROVE FtInv' /\ DeliveryStep
    BY <1>1, EarlyEnds, LateEnds, PeerEnds, WriteEnds, WritingSteps, ReadingSteps, TurningSteps,
       RecordStep DEF Step
  <1>2. ASSUME NEW s \in Sides, Cancel(s) PROVE FtInv' /\ DeliveryStep
    BY <1>2, QuietStep DEF Cancel, sourceVars, targetVars
  <1>3. ASSUME NEW s \in Sides, AuditBreaks(s) PROVE FtInv' /\ DeliveryStep
    BY <1>3, QuietStep DEF AuditBreaks, sideVars, sourceVars, targetVars
  <1>4. ASSUME NEW s \in Sides, ForeignSend(s) PROVE FtInv' /\ DeliveryStep
    BY <1>4, ForeignStep
  <1>5. CASE SourceChanges \/ OtherCreates
    BY <1>5, OthersStep
  <1>6. CASE UNCHANGED vars
    BY <1>6, QuietStep DEF vars, sideVars, sourceVars, targetVars
  <1> QED  BY <1>1, <1>2, <1>3, <1>4, <1>5, <1>6 DEF FtNext

LEMMA TransferInit ==
    ASSUME FtInit
    PROVE  FtInv /\ Delivery!Init
  <1>1. dir \in Directions
    BY DEF FtInit
  <1>2. PICK session \in Sessions :
           pc = [s \in Sides |-> IF s \in session.foreign THEN "foreign" ELSE FirstStage(s)]
    BY DEF FtInit
  <1>3. \A s \in Sides : pc[s] \in {"foreign", FirstStage(s)}
    BY <1>2
  <1>4. /\ Sender \in Sides /\ Receiver \in Sides /\ Sender # Receiver
        /\ "controller" \in Sides /\ "host" \in Sides
    BY <1>1, SideFacts DEF Sides
  <1>5. \A s \in Sides : pc[s] \in {"foreign", "start", "awaitOpen"}
    BY <1>3 DEF FirstStage
  <1>6. \A s \in Sides : chan[s] = <<>> /\ out[s] = Outcome("none") /\ wire[s] = "AwaitingOpen"
    BY DEF FtInit
  <1>7. Outcome("none") \in Outcomes /\ Outcome("none").kind = "none"
    BY OutcomeFacts DEF Kinds
  <1>8. Settings
    <2>1. pc \in [Sides -> SenderStages \cup ReceiverStages]
      BY <1>2, <1>5 DEF SenderStages
    <2>2. pc["controller"] # "awaitOpen" /\ pc["host"] # "start"
      BY <1>3, <1>4 DEF FirstStage
    <2>3. wire \in [Sides -> WireStates]
      BY DEF FtInit, WireStates
    <2> HIDE DEF AllFrames, Outcomes
    <2>4. chan \in [Sides -> Seq(AllFrames)] /\ out \in [Sides -> Outcomes]
      BY <1>7 DEF FtInit
    <2>5. \A s \in Sides : out[s].kind = "none" /\ pc[s] \notin Gone
      BY <1>5, <1>6, <1>7 DEF Gone
    <2> QED  BY <1>1, <1>4, <1>5, <1>6, <2>1, <2>2, <2>3, <2>4, <2>5
             DEF Settings, SenderStages, ReceiverStages
  <1>9. Sourced
    <2>1. PICK n \in 0 .. MaxBlocks : src = [version |-> 0, size |-> n]
      BY DEF FtInit
    <2>2. n \in Nat
      BY TransferAssumption
    <2> QED  BY <1>4, <1>5, <2>1, <2>2 DEF FtInit, Sourced
  <1>10. Published
    BY <1>4, <1>5 DEF FtInit, Published, PublishedIsWhole
  <1>11. Honest
    <2>1. Carried(Sender) = {} /\ Carried(Receiver) = {}
      BY <1>4, <1>6 DEF Carried, Entries
    <2>2. target = "absent" /\ ~FinishSent
      BY <1>4, <1>5, <2>1 DEF FtInit, FinishSent
    <2> QED  BY <1>4, <1>5, <1>6, <1>7, <2>1, <2>2 DEF Honest, StoredKinds
  <1>12. FtInv
    BY <1>8, <1>9, <1>10, <1>11 DEF FtInv
  <1>13. Mapped /\ target = "absent"
    BY <1>12, MappedFacts DEF FtInit
  <1>14. out[Sender].kind = "none" /\ out[Receiver].kind = "none"
    BY <1>4, <1>6, <1>7
  <1>15. SenderVerdict = "pending"
    BY <1>14 DEF SenderVerdict
  <1>16. ReceiverVerdict = "pending"
    BY <1>14 DEF ReceiverVerdict, StoredKinds
  <1>17. TheFile = "absent" /\ TheSender = "pending" /\ TheReceiver = "pending"
    BY <1>13, <1>15, <1>16 DEF Mapped
  <1> QED  BY <1>12, <1>17 DEF Delivery!Init, TheFile, TheSender, TheReceiver

LEMMA TransferInvariant == FtSpec => []FtInv
  <1>1. FtInit => FtInv
    BY TransferInit
  <1>2. FtInv /\ [FtNext]_vars => FtInv'
    BY TransferStep
  <1> QED  BY <1>1, <1>2, PTL DEF FtSpec

\* What is published has the announced size and the digest of Finish, whatever
\* a foreign sender sends and in whatever order (verify_finish), for files of
\* any size and any number of faults.
THEOREM TransferPublishesWhole == FtSpec => []PublishedIsWhole
  <1>1. FtInv => PublishedIsWhole
    BY DEF FtInv, Published
  <1> QED  BY <1>1, TransferInvariant, PTL

\* Two sides of this program keep the promise of FileDelivery: the target
\* appears at most once, whole and over nobody's object, and neither side
\* reports what is not so, however frames, cancellation and faults interleave
\* around Finish and Committed (recheck_source, verify_finish,
\* persist_noclobber, send_failure, finish_send_failure).
THEOREM TransferImplementsDelivery == FtSpec => DeliverySpec
  <1>1. FtInit => Delivery!Init
    BY TransferInit
  <1>2. FtInv /\ [FtNext]_vars => [Delivery!Next]_(Delivery!vars)
    <2>1. SUFFICES ASSUME FtInv, [FtNext]_vars PROVE [Delivery!Next]_(Delivery!vars)
      OBVIOUS
    <2>2. DeliveryStep
      BY <2>1, TransferStep
    <2> QED  BY <2>2 DEF DeliveryStep, Delivery!vars, TheFile, TheSender, TheReceiver
  <1> QED  BY <1>1, <1>2, TransferInvariant, PTL DEF FtSpec, DeliverySpec, Delivery!Spec
=============================================================================
