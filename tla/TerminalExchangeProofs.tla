----------------------- MODULE TerminalExchangeProofs -----------------------
(***************************************************************************)
(* Proof that two honest ends of a TerminalSession never accuse each       *)
(* other.  MxInv says where the checkpoints, their acknowledgements, the   *)
(* close notice and the manifests are between them; a step of one end      *)
(* takes at most one frame and writes some (Moves), and MxKept shows that  *)
(* such a step keeps the invariant.                                        *)
(***************************************************************************)
EXTENDS TerminalSessionProofs

-----------------------------------------------------------------------------
(* The checkpoint exchange *)

\* What an end has yet to handle: the frame in its process slot, then the
\* substream.
Incoming(e) == IF proc[e] = NoFrame THEN frames[e] ELSE <<proc[e]>> \o frames[e]

\* A substream holds no frame of a kind, or at most one and that with a given
\* body.
None(q, k) == \A i \in 1..Len(q) : q[i].kind # k
Lone(q, k, b) ==
    \A i \in 1..Len(q) : q[i].kind = k =>
        q[i].body = b /\ \A j \in 1..Len(q) : q[j].kind = k => i = j

\* A checkpoint is on its way, or its acknowledgement is, or neither; without
\* a pending exchange the peer has received the last one.  o has sent it, p
\* receives it, to leads there and back returns.
Agreed(o, p, to, back) ==
    LET sent     == o.s.sent
        received == p.s.received.sequence
    IN  /\ o.s.next = sent.sequence + 1
        /\ IF o.awaiting
           THEN /\ Lone(to, "checkpoint", sent) /\ Lone(back, "ack", sent)
                /\ None(to, "checkpoint") \/ (None(back, "ack") /\ sent.sequence = received + 1)
                /\ None(back, "ack") \/ sent.sequence = received
           ELSE None(to, "checkpoint") /\ None(back, "ack") /\ sent.sequence = received

\* The exchange of the checkpoints of e.
Exchange(e) == Agreed(obs[e], obs[Peer(e)], Incoming(Peer(e)), Incoming(e))

\* The stages after the barrier, and from it on.
Late == {"final", "manifest", "footer", "done"}
Past == Late \cup {"barrier"}

\* The history has a close in it.
Shut(h) == \E i \in 1..Len(h) : \E r \in Reasons : h[i] = <<"close", r>>
HasFailed(e) == obs[e].s.phase = "Failed"

\* The close is recorded at the barrier, the final checkpoint covers it, and
\* only a peer behind its own barrier takes it for the final one.
Finals(e) ==
    LET p == Peer(e)
    IN  /\ stage[e] \notin Late => ~Shut(obs[e].s.control)
        /\ Behind(e) \/ fin[e].sent => Shut(obs[e].s.control)
        /\ fin[e].sent => stage[e] \in Late /\ obs[e].s.sent.snapshot = Snapshot(obs[e].s)
        /\ ~None(Incoming(p), "checkpoint") /\ Shut(obs[e].s.sent.snapshot[3]) => fin[e].sent
        /\ fin[e].seen => /\ stage[e] \in Late /\ fin[p].sent
                          /\ Snapshot(obs[p].s) = Snapshot(obs[e].s)
        /\ fin[e].own # NoManifest => fin[e].sent /\ fin[e].seen /\ ~obs[e].awaiting
        /\ fin[p].sent /\ obs[e].s.received.sequence = obs[p].s.sent.sequence =>
              /\ stage[e] \in Late
              /\ fin[e].seen \/ stage[e] = "done" \/ Snapshot(obs[e].s) # Snapshot(obs[p].s)

\* An acknowledgement before every manifest.
AckLeads(q) ==
    \E i \in 1..Len(q) :
        /\ q[i].kind = "ack"
        /\ \A j \in 1..Len(q) : q[j].kind \in {"manifest", "signature"} => i < j

\* Once the peer has taken an end's final checkpoint, the acknowledgement comes
\* before the peer's manifest.
AckFirst(e) ==
    fin[Peer(e)].seen /\ obs[e].awaiting =>
        \/ stage[e] = "done"
        \/ ~connected /\ Pairs(frames[e]) = {}
        \/ AckLeads(Incoming(e))

\* The close notice of the controller.
Notice(f) == f.kind = "notice" /\ f.body # "AuditFailure"

\* The host needs no notice any more.
Noticed == stage[Host] \in Past \/ HasFailed(Host) \/ reason[Host] # "none"

\* The host has the notice before the i-th frame, or will never need it.
AfterNotice(i) ==
    Noticed \/ \E j \in 1..Len(Incoming(Host)) : j < i /\ Notice(Incoming(Host)[j])

\* The controller is behind its notice.
Told == stage[Controller] \in Past \/ HasFailed(Controller)

\* A checkpoint that covers a close.
Closed(f) == f.kind = "checkpoint" /\ Shut(f.body.snapshot[3])

\* The slots are empty behind the pumps, and who sends the notice.
Roles ==
    /\ \A e \in Ends : stage[e] \notin {"active", "closing"} => proc[e] = NoFrame
    /\ stage[Host] # "notice" /\ stage[Controller] # "receiver"
    /\ stage[Controller] = "notice" => reason[Controller] \notin {"none", "AuditFailure"}

\* The host closes only after the controller.
HostFollows ==
    /\ reason[Host] # "none" =>
          /\ stage[Host] \notin {"active", "receiver"} /\ Told
          /\ stage[Host] = "closing" => proc[Host] = NoFrame
    /\ stage[Host] = "barrier" \/ Behind(Host) => Told
    /\ \A i \in 1..Len(Incoming(Controller)) : Closed(Incoming(Controller)[i]) => Told

\* The notice comes before the controller's final checkpoint.
NoticeLeads ==
    /\ \A i \in 1..Len(Incoming(Host)) :
         /\ Incoming(Host)[i].kind = "notice" => Told /\ Incoming(Host)[i].body # "none"
         /\ Closed(Incoming(Host)[i]) => AfterNotice(i)
    /\ stage[Controller] \in {"barrier", "final"} /\ connected =>
          AfterNotice(Len(Incoming(Host)) + 1)

CloseOrder == Roles /\ HostFollows /\ NoticeLeads

\* The errors that only a dishonest peer may cause.
Spurious == {"CheckpointMismatch", "OutOfOrder"}

\* The invariant of the exchange between honest ends.
MxInv ==
    /\ \A e \in Ends : Exchange(e) /\ Finals(e) /\ AckFirst(e)
    /\ CloseOrder
    /\ raised \cap Spurious = {}

MismatchInv == "foreign" \in did.faults \/ MxInv

-----------------------------------------------------------------------------
(* Frames on their way *)

\* No more checkpoints and acknowledgements than before.
Fewer(q, r) ==
    \A k \in {"checkpoint", "ack"} :
        /\ None(q, k) => None(r, k)
        /\ \A b : Lone(q, k, b) => Lone(r, k, b)

\* Taking the first frame off a substream.
LEMMA DropFacts ==
    ASSUME NEW S, NEW q \in Seq(S), q # <<>>
    PROVE  /\ Tail(q) \in Seq(S) /\ Len(q) \in Nat /\ Len(Tail(q)) = Len(q) - 1
           /\ 1 \in 1..Len(q) /\ q[1] = Head(q) /\ Head(q) \in S
           /\ \A i \in 1..Len(Tail(q)) : i + 1 \in 1..Len(q) /\ Tail(q)[i] = q[i + 1]
           /\ \A i \in 1..Len(q) : i # 1 => i - 1 \in 1..Len(Tail(q)) /\ Tail(q)[i - 1] = q[i]
  OBVIOUS

\* Writing to a substream.
LEMMA JoinFacts ==
    ASSUME NEW S, NEW q \in Seq(S), NEW r \in Seq(S)
    PROVE  /\ q \o r \in Seq(S) /\ Len(q \o r) = Len(q) + Len(r) /\ Len(q) \in Nat /\ Len(r) \in Nat
           /\ \A i \in 1..Len(q) : i \in 1..Len(q \o r) /\ (q \o r)[i] = q[i]
           /\ \A i \in 1..Len(r) : Len(q) + i \in 1..Len(q \o r) /\ (q \o r)[Len(q) + i] = r[i]
           /\ \A i \in 1..Len(q \o r) : i \notin 1..Len(q) =>
                 i - Len(q) \in 1..Len(r) /\ (q \o r)[i] = r[i - Len(q)] /\ Len(q) < i
  OBVIOUS

\* Writing twice.
LEMMA JoinAgain ==
    ASSUME NEW S, NEW q \in Seq(S), NEW r \in Seq(S), NEW t \in Seq(S)
    PROVE  (q \o r) \o t = q \o (r \o t)
  OBVIOUS

\* The slot in front of a substream.
LEMMA SlotFirst ==
    ASSUME NEW S, NEW q \in Seq(S), NEW x \in S
    PROVE  /\ <<x>> \o q \in Seq(S) /\ <<x>> \o q # <<>> /\ Head(<<x>> \o q) = x
           /\ Tail(<<x>> \o q) = q /\ (<<x>> \o q)[1] = x
           /\ \A r \in Seq(S) : (<<x>> \o q) \o r = <<x>> \o (q \o r)
  OBVIOUS

\* What taking and writing frames does to the number of a kind.
LEMMA FewerFacts ==
    ASSUME NEW S, NEW q \in Seq(S)
    PROVE  /\ Fewer(q, q) /\ Fewer(q, <<>>)
           /\ q # <<>> => Fewer(q, Tail(q))
           /\ \A r \in Seq(S) : None(r, "checkpoint") /\ None(r, "ack") => Fewer(q, q \o r)
           /\ \A x \in S : Fewer(<<x>> \o q, <<x>>)
  <1>1. Fewer(q, q) /\ Fewer(q, <<>>)
    BY DEF Fewer, None, Lone
  <1>2. ASSUME q # <<>>
        PROVE  Fewer(q, Tail(q))
    <2>1. PICK t : t = Tail(q)
      OBVIOUS
    <2>2. \A i \in 1..Len(t) : i + 1 \in 1..Len(q) /\ t[i] = q[i + 1] /\ i \in Int
      BY <1>2, <2>1, DropFacts
    <2>3. \A k : None(q, k) => None(t, k)
      BY <2>2 DEF None
    <2>4. \A k, b : Lone(q, k, b) => Lone(t, k, b)
      <3>1. ASSUME NEW k, NEW b, Lone(q, k, b), NEW i \in 1..Len(t), t[i].kind = k
            PROVE  t[i].body = b /\ \A j \in 1..Len(t) : t[j].kind = k => i = j
        <4>1. i + 1 \in 1..Len(q) /\ q[i + 1].kind = k /\ t[i] = q[i + 1] /\ i \in Int
          BY <2>2, <3>1
        <4>2. q[i + 1].body = b /\ \A j \in 1..Len(q) : q[j].kind = k => i + 1 = j
          BY <3>1, <4>1 DEF Lone
        <4>3. ASSUME NEW j \in 1..Len(t), t[j].kind = k
              PROVE  i = j
          <5>1. j + 1 \in 1..Len(q) /\ q[j + 1].kind = k /\ j \in Int
            BY <2>2, <4>3
          <5>2. i + 1 = j + 1
            BY <4>2, <5>1
          <5> QED  BY <4>1, <5>1, <5>2
        <4> QED  BY <4>1, <4>2, <4>3
      <3> QED  BY <3>1 DEF Lone
    <2> QED  BY <2>1, <2>3, <2>4 DEF Fewer
  <1>3. ASSUME NEW r \in Seq(S), None(r, "checkpoint"), None(r, "ack")
        PROVE  Fewer(q, q \o r)
    <2>1. PICK t : t = q \o r
      OBVIOUS
    <2>2. /\ \A i \in 1..Len(q) : t[i] = q[i]
          /\ \A i \in 1..Len(t) : i \notin 1..Len(q) => i - Len(q) \in 1..Len(r) /\ t[i] = r[i - Len(q)]
      BY <2>1, JoinFacts
    <2>3. ASSUME NEW k \in {"checkpoint", "ack"}, NEW i \in 1..Len(t), t[i].kind = k
          PROVE  i \in 1..Len(q) /\ q[i].kind = k /\ t[i] = q[i]
      BY <1>3, <2>2, <2>3 DEF None
    <2>4. \A k \in {"checkpoint", "ack"} : None(q, k) => None(t, k)
      BY <2>3 DEF None
    <2>5. \A k \in {"checkpoint", "ack"} : \A b : Lone(q, k, b) => Lone(t, k, b)
      BY <2>3 DEF Lone
    <2> QED  BY <2>1, <2>4, <2>5 DEF Fewer
  <1>4. ASSUME NEW x \in S
        PROVE  Fewer(<<x>> \o q, <<x>>)
    <2>1. PICK t : t = <<x>> \o q
      OBVIOUS
    <2>2. PICK y : y = <<x>>
      OBVIOUS
    <2>3. Len(y) = 1 /\ y[1] = x /\ 1 \in 1..Len(t) /\ t[1] = x
      <3>1. Len(<<x>>) = 1 /\ <<x>>[1] = x /\ <<x>> \in Seq(S)
        OBVIOUS
      <3> QED  BY <2>1, <2>2, <3>1, JoinFacts
    <2> QED  BY <2>1, <2>2, <2>3 DEF Fewer, None, Lone
  <1> QED  BY <1>1, <1>2, <1>3, <1>4

\* The only frame of its kind is taken off.
LEMMA LoneTaken ==
    ASSUME NEW S, NEW q \in Seq(S), q # <<>>, NEW b, Lone(q, Head(q).kind, b)
    PROVE  Head(q).body = b /\ None(Tail(q), Head(q).kind)
  <1>1. PICK t : t = Tail(q)
    OBVIOUS
  <1>2. PICK k : k = Head(q).kind
    OBVIOUS
  <1>3. /\ 1 \in 1..Len(q) /\ q[1] = Head(q)
        /\ \A i \in 1..Len(t) : i + 1 \in 1..Len(q) /\ t[i] = q[i + 1] /\ i \in Int /\ i + 1 # 1
    BY <1>1, DropFacts
  <1>4. q[1].kind = k
    BY <1>2, <1>3
  <1>5. q[1].body = b /\ \A j \in 1..Len(q) : q[j].kind = k => 1 = j
    BY <1>2, <1>3, <1>4 DEF Lone
  <1> QED  BY <1>1, <1>2, <1>3, <1>5 DEF None

\* The only frame of its kind is written.
LEMMA LoneWritten ==
    ASSUME NEW S, NEW q \in Seq(S), NEW r \in Seq(S), NEW k, NEW b, None(q, k), Lone(r, k, b)
    PROVE  Lone(q \o r, k, b)
  <1>1. PICK t : t = q \o r
    OBVIOUS
  <1>2. /\ \A i \in 1..Len(q) : t[i] = q[i]
        /\ \A i \in 1..Len(t) : i \notin 1..Len(q) =>
              i - Len(q) \in 1..Len(r) /\ t[i] = r[i - Len(q)] /\ i \in Int /\ Len(q) \in Int
    BY <1>1, JoinFacts
  <1>3. ASSUME NEW i \in 1..Len(t), t[i].kind = k
        PROVE  i - Len(q) \in 1..Len(r) /\ r[i - Len(q)].kind = k /\ t[i] = r[i - Len(q)] /\ i \in Int /\ Len(q) \in Int
    BY <1>2, <1>3 DEF None
  <1>4. ASSUME NEW i \in 1..Len(t), t[i].kind = k, NEW j \in 1..Len(t), t[j].kind = k
        PROVE  t[i].body = b /\ i = j
    <2>1. i - Len(q) = j - Len(q) /\ t[i].body = b
      BY <1>3, <1>4 DEF Lone
    <2> QED  BY <1>3, <1>4, <2>1
  <1> QED  BY <1>1, <1>4 DEF Lone

-----------------------------------------------------------------------------
(* One exchange *)

\* What an exchange depends on in an observer.
Cp(o) == <<o.s.next, o.s.sent, o.s.received, o.awaiting>>

\* Frames are lost or read without effect, others are written.
LEMMA AgreedFewer ==
    ASSUME NEW o, NEW p, NEW to, NEW back, Agreed(o, p, to, back),
           NEW n, NEW m, n.s.next = o.s.next, n.s.sent = o.s.sent, n.awaiting = o.awaiting,
           m.s.received = p.s.received,
           NEW t, NEW b, Fewer(to, t), Fewer(back, b)
    PROVE  Agreed(n, m, t, b)
  <1>1. /\ None(to, "checkpoint") => None(t, "checkpoint")
        /\ Lone(to, "checkpoint", o.s.sent) => Lone(t, "checkpoint", o.s.sent)
        /\ None(back, "ack") => None(b, "ack")
        /\ Lone(back, "ack", o.s.sent) => Lone(b, "ack", o.s.sent)
    BY DEF Fewer
  <1> QED  BY <1>1 DEF Agreed

\* send_due_checkpoint and the final checkpoint.
LEMMA AgreedSend ==
    ASSUME NEW S, NEW o, NEW p, NEW to \in Seq(S), NEW back, Agreed(o, p, to, back), ~o.awaiting,
           o.s.sent.sequence \in Nat, p.s.received.sequence \in Nat,
           NEW n, n.s.next = o.s.next + 1, n.s.sent.sequence = o.s.next, n.awaiting = TRUE,
           NEW r \in Seq(S), Lone(r, "checkpoint", n.s.sent)
    PROVE  Agreed(n, p, to \o r, back) /\ n.s.sent.sequence = p.s.received.sequence + 1
  <1>1. None(to, "checkpoint") /\ None(back, "ack") /\ o.s.sent.sequence = p.s.received.sequence
        /\ o.s.next = o.s.sent.sequence + 1
    BY DEF Agreed
  <1>2. Lone(to \o r, "checkpoint", n.s.sent)
    BY <1>1, LoneWritten
  <1>3. Lone(back, "ack", n.s.sent)
    BY <1>1 DEF None, Lone
  <1> QED  BY <1>1, <1>2, <1>3 DEF Agreed

\* receive_checkpoint: it is the one that was sent, and the next in order.
LEMMA AgreedTake ==
    ASSUME NEW S, NEW o, NEW p, NEW to \in Seq(S), NEW back \in Seq(S), Agreed(o, p, to, back),
           o.s.sent.sequence \in Nat, p.s.received.sequence \in Nat,
           to # <<>>, Head(to).kind = "checkpoint"
    PROVE  /\ Head(to).body = o.s.sent /\ o.awaiting /\ o.s.sent.sequence = p.s.received.sequence + 1
           /\ \A n, m : \A r \in Seq(S) :
                 /\ n.s.next = o.s.next /\ n.s.sent = o.s.sent /\ n.awaiting = o.awaiting
                 /\ m.s.received = Head(to).body /\ Lone(r, "ack", Head(to).body)
                 => Agreed(n, m, Tail(to), back \o r)
  <1>1. ~None(to, "checkpoint")
    BY DropFacts DEF None
  <1>2. /\ o.awaiting /\ None(back, "ack") /\ o.s.sent.sequence = p.s.received.sequence + 1
        /\ Lone(to, "checkpoint", o.s.sent) /\ o.s.next = o.s.sent.sequence + 1
    BY <1>1 DEF Agreed
  <1>3. Head(to).body = o.s.sent /\ None(Tail(to), "checkpoint")
    BY <1>2, LoneTaken
  <1>4. ASSUME NEW n, NEW m, NEW r \in Seq(S),
               n.s.next = o.s.next, n.s.sent = o.s.sent, n.awaiting = o.awaiting,
               m.s.received = Head(to).body, Lone(r, "ack", Head(to).body)
        PROVE  Agreed(n, m, Tail(to), back \o r)
    <2>1. Lone(back \o r, "ack", o.s.sent)
      BY <1>2, <1>3, <1>4, LoneWritten
    <2>2. Lone(Tail(to), "checkpoint", o.s.sent)
      BY <1>3 DEF None, Lone
    <2> QED  BY <1>2, <1>3, <1>4, <2>1, <2>2 DEF Agreed
  <1> QED  BY <1>2, <1>3, <1>4

\* receive_ack: it repeats the checkpoint that is pending.
LEMMA AgreedAck ==
    ASSUME NEW S, NEW o, NEW p, NEW to \in Seq(S), NEW back \in Seq(S), Agreed(o, p, to, back),
           o.s.sent.sequence \in Nat, p.s.received.sequence \in Nat,
           back # <<>>, Head(back).kind = "ack"
    PROVE  /\ Head(back).body = o.s.sent /\ o.awaiting
           /\ \A n, m, t :
                 /\ n.s.next = o.s.next /\ n.s.sent = o.s.sent /\ n.awaiting = FALSE
                 /\ m.s.received = p.s.received /\ Fewer(to, t)
                 => Agreed(n, m, t, Tail(back))
  <1>1. ~None(back, "ack")
    BY DropFacts DEF None
  <1>2. /\ o.awaiting /\ None(to, "checkpoint") /\ o.s.sent.sequence = p.s.received.sequence
        /\ Lone(back, "ack", o.s.sent) /\ o.s.next = o.s.sent.sequence + 1
    BY <1>1 DEF Agreed
  <1>3. Head(back).body = o.s.sent /\ None(Tail(back), "ack")
    BY <1>2, LoneTaken
  <1>4. ASSUME NEW n, NEW m, NEW t, n.s.next = o.s.next, n.s.sent = o.s.sent, n.awaiting = FALSE,
               m.s.received = p.s.received, Fewer(to, t)
        PROVE  Agreed(n, m, t, Tail(back))
    <2>1. None(t, "checkpoint")
      BY <1>2, <1>4 DEF Fewer
    <2> QED  BY <1>2, <1>3, <1>4, <2>1 DEF Agreed
  <1> QED  BY <1>2, <1>3, <1>4

-----------------------------------------------------------------------------
(* The frames one step takes and writes *)

\* End e takes the first frame it has to handle, or none, and writes S.
Turn(e, taken, S) ==
    /\ S \in Seq(AllFrames)
    /\ IF taken THEN Incoming(e) # <<>> /\ Incoming(e)' = Tail(Incoming(e))
                ELSE Incoming(e)' = Incoming(e)
    /\ Incoming(Peer(e))' = Incoming(Peer(e)) \o S

\* What of S reaches the substream.
Reaches(S) == IF connected THEN S ELSE <<>>

\* The frames an end has to handle are frames, the one in the slot first.
LEMMA IncomingFacts ==
    ASSUME TsTypes, NEW e \in Ends
    PROVE  /\ Incoming(e) \in Seq(AllFrames) /\ frames[e] \in Seq(AllFrames)
           /\ proc[e] = NoFrame => Incoming(e) = frames[e]
           /\ proc[e] # NoFrame =>
                /\ Incoming(e) # <<>> /\ Head(Incoming(e)) = proc[e] /\ Tail(Incoming(e)) = frames[e]
                /\ proc[e] \in AllFrames
  <1> HIDE DEF AllFrames
  <1>1. frames[e] \in Seq(AllFrames) /\ proc[e] \in AllFrames \cup {NoFrame}
    BY DEF TsTypes
  <1>2. CASE proc[e] = NoFrame
    BY <1>1, <1>2 DEF Incoming
  <1>3. CASE proc[e] # NoFrame
    <2>1. proc[e] \in AllFrames /\ Incoming(e) = <<proc[e]>> \o frames[e]
      BY <1>1, <1>3 DEF Incoming
    <2> QED  BY <1>1, <1>3, <2>1, SlotFirst
  <1> QED  BY <1>2, <1>3

\* Writing to a substream, once and again.
LEMMA PostedTo ==
    ASSUME NEW e \in Ends, NEW f \in [Ends -> Seq(AllFrames)], NEW S \in Seq(AllFrames)
    PROVE  /\ Posted(f, e, S) \in [Ends -> Seq(AllFrames)]
           /\ Posted(f, e, S)[e] = f[e] /\ Posted(f, e, S)[Peer(e)] = f[Peer(e)] \o Reaches(S)
           /\ Reaches(S) \in Seq(AllFrames)
           /\ \A R \in Seq(AllFrames) : Posted(Posted(f, e, S), e, R) = Posted(f, e, S \o R)
           /\ Posted(f, e, <<>>) = f
  <1> HIDE DEF AllFrames
  <1>1. PICK p : p = Peer(e)
    OBVIOUS
  <1>2. p \in Ends /\ p # e /\ Ends = {e, p}
    <2>1. e \in {Controller, Host}
      BY DEF Ends
    <2> QED  BY <1>1, <2>1, EndFacts
  <1>3. PICK h \in Seq(AllFrames) : h = f[p]
    BY <1>2
  <1>4. PICK r \in Seq(AllFrames) : r = h \o S
    BY JoinFacts
  <1>5. CASE connected
    <2>1. Posted(f, e, S) = [f EXCEPT ![p] = r]
      BY <1>1, <1>3, <1>4, <1>5 DEF Posted
    <2>2. /\ [f EXCEPT ![p] = r] \in [Ends -> Seq(AllFrames)]
          /\ [f EXCEPT ![p] = r][e] = f[e] /\ [f EXCEPT ![p] = r][p] = r
      BY <1>2
    <2>3. ASSUME NEW R \in Seq(AllFrames)
          PROVE  Posted(Posted(f, e, S), e, R) = Posted(f, e, S \o R)
      <3>1. r \o R = h \o (S \o R)
        BY <1>4, JoinAgain
      <3>2. PICK t : t = r \o R
        OBVIOUS
      <3>3. Posted(Posted(f, e, S), e, R) = [[f EXCEPT ![p] = r] EXCEPT ![p] = t]
        BY <1>1, <1>5, <2>1, <2>2, <3>2 DEF Posted
      <3>4. Posted(f, e, S \o R) = [f EXCEPT ![p] = t]
        BY <1>1, <1>3, <1>5, <3>1, <3>2 DEF Posted
      <3>5. [[f EXCEPT ![p] = r] EXCEPT ![p] = t] = [f EXCEPT ![p] = t]
        BY <1>2
      <3> QED  BY <3>3, <3>4, <3>5
    <2>4. Posted(f, e, <<>>) = f
      <3>1. h \o <<>> = h
        OBVIOUS
      <3>2. [f EXCEPT ![p] = f[p]] = f
        BY <1>2
      <3> QED  BY <1>1, <1>3, <1>5, <3>1, <3>2 DEF Posted
    <2> QED  BY <1>1, <1>3, <1>4, <1>5, <2>1, <2>2, <2>3, <2>4 DEF Reaches
  <1>6. CASE ~connected
    <2>1. \A g, R : Posted(g, e, R) = g
      BY <1>6 DEF Posted
    <2>2. h \o <<>> = h /\ <<>> \in Seq(AllFrames)
      OBVIOUS
    <2> QED  BY <1>1, <1>3, <1>6, <2>1, <2>2 DEF Reaches
  <1> QED  BY <1>5, <1>6

\* Incoming frames in the next state.
LEMMA IncomingNext ==
    ASSUME NEW e \in Ends
    PROVE  /\ Incoming(e)' = IF proc'[e] = NoFrame THEN frames'[e] ELSE <<proc'[e]>> \o frames'[e]
           /\ Incoming(Peer(e))' =
                 IF proc'[Peer(e)] = NoFrame THEN frames'[Peer(e)]
                 ELSE <<proc'[Peer(e)]>> \o frames'[Peer(e)]
  BY DEF Incoming, NoFrame, Peer

\* Writing to the peer leaves its slot alone.
LEMMA PeerTurn ==
    ASSUME TsTypes, NEW e \in Ends, NEW S \in Seq(AllFrames), proc'[Peer(e)] = proc[Peer(e)],
           frames'[Peer(e)] = frames[Peer(e)] \o S
    PROVE  Incoming(Peer(e))' = Incoming(Peer(e)) \o S
  <1> HIDE DEF AllFrames
  <1>1. PICK p \in Ends : p = Peer(e)
    BY EndFacts
  <1>2. frames[p] \in Seq(AllFrames) /\ proc[p] \in AllFrames \cup {NoFrame}
    BY DEF TsTypes
  <1>3. CASE proc[p] = NoFrame
    BY <1>1, <1>3, IncomingNext DEF Incoming
  <1>4. CASE proc[p] # NoFrame
    <2>1. proc[p] \in AllFrames
      BY <1>2, <1>4
    <2>2. (<<proc[p]>> \o frames[p]) \o S = <<proc[p]>> \o (frames[p] \o S)
      <3>1. PICK x \in AllFrames : x = proc[p]
        BY <2>1
      <3>2. PICK h \in Seq(AllFrames) : h = frames[p]
        BY <1>2
      <3>3. (<<x>> \o h) \o S = <<x>> \o (h \o S)
        BY SlotFirst
      <3> QED  BY <3>1, <3>2, <3>3
    <2>3. Incoming(Peer(e))' = <<proc[p]>> \o (frames[p] \o S)
      BY <1>1, <1>4, IncomingNext
    <2>4. Incoming(Peer(e)) = <<proc[p]>> \o frames[p]
      BY <1>1, <1>4 DEF Incoming
    <2> QED  BY <2>2, <2>3, <2>4
  <1> QED  BY <1>3, <1>4

\* A step that only writes.
LEMMA WriteTurn ==
    ASSUME TsTypes, NEW e \in Ends, NEW S \in Seq(AllFrames), UNCHANGED proc,
           frames' = Posted(frames, e, S)
    PROVE  Turn(e, FALSE, Reaches(S)) /\ frames'[e] = frames[e]
           /\ frames'[Peer(e)] = frames[Peer(e)] \o Reaches(S)
  <1> HIDE DEF AllFrames
  <1>1. frames \in [Ends -> Seq(AllFrames)]
    BY DEF TsTypes
  <1>2. /\ frames'[e] = frames[e] /\ frames'[Peer(e)] = frames[Peer(e)] \o Reaches(S)
        /\ Reaches(S) \in Seq(AllFrames)
    BY <1>1, PostedTo
  <1>3. Incoming(e)' = Incoming(e)
    BY <1>2, IncomingNext DEF Incoming
  <1>4. PICK R \in Seq(AllFrames) : R = Reaches(S)
    BY <1>2
  <1>5. Incoming(Peer(e))' = Incoming(Peer(e)) \o R
    BY <1>2, <1>4, PeerTurn
  <1> QED  BY <1>2, <1>3, <1>4, <1>5 DEF Turn

\* A step that touches no frame.
LEMMA StillTurn ==
    ASSUME TsTypes, NEW e \in Ends, UNCHANGED <<proc, frames>>
    PROVE  Turn(e, FALSE, <<>>)
  <1> HIDE DEF AllFrames
  <1>1. frames \in [Ends -> Seq(AllFrames)] /\ Peer(e) \in Ends
    BY EndFacts DEF TsTypes
  <1>2. Incoming(e)' = Incoming(e)
    BY IncomingNext DEF Incoming
  <1>3. <<>> \in Seq(AllFrames) /\ frames[Peer(e)] \o <<>> = frames[Peer(e)]
    BY <1>1
  <1>4. PICK R \in Seq(AllFrames) : R = <<>>
    BY <1>3
  <1>5. Incoming(Peer(e))' = Incoming(Peer(e)) \o R
    BY <1>3, <1>4, PeerTurn
  <1> QED  BY <1>2, <1>4, <1>5 DEF Turn

\* A step of the finalization that reads a frame and writes.
LEMMA ReadTurn ==
    ASSUME TsTypes, NEW e \in Ends, NEW S \in Seq(AllFrames), UNCHANGED proc, proc[e] = NoFrame,
           frames[e] # <<>>, frames' = Posted(Taken(e), e, S)
    PROVE  /\ Turn(e, TRUE, Reaches(S)) /\ Head(Incoming(e)) = Head(frames[e])
           /\ frames'[e] = Tail(frames[e]) /\ frames'[Peer(e)] = frames[Peer(e)] \o Reaches(S)
  <1> HIDE DEF AllFrames
  <1>1. frames \in [Ends -> Seq(AllFrames)] /\ Peer(e) \in Ends /\ Peer(e) # e
    BY EndFacts DEF TsTypes
  <1>2. PICK t \in Seq(AllFrames) : t = Tail(frames[e])
    BY <1>1, DropFacts
  <1>3. PICK g : g = [frames EXCEPT ![e] = t]
    OBVIOUS
  <1>4. g \in [Ends -> Seq(AllFrames)] /\ g[e] = t /\ g[Peer(e)] = frames[Peer(e)] /\ g = Taken(e)
    BY <1>1, <1>2, <1>3 DEF Taken
  <1>5. /\ frames'[e] = t /\ frames'[Peer(e)] = frames[Peer(e)] \o Reaches(S)
        /\ Reaches(S) \in Seq(AllFrames)
    <2>1. frames' = Posted(g, e, S)
      BY <1>4
    <2>2. /\ Posted(g, e, S)[e] = g[e] /\ Posted(g, e, S)[Peer(e)] = g[Peer(e)] \o Reaches(S)
          /\ Reaches(S) \in Seq(AllFrames)
      BY <1>4, PostedTo, ZenonT(30)
    <2> QED  BY <1>4, <2>1, <2>2
  <1>6. Incoming(e)' = t /\ Incoming(e) = frames[e]
    BY <1>5, IncomingNext DEF Incoming
  <1>7. PICK R \in Seq(AllFrames) : R = Reaches(S)
    BY <1>5
  <1>8. Incoming(Peer(e))' = Incoming(Peer(e)) \o R
    BY <1>5, <1>7, PeerTurn
  <1> QED  BY <1>2, <1>5, <1>6, <1>7, <1>8 DEF Turn

\* A pump handles the frame in its slot and writes.
LEMMA ProcessTurn ==
    ASSUME TsTypes, NEW e \in Ends, NEW S \in Seq(AllFrames), proc[e] # NoFrame,
           proc' = [proc EXCEPT ![e] = NoFrame], frames' = Posted(frames, e, S)
    PROVE  /\ Turn(e, TRUE, Reaches(S)) /\ Head(Incoming(e)) = proc[e] /\ proc[e] \in AllFrames
           /\ frames'[e] = frames[e] /\ frames'[Peer(e)] = frames[Peer(e)] \o Reaches(S)
  <1> HIDE DEF AllFrames
  <1>1. /\ frames \in [Ends -> Seq(AllFrames)] /\ proc \in [Ends -> AllFrames \cup {NoFrame}]
        /\ Peer(e) \in Ends /\ Peer(e) # e
    BY EndFacts DEF TsTypes
  <1>2. proc'[e] = NoFrame /\ proc'[Peer(e)] = proc[Peer(e)]
    BY <1>1
  <1>3. /\ frames'[e] = frames[e] /\ frames'[Peer(e)] = frames[Peer(e)] \o Reaches(S)
        /\ Reaches(S) \in Seq(AllFrames)
    BY <1>1, PostedTo
  <1>4. Incoming(e)' = frames[e]
    BY <1>2, <1>3, IncomingNext
  <1>5. Incoming(e) # <<>> /\ Head(Incoming(e)) = proc[e] /\ Tail(Incoming(e)) = frames[e] /\ proc[e] \in AllFrames
    BY IncomingFacts
  <1>6. PICK R \in Seq(AllFrames) : R = Reaches(S)
    BY <1>3
  <1>7. Incoming(Peer(e))' = Incoming(Peer(e)) \o R
    BY <1>2, <1>3, <1>6, PeerTurn
  <1> QED  BY <1>3, <1>4, <1>5, <1>6, <1>7 DEF Turn

\* A pump moves a frame into its slot.
LEMMA SlotTurn ==
    ASSUME TsTypes, NEW e \in Ends, AuditRead(e)
    PROVE  Turn(e, FALSE, <<>>)
  <1> HIDE DEF AllFrames
  <1>1. /\ frames \in [Ends -> Seq(AllFrames)] /\ proc \in [Ends -> AllFrames \cup {NoFrame}]
        /\ Peer(e) \in Ends /\ Peer(e) # e /\ frames[e] # <<>> /\ proc[e] = NoFrame
    BY EndFacts DEF TsTypes, AuditRead
  <1>2. PICK t : t = Tail(frames[e])
    OBVIOUS
  <1>3. PICK h \in AllFrames : h = Head(frames[e])
    BY <1>1, DropFacts
  <1>4. frames' = [frames EXCEPT ![e] = t] /\ proc' = [proc EXCEPT ![e] = h]
    BY <1>2, <1>3 DEF AuditRead, Taken
  <1>5. /\ frames'[e] = t /\ frames'[Peer(e)] = frames[Peer(e)]
        /\ proc'[e] = h /\ proc'[Peer(e)] = proc[Peer(e)]
    BY <1>1, <1>4
  <1>6. h # NoFrame
    BY <1>3 DEF AllFrames, NoFrame, Frame
  <1>7. <<h>> \o t = frames[e]
    <2>1. PICK q \in Seq(AllFrames) : q = frames[e] /\ q # <<>>
      BY <1>1
    <2>2. q = <<Head(q)>> \o Tail(q)
      BY <2>1
    <2> QED  BY <1>2, <1>3, <2>1, <2>2
  <1>8. Incoming(e)' = Incoming(e)
    BY <1>1, <1>5, <1>6, <1>7, IncomingNext DEF Incoming
  <1>9. <<>> \in Seq(AllFrames) /\ frames[Peer(e)] \o <<>> = frames[Peer(e)]
    BY <1>1
  <1>10. PICK R \in Seq(AllFrames) : R = <<>>
    BY <1>9
  <1>11. Incoming(Peer(e))' = Incoming(Peer(e)) \o R
    BY <1>5, <1>9, <1>10, PeerTurn
  <1> QED  BY <1>8, <1>10, <1>11 DEF Turn

-----------------------------------------------------------------------------
(* What a step does to the exchanges *)

\* No checkpoint or acknowledgement is built, handled or written.
Silent(e, S) == Cp(obs'[e]) = Cp(obs[e]) /\ None(S, "checkpoint") /\ None(S, "ack")

\* A checkpoint is built, and written or not.
Sending(e, taken, S) ==
    /\ ~taken /\ ~obs[e].awaiting /\ obs'[e].awaiting = TRUE
    /\ obs'[e].s.next = obs[e].s.next + 1 /\ obs'[e].s.sent = Checkpoint(obs[e].s)
    /\ obs'[e].s.received = obs[e].s.received
    /\ Lone(S, "checkpoint", obs'[e].s.sent) /\ None(S, "ack")

\* A checkpoint is received, and acknowledged or not.
Taking(e, taken, S) ==
    /\ taken /\ Head(Incoming(e)).kind = "checkpoint"
    /\ obs'[e].s.received = Head(Incoming(e)).body
    /\ obs'[e].s.next = obs[e].s.next /\ obs'[e].s.sent = obs[e].s.sent
    /\ obs'[e].awaiting = obs[e].awaiting
    /\ Lone(S, "ack", Head(Incoming(e)).body) /\ None(S, "checkpoint")

\* The acknowledgement of the pending checkpoint is received.
Acked(e, taken, S) ==
    /\ taken /\ Head(Incoming(e)).kind = "ack" /\ obs'[e].awaiting = FALSE
    /\ obs'[e].s.next = obs[e].s.next /\ obs'[e].s.sent = obs[e].s.sent
    /\ obs'[e].s.received = obs[e].s.received
    /\ None(S, "checkpoint") /\ None(S, "ack")

Exchanging(e, taken, S) ==
    Silent(e, S) \/ Sending(e, taken, S) \/ Taking(e, taken, S) \/ Acked(e, taken, S)

\* Sequence numbers are numbers.
LEMMA SequenceFacts ==
    ASSUME TsTypes, NEW e \in Ends
    PROVE  /\ obs[e].s.sent \in Checkpoints /\ obs[e].s.received \in Checkpoints
           /\ obs[e].s.sent.sequence \in Nat /\ obs[e].s.received.sequence \in Nat
           /\ obs[e].s.next \in Nat /\ obs[e].s \in Sessions /\ Sane(obs[e])
  <1>1. Sane(obs[e]) /\ obs[e] \in Observers
    BY DEF TsTypes
  <1>2. obs[e].s \in Sessions
    BY <1>1 DEF Observers
  <1>3. obs[e].s.sent \in Checkpoints /\ obs[e].s.received \in Checkpoints /\ obs[e].s.next \in Nat
    <2> HIDE DEF Checkpoints
    <2> QED  BY <1>2 DEF Sessions
  <1> QED  BY <1>1, <1>2, <1>3 DEF Checkpoints

\* Both exchanges survive a step of one end.
LEMMA ExchangeKept ==
    ASSUME TsTypes, NEW e \in Ends, Exchange(e), Exchange(Peer(e)), NEW taken \in BOOLEAN, NEW S,
           Turn(e, taken, S), obs'[Peer(e)] = obs[Peer(e)], Exchanging(e, taken, S)
    PROVE  Exchange(e)' /\ Exchange(Peer(e))'
  <1> HIDE DEF AllFrames
  <1>1. PICK p \in Ends : p = Peer(e) /\ Peer(p) = e
    BY EndFacts
  <1>2. PICK qe \in Seq(AllFrames) : qe = Incoming(e)
    BY IncomingFacts
  <1>3. PICK qp \in Seq(AllFrames) : qp = Incoming(Peer(e))
    BY <1>1, IncomingFacts
  <1>4. PICK a, b, c : a = obs[e] /\ b = obs[Peer(e)] /\ c = obs'[e]
    OBVIOUS
  <1>5. PICK ne : ne = Incoming(e)'
    OBVIOUS
  <1>6. PICK np : np = Incoming(Peer(e))'
    OBVIOUS
  <1>7. /\ S \in Seq(AllFrames) /\ np = qp \o S
        /\ taken => qe # <<>> /\ ne = Tail(qe)
        /\ ~taken => ne = qe
    BY <1>2, <1>3, <1>5, <1>6 DEF Turn
  <1>8. Agreed(a, b, qp, qe) /\ Agreed(b, a, qe, qp)
    <2>1. Agreed(a, b, qp, qe)
      BY <1>2, <1>3, <1>4 DEF Exchange
    <2>2. Agreed(obs[p], obs[Peer(p)], Incoming(Peer(p)), Incoming(p))
      BY <1>1 DEF Exchange
    <2>3. Agreed(b, a, qe, qp)
      BY <1>1, <1>2, <1>3, <1>4, <2>2
    <2> QED  BY <2>1, <2>3
  <1>9. SUFFICES Agreed(c, b, np, ne) /\ Agreed(b, c, ne, np)
    <2>1. Agreed(c, b, np, ne) => Exchange(e)'
      <3>1. Exchange(e)' <=> Agreed(obs'[e], obs'[Peer(e)], Incoming(Peer(e))', Incoming(e)')
        BY DEF Exchange, Peer
      <3> QED  BY <1>4, <1>5, <1>6, <3>1
    <2>2. Agreed(b, c, ne, np) => Exchange(Peer(e))'
      <3>1. Exchange(p)' <=> Agreed(obs'[p], obs'[Peer(p)], Incoming(Peer(p))', Incoming(p)')
        BY DEF Exchange, Peer
      <3>2. Incoming(Peer(p))' = ne
        BY <1>1, <1>5, IncomingNext
      <3>3. Incoming(p)' = np
        BY <1>1, <1>6, IncomingNext
      <3>4. Exchange(Peer(e))' <=> Exchange(p)'
        BY <1>1, EndFacts DEF Exchange, Peer, Incoming, NoFrame
      <3> QED  BY <1>1, <1>4, <3>1, <3>2, <3>3, <3>4
    <2> QED  BY <2>1, <2>2
  <1>10. /\ a.s.sent.sequence \in Nat /\ b.s.received.sequence \in Nat
         /\ b.s.sent.sequence \in Nat /\ a.s.received.sequence \in Nat
    BY <1>1, <1>4, SequenceFacts
  <1>11. Fewer(qe, ne)
    BY <1>7, FewerFacts
  <1>12. CASE Silent(e, S)
    <2>1. c.s.next = a.s.next /\ c.s.sent = a.s.sent /\ c.s.received = a.s.received /\ c.awaiting = a.awaiting
      BY <1>4, <1>12 DEF Silent, Cp
    <2>2. Fewer(qp, np)
      BY <1>7, <1>12, FewerFacts DEF Silent
    <2> QED  BY <1>8, <1>11, <2>1, <2>2, AgreedFewer
  <1>13. CASE Sending(e, taken, S)
    <2>1. /\ ~a.awaiting /\ c.awaiting = TRUE /\ c.s.next = a.s.next + 1
          /\ c.s.sent.sequence = a.s.next /\ c.s.received = a.s.received
          /\ Lone(S, "checkpoint", c.s.sent) /\ None(S, "ack") /\ ne = qe
      BY <1>4, <1>7, <1>13 DEF Sending, Checkpoint
    <2>2. Agreed(c, b, np, ne)
      BY <1>7, <1>8, <1>10, <2>1, AgreedSend
    <2>3. /\ None(qp, "ack") => None(np, "ack")
          /\ \A x : Lone(qp, "ack", x) => Lone(np, "ack", x)
      <3>1. /\ \A i \in 1..Len(qp) : np[i] = qp[i]
            /\ \A i \in 1..Len(np) : i \notin 1..Len(qp) => i - Len(qp) \in 1..Len(S) /\ np[i] = S[i - Len(qp)]
        BY <1>7, JoinFacts
      <3>2. ASSUME NEW i \in 1..Len(np), np[i].kind = "ack"
            PROVE  i \in 1..Len(qp) /\ np[i] = qp[i]
        BY <2>1, <3>1, <3>2 DEF None
      <3> QED  BY <3>2 DEF None, Lone
    <2>4. Agreed(b, c, ne, np)
      BY <1>8, <2>1, <2>3 DEF Agreed
    <2> QED  BY <2>2, <2>4
  <1>14. CASE Taking(e, taken, S)
    <2>1. /\ qe # <<>> /\ ne = Tail(qe) /\ Head(qe).kind = "checkpoint" /\ c.s.received = Head(qe).body
          /\ c.s.next = a.s.next /\ c.s.sent = a.s.sent /\ c.awaiting = a.awaiting
          /\ Lone(S, "ack", Head(qe).body) /\ None(S, "checkpoint")
      BY <1>2, <1>4, <1>7, <1>14 DEF Taking
    <2>2. Agreed(b, c, ne, np)
      BY <1>7, <1>8, <1>10, <2>1, AgreedTake
    <2>3. /\ None(qp, "checkpoint") => None(np, "checkpoint")
          /\ \A x : Lone(qp, "checkpoint", x) => Lone(np, "checkpoint", x)
      <3>1. /\ \A i \in 1..Len(qp) : np[i] = qp[i]
            /\ \A i \in 1..Len(np) : i \notin 1..Len(qp) => i - Len(qp) \in 1..Len(S) /\ np[i] = S[i - Len(qp)]
        BY <1>7, JoinFacts
      <3>2. ASSUME NEW i \in 1..Len(np), np[i].kind = "checkpoint"
            PROVE  i \in 1..Len(qp) /\ np[i] = qp[i]
        BY <2>1, <3>1, <3>2 DEF None
      <3> QED  BY <3>2 DEF None, Lone
    <2>4. None(qe, "ack") => None(ne, "ack")
      BY <1>11 DEF Fewer
    <2>5. \A x : Lone(qe, "ack", x) => Lone(ne, "ack", x)
      BY <1>11 DEF Fewer
    <2>6. Agreed(c, b, np, ne)
      BY <1>8, <2>1, <2>3, <2>4, <2>5 DEF Agreed
    <2> QED  BY <2>2, <2>6
  <1>15. CASE Acked(e, taken, S)
    <2>1. /\ qe # <<>> /\ ne = Tail(qe) /\ Head(qe).kind = "ack" /\ c.s.received = a.s.received
          /\ c.s.next = a.s.next /\ c.s.sent = a.s.sent /\ c.awaiting = FALSE
          /\ None(S, "checkpoint") /\ None(S, "ack")
      BY <1>2, <1>4, <1>7, <1>15 DEF Acked
    <2>2. Fewer(qp, np)
      BY <1>7, <2>1, FewerFacts
    <2>3. Agreed(c, b, np, ne)
      BY <1>8, <1>10, <2>1, <2>2, AgreedAck
    <2>4. Agreed(b, c, ne, np)
      BY <1>8, <1>11, <2>1, <2>2, AgreedFewer
    <2> QED  BY <2>3, <2>4
  <1> QED  BY <1>12, <1>13, <1>14, <1>15 DEF Exchanging

-----------------------------------------------------------------------------
(* What a step does to the final checkpoints *)

\* Every end but e is left alone.
Others(e) ==
    \A d \in Ends : d # e =>
        /\ obs'[d] = obs[d] /\ stage'[d] = stage[d] /\ reason'[d] = reason[d]
        /\ fin'[d] = fin[d] /\ proc'[d] = proc[d]

\* e goes on, and not back.
Forward(e) ==
    /\ stage[e] # "done"
    /\ stage[e] \in Late => stage'[e] \in Late
    /\ stage[e] \in Past => stage'[e] \in Past
    /\ connected' => connected

\* A close is recorded at the barrier or where the session ends.
Barred(e) ==
    /\ stage'[e] \notin Late => (Shut(obs'[e].s.control) => Shut(obs[e].s.control))
    /\ Behind(e)' => Behind(e) \/ Shut(obs'[e].s.control)

\* What becomes of e's final checkpoint and manifest.
FinalSent(e, S) ==
    /\ fin[e].sent => fin'[e].sent /\ obs'[e].s.sent = obs[e].s.sent
    /\ fin'[e].sent =>
          \/ fin[e].sent
          \/ /\ stage'[e] \in Late /\ obs'[e].s.sent.snapshot = Snapshot(obs'[e].s)
             /\ Shut(obs'[e].s.control)
             /\ obs'[e].s.sent.sequence # obs[Peer(e)].s.received.sequence
    /\ \/ obs'[e].s.sent = obs[e].s.sent /\ None(S, "checkpoint")
       \/ None(Incoming(Peer(e)), "checkpoint") /\ None(S, "checkpoint")
       \/ Shut(obs'[e].s.sent.snapshot[3]) => fin'[e].sent
    /\ fin'[e].own # NoManifest => fin'[e].sent /\ fin'[e].seen /\ ~obs'[e].awaiting

\* What becomes of the peer's final checkpoint.
FinalSeen(e) ==
    /\ fin[e].seen => fin'[e].seen
    /\ fin'[e].seen =>
          \/ fin[e].seen
          \/ /\ stage'[e] \in Late /\ fin[Peer(e)].sent
             /\ Snapshot(obs[Peer(e)].s) = Snapshot(obs'[e].s)
    /\ \/ obs'[e].s.received = obs[e].s.received
       \/ ~fin[Peer(e)].sent
       \/ /\ stage'[e] \in Late
          /\ fin'[e].seen \/ stage'[e] = "done" \/ Snapshot(obs'[e].s) # Snapshot(obs[Peer(e)].s)

\* A history that continues one with a close has it too.
LEMMA ShutFacts ==
    ASSUME NEW h \in Histories
    PROVE  /\ \A k \in Histories : Continued(h, k) /\ Shut(h) => Shut(k)
           /\ \A v \in Events : Shut(Append(h, v)) =>
                 Shut(h) \/ \E r \in Reasons : v = <<"close", r>>
           /\ \A r \in Reasons : Shut(Append(h, <<"close", r>>))
  <1> USE DEF Histories
  <1> HIDE DEF Events, Reasons
  <1>1. ASSUME NEW k \in Histories, Continued(h, k), Shut(h)
        PROVE  Shut(k)
    <2>1. \A i \in 1..Len(h) : i \in 1..Len(k) /\ k[i] = h[i]
      <3>1. Len(k) \in Nat /\ Len(h) \in Nat /\ Len(k) >= Len(h) /\ SubSeq(k, 1, Len(h)) = h
        BY <1>1 DEF Continued
      <3>2. \A i \in 1..Len(h) : SubSeq(k, 1, Len(h))[i] = k[i]
        BY <3>1
      <3> QED  BY <3>1, <3>2
    <2> QED  BY <1>1, <2>1 DEF Shut
  <1>2. ASSUME NEW v \in Events, Shut(Append(h, v))
        PROVE  Shut(h) \/ \E r \in Reasons : v = <<"close", r>>
    <2>1. PICK g : g = Append(h, v)
      OBVIOUS
    <2>2. /\ Len(g) = Len(h) + 1 /\ g[Len(h) + 1] = v /\ Len(h) \in Nat
          /\ \A i \in 1..Len(h) : g[i] = h[i]
      BY <2>1
    <2>3. PICK i \in 1..Len(g) : \E r \in Reasons : g[i] = <<"close", r>>
      BY <1>2, <2>1 DEF Shut
    <2>4. i = Len(h) + 1 \/ i \in 1..Len(h)
      BY <2>2
    <2> QED  BY <2>2, <2>3, <2>4 DEF Shut
  <1>3. ASSUME NEW r \in Reasons
        PROVE  Shut(Append(h, <<"close", r>>))
    <2>1. PICK v \in Events : v = <<"close", r>>
      BY EventFacts
    <2>2. PICK g : g = Append(h, v)
      OBVIOUS
    <2>3. Len(g) = Len(h) + 1 /\ g[Len(h) + 1] = v /\ Len(h) \in Nat
      BY <2>2
    <2>4. Len(h) + 1 \in 1..Len(g)
      BY <2>3
    <2> QED  BY <2>1, <2>2, <2>3, <2>4 DEF Shut
  <1> QED  BY <1>1, <1>2, <1>3

\* Behind the barrier, and after the end, the account stands.
LEMMA Frozen ==
    ASSUME TsInv, NEW e \in Ends, Advances(obs[e], obs'[e]), stage[e] \in Late, stage[e] # "done"
    PROVE  Snapshot(obs'[e].s) = Snapshot(obs[e].s) /\ obs'[e].s.control = obs[e].s.control
  <1>1. obs[e].s.phase = "Finalizing"
    BY DEF TsInv, Closes, Late
  <1> QED  BY <1>1 DEF Advances, Snapshot

\* A close once recorded stays so.
LEMMA ShutStays ==
    ASSUME TsTypes, NEW e \in Ends, Advances(obs[e], obs'[e]), Shut(obs[e].s.control)
    PROVE  Shut(obs'[e].s.control)
  <1>1. obs[e].s.control \in Histories
    BY SequenceFacts DEF Sessions
  <1>2. obs'[e].s.control \in Histories /\ Continued(obs[e].s.control, obs'[e].s.control)
    <2>1. Sane(obs'[e])
      BY DEF Advances
    <2> HIDE DEF Histories
    <2> QED  BY <2>1 DEF Sane, Observers, Sessions, Advances
  <1>3. PICK h \in Histories, k \in Histories : h = obs[e].s.control /\ k = obs'[e].s.control
    BY <1>1, <1>2
  <1> HIDE DEF Histories
  <1> QED  BY <1>2, <1>3, ShutFacts

\* The mover's own part.
LEMMA FinalsOwn ==
    ASSUME TsInv, NEW e \in Ends, Advances(obs[e], obs'[e]), Finals(e), Others(e), Forward(e), Barred(e),
           NEW S \in Seq(AllFrames), FinalSent(e, S), FinalSeen(e),
           Incoming(Peer(e))' = Incoming(Peer(e)) \o S
    PROVE  Finals(e)'
  <1> HIDE DEF AllFrames
  <1>1. PICK p \in Ends : p = Peer(e) /\ p # e
    BY EndFacts
  <1>2. TsTypes
    BY DEF TsInv
  <1>3. obs'[p] = obs[p] /\ stage'[p] = stage[p] /\ fin'[p] = fin[p]
    BY <1>1 DEF Others
  <1>4. PICK qp \in Seq(AllFrames) : qp = Incoming(Peer(e))
    BY <1>1, <1>2, IncomingFacts
  <1>5. None(qp, "checkpoint") /\ None(S, "checkpoint") => None(Incoming(Peer(e))', "checkpoint")
    BY <1>4, FewerFacts, JoinFacts DEF None
  <1>6. stage[e] \in Late => Snapshot(obs'[e].s) = Snapshot(obs[e].s) /\ obs'[e].s.control = obs[e].s.control
    BY Frozen DEF Forward
  <1>7. Shut(obs[e].s.control) => Shut(obs'[e].s.control)
    BY <1>2, ShutStays
  <1>8. stage'[e] \notin Late => ~Shut(obs'[e].s.control)
    BY DEF Finals, Barred, Forward
  <1>9. Behind(e)' \/ fin'[e].sent => Shut(obs'[e].s.control)
    BY <1>7 DEF Finals, Barred, FinalSent
  <1>10. fin'[e].sent => stage'[e] \in Late /\ obs'[e].s.sent.snapshot = Snapshot(obs'[e].s)
    BY <1>6 DEF Finals, FinalSent, Forward
  <1>11. ~None(Incoming(Peer(e))', "checkpoint") /\ Shut(obs'[e].s.sent.snapshot[3]) => fin'[e].sent
    BY <1>4, <1>5 DEF Finals, FinalSent
  <1>12. fin'[e].seen => /\ stage'[e] \in Late /\ fin[p].sent
                         /\ Snapshot(obs[p].s) = Snapshot(obs'[e].s)
    BY <1>1, <1>6 DEF Finals, FinalSeen, Forward
  <1>13. fin[p].sent /\ obs'[e].s.received.sequence = obs[p].s.sent.sequence =>
              /\ stage'[e] \in Late
              /\ fin'[e].seen \/ stage'[e] = "done" \/ Snapshot(obs'[e].s) # Snapshot(obs[p].s)
    BY <1>1, <1>6 DEF Finals, FinalSeen, Forward
  <1>14. fin'[e].own # NoManifest => fin'[e].sent /\ fin'[e].seen /\ ~obs'[e].awaiting
    BY DEF FinalSent
  <1>15. Finals(e)' <=>
           /\ stage'[e] \notin Late => ~Shut(obs'[e].s.control)
           /\ Behind(e)' \/ fin'[e].sent => Shut(obs'[e].s.control)
           /\ fin'[e].sent => stage'[e] \in Late /\ obs'[e].s.sent.snapshot = Snapshot(obs'[e].s)
           /\ ~None(Incoming(Peer(e))', "checkpoint") /\ Shut(obs'[e].s.sent.snapshot[3]) => fin'[e].sent
           /\ fin'[e].seen => /\ stage'[e] \in Late /\ fin'[p].sent
                              /\ Snapshot(obs'[p].s) = Snapshot(obs'[e].s)
           /\ fin'[e].own # NoManifest => fin'[e].sent /\ fin'[e].seen /\ ~obs'[e].awaiting
           /\ fin'[p].sent /\ obs'[e].s.received.sequence = obs'[p].s.sent.sequence =>
                 /\ stage'[e] \in Late
                 /\ fin'[e].seen \/ stage'[e] = "done" \/ Snapshot(obs'[e].s) # Snapshot(obs'[p].s)
    BY <1>1 DEF Finals, Peer
  <1> QED  BY <1>3, <1>8, <1>9, <1>10, <1>11, <1>12, <1>13, <1>14, <1>15

\* The other end's part.
LEMMA FinalsOther ==
    ASSUME TsInv, NEW e \in Ends, Advances(obs[e], obs'[e]), Finals(e), Finals(Peer(e)), Others(e), Forward(e),
           NEW S, FinalSent(e, S), Fewer(Incoming(e), Incoming(e)')
    PROVE  Finals(Peer(e))'
  <1>1. PICK p \in Ends : p = Peer(e) /\ p # e /\ Peer(p) = e
    BY EndFacts
  <1>2. obs'[p] = obs[p] /\ stage'[p] = stage[p] /\ fin'[p] = fin[p]
    BY <1>1 DEF Others
  <1>3. fin[e].sent => /\ Snapshot(obs'[e].s) = Snapshot(obs[e].s) /\ fin'[e].sent
                       /\ obs'[e].s.sent = obs[e].s.sent
    BY Frozen DEF Forward, Finals, FinalSent
  <1>4. None(Incoming(e), "checkpoint") => None(Incoming(e)', "checkpoint")
    BY DEF Fewer
  <1>5. Finals(p)
    BY <1>1
  <1>6. /\ stage[p] \notin Late => ~Shut(obs[p].s.control)
        /\ Behind(p) \/ fin[p].sent => Shut(obs[p].s.control)
        /\ fin[p].sent => stage[p] \in Late /\ obs[p].s.sent.snapshot = Snapshot(obs[p].s)
        /\ ~None(Incoming(e), "checkpoint") /\ Shut(obs[p].s.sent.snapshot[3]) => fin[p].sent
        /\ fin[p].seen => /\ stage[p] \in Late /\ fin[e].sent
                          /\ Snapshot(obs[e].s) = Snapshot(obs[p].s)
        /\ fin[p].own # NoManifest => fin[p].sent /\ fin[p].seen /\ ~obs[p].awaiting
        /\ fin[e].sent /\ obs[p].s.received.sequence = obs[e].s.sent.sequence =>
              /\ stage[p] \in Late
              /\ fin[p].seen \/ stage[p] = "done" \/ Snapshot(obs[p].s) # Snapshot(obs[e].s)
    BY <1>1, <1>5 DEF Finals
  <1>7. fin'[e].sent /\ obs[p].s.received.sequence = obs'[e].s.sent.sequence => fin[e].sent
    BY <1>1 DEF FinalSent
  <1>8. Behind(p)' <=> Behind(p)
    BY <1>2 DEF Behind
  <1>9. /\ fin[p].seen => fin'[e].sent /\ Snapshot(obs'[e].s) = Snapshot(obs[p].s)
        /\ fin'[e].sent /\ obs[p].s.received.sequence = obs'[e].s.sent.sequence =>
              /\ stage[p] \in Late
              /\ fin[p].seen \/ stage[p] = "done" \/ Snapshot(obs[p].s) # Snapshot(obs'[e].s)
    BY <1>3, <1>6, <1>7
  <1>10. Finals(p)' <=>
           /\ stage'[p] \notin Late => ~Shut(obs'[p].s.control)
           /\ Behind(p)' \/ fin'[p].sent => Shut(obs'[p].s.control)
           /\ fin'[p].sent => stage'[p] \in Late /\ obs'[p].s.sent.snapshot = Snapshot(obs'[p].s)
           /\ ~None(Incoming(e)', "checkpoint") /\ Shut(obs'[p].s.sent.snapshot[3]) => fin'[p].sent
           /\ fin'[p].seen => /\ stage'[p] \in Late /\ fin'[e].sent
                              /\ Snapshot(obs'[e].s) = Snapshot(obs'[p].s)
           /\ fin'[p].own # NoManifest => fin'[p].sent /\ fin'[p].seen /\ ~obs'[p].awaiting
           /\ fin'[e].sent /\ obs'[p].s.received.sequence = obs'[e].s.sent.sequence =>
                 /\ stage'[p] \in Late
                 /\ fin'[p].seen \/ stage'[p] = "done" \/ Snapshot(obs'[p].s) # Snapshot(obs'[e].s)
    BY <1>1, EndFacts DEF Finals, Peer, Incoming, NoFrame
  <1>11. Finals(p)'
    BY <1>2, <1>4, <1>6, <1>8, <1>9, <1>10
  <1>12. Finals(Peer(e))' <=> Finals(p)'
    BY <1>1 DEF Finals, Peer, Incoming, NoFrame, Behind
  <1> QED  BY <1>11, <1>12

-----------------------------------------------------------------------------
(* What a step does to acknowledgements and notices *)

\* The acknowledgement of a final checkpoint is not lost, and a new one is on
\* its way before a manifest.
Answered(e, taken) ==
    /\ fin[Peer(e)].seen /\ obs'[e].awaiting => obs[e].awaiting
    /\ taken /\ Head(Incoming(e)).kind = "ack" =>
          ~obs'[e].awaiting \/ stage'[e] = "done" \/ ~fin[Peer(e)].seen
    /\ Pairs(frames'[e]) \subseteq Pairs(frames[e])
    /\ ~connected => Pairs(frames'[Peer(e)]) \subseteq Pairs(frames[Peer(e)])
    /\ fin'[e].seen => fin[e].seen \/ AckLeads(Incoming(Peer(e))')

\* An acknowledgement stays in front, whatever is read before it or written.
LEMMA AckStays ==
    ASSUME NEW S, NEW q \in Seq(S), AckLeads(q)
    PROVE  /\ q # <<>> /\ Head(q).kind # "ack" => AckLeads(Tail(q))
           /\ \A r \in Seq(S) : AckLeads(q \o r)
  <1>1. PICK i \in 1..Len(q) :
          /\ q[i].kind = "ack"
          /\ \A j \in 1..Len(q) : q[j].kind \in {"manifest", "signature"} => i < j
    BY DEF AckLeads
  <1>2. ASSUME q # <<>>, Head(q).kind # "ack"
        PROVE  AckLeads(Tail(q))
    <2>1. PICK t : t = Tail(q)
      OBVIOUS
    <2>2. i # 1 /\ i - 1 \in 1..Len(t) /\ t[i - 1] = q[i] /\ i \in Int
      BY <1>1, <1>2, <2>1, DropFacts
    <2>3. ASSUME NEW j \in 1..Len(t), t[j].kind \in {"manifest", "signature"}
          PROVE  i - 1 < j
      <3>1. j + 1 \in 1..Len(q) /\ t[j] = q[j + 1] /\ j \in Int
        BY <1>2, <2>1, DropFacts
      <3>2. i < j + 1
        BY <1>1, <2>3, <3>1
      <3> QED  BY <2>2, <3>1, <3>2
    <2> QED  BY <1>1, <2>1, <2>2, <2>3 DEF AckLeads
  <1>3. ASSUME NEW r \in Seq(S)
        PROVE  AckLeads(q \o r)
    <2>1. PICK t : t = q \o r
      OBVIOUS
    <2>2. i \in 1..Len(t) /\ t[i] = q[i] /\ i \in Int
      BY <2>1, JoinFacts
    <2>3. ASSUME NEW j \in 1..Len(t), t[j].kind \in {"manifest", "signature"}
          PROVE  i < j
      <3>1. j \in 1..Len(q) => t[j] = q[j]
        BY <2>1, JoinFacts
      <3>2. j \notin 1..Len(q) => Len(q) < j /\ Len(q) \in Int /\ j \in Int
        BY <2>1, JoinFacts
      <3>3. i <= Len(q)
        BY <2>2
      <3> QED  BY <1>1, <2>2, <2>3, <3>1, <3>2, <3>3
    <2> QED  BY <1>1, <2>1, <2>2, <2>3 DEF AckLeads
  <1> QED  BY <1>2, <1>3

\* The mover's acknowledgement, and its peer's.
LEMMA AckFirstKept ==
    ASSUME TsTypes, NEW e \in Ends, AckFirst(e), AckFirst(Peer(e)), Others(e), Forward(e),
           NEW taken \in BOOLEAN, NEW S, Turn(e, taken, S), Answered(e, taken)
    PROVE  AckFirst(e)' /\ AckFirst(Peer(e))'
  <1> HIDE DEF AllFrames
  <1>1. PICK p \in Ends : p = Peer(e) /\ p # e /\ Peer(p) = e
    BY EndFacts
  <1>2. obs'[p] = obs[p] /\ stage'[p] = stage[p] /\ fin'[p] = fin[p]
    BY <1>1 DEF Others
  <1>3. PICK qe \in Seq(AllFrames) : qe = Incoming(e)
    BY IncomingFacts
  <1>4. PICK qp \in Seq(AllFrames) : qp = Incoming(Peer(e))
    BY <1>1, IncomingFacts
  <1>5. /\ S \in Seq(AllFrames) /\ Incoming(Peer(e))' = qp \o S
        /\ taken => qe # <<>> /\ Incoming(e)' = Tail(qe)
        /\ ~taken => Incoming(e)' = qe
    BY <1>3, <1>4 DEF Turn
  <1>6. AckFirst(e)'
    <2>1. AckFirst(e)' <=>
            (fin'[p].seen /\ obs'[e].awaiting =>
                \/ stage'[e] = "done"
                \/ ~connected' /\ Pairs(frames'[e]) = {}
                \/ AckLeads(Incoming(e)'))
      BY <1>1 DEF AckFirst, Peer
    <2>2. SUFFICES ASSUME fin[p].seen, obs'[e].awaiting, stage'[e] # "done"
                   PROVE  \/ ~connected' /\ Pairs(frames'[e]) = {}
                          \/ AckLeads(Incoming(e)')
      BY <1>2, <2>1
    <2>3. stage[e] = "done" \/ (~connected /\ Pairs(frames[e]) = {}) \/ AckLeads(qe)
      BY <1>1, <1>3, <2>2 DEF AckFirst, Answered
    <2>4. CASE ~connected /\ Pairs(frames[e]) = {}
      BY <2>4 DEF Forward, Answered
    <2>5. CASE AckLeads(qe)
      <3>1. taken => Head(qe).kind # "ack"
        BY <1>1, <1>3, <2>2 DEF Answered
      <3>2. taken => AckLeads(Tail(qe))
        BY <1>5, <2>5, <3>1, AckStays
      <3> QED  BY <1>5, <2>5, <3>2
    <2> QED  BY <2>3, <2>4, <2>5 DEF Forward
  <1>7. AckFirst(Peer(e))'
    <2>1. AckFirst(Peer(e))' <=>
            (fin'[e].seen /\ obs'[p].awaiting =>
                \/ stage'[p] = "done"
                \/ ~connected' /\ Pairs(frames'[p]) = {}
                \/ AckLeads(Incoming(Peer(e))'))
      <3>1. AckFirst(p)' <=>
            (fin'[e].seen /\ obs'[p].awaiting =>
                \/ stage'[p] = "done"
                \/ ~connected' /\ Pairs(frames'[p]) = {}
                \/ AckLeads(Incoming(p)'))
        BY <1>1, EndFacts DEF AckFirst, Peer
      <3>2. Incoming(p)' = Incoming(Peer(e))'
        BY <1>1 DEF Incoming, Peer, NoFrame
      <3>3. AckFirst(Peer(e))' <=> AckFirst(p)'
        BY <1>1 DEF AckFirst, Peer, Incoming, NoFrame
      <3> QED  BY <3>1, <3>2, <3>3
    <2>2. SUFFICES ASSUME fin'[e].seen, obs[p].awaiting, stage[p] # "done"
                   PROVE  \/ ~connected' /\ Pairs(frames'[p]) = {}
                          \/ AckLeads(Incoming(Peer(e))')
      BY <1>2, <2>1
    <2>3. SUFFICES ASSUME fin[e].seen
                   PROVE  \/ ~connected' /\ Pairs(frames'[p]) = {}
                          \/ AckLeads(Incoming(Peer(e))')
      BY <2>2 DEF Answered
    <2>4. (~connected /\ Pairs(frames[p]) = {}) \/ AckLeads(qp)
      BY <1>1, <1>4, <2>2, <2>3 DEF AckFirst
    <2>5. CASE ~connected /\ Pairs(frames[p]) = {}
      BY <1>1, <2>5 DEF Forward, Answered
    <2>6. CASE AckLeads(qp)
      BY <1>5, <2>6, AckStays
    <2> QED  BY <2>4, <2>5, <2>6
  <1> QED  BY <1>6, <1>7

\* The controller's stages and what it writes to the host.
OrderlyC(S) ==
    /\ stage'[Controller] \notin {"active", "closing"} => proc'[Controller] = NoFrame
    /\ stage'[Controller] # "receiver"
    /\ stage'[Controller] = "notice" => reason'[Controller] \notin {"none", "AuditFailure"}
    /\ \A i \in 1..Len(S) :
          /\ S[i].kind = "notice" => Told' /\ S[i].body # "none"
          /\ Closed(S[i]) => i = 1 /\ connected /\ stage[Controller] \in {"barrier", "final"}
    /\ stage'[Controller] \in {"barrier", "final"} =>
          \/ stage[Controller] \in {"barrier", "final"}
          \/ \E i \in 1..Len(S) : Notice(S[i])

\* The host's stages and what it reads.
OrderlyH(taken, S) ==
    /\ stage'[Host] \notin {"active", "closing"} => proc'[Host] = NoFrame
    /\ stage'[Host] # "notice"
    /\ reason[Host] # "none" => reason'[Host] # "none"
    /\ reason'[Host] # "none" =>
          /\ stage'[Host] \notin {"active", "receiver"} /\ Told
          /\ stage'[Host] = "closing" => proc'[Host] = NoFrame
    /\ stage'[Host] = "barrier" \/ Behind(Host)' => Told
    /\ \A i \in 1..Len(S) : Closed(S[i]) => Told
    /\ taken /\ Notice(Head(Incoming(Host))) => Noticed'

\* A step of the controller.
LEMMA CloseOrderC ==
    ASSUME TsTypes, CloseOrder, Advances(obs[Controller], obs'[Controller]),
           Others(Controller), Forward(Controller), NEW taken \in BOOLEAN, NEW S,
           Turn(Controller, taken, S), OrderlyC(S)
    PROVE  CloseOrder'
  <1> HIDE DEF AllFrames
  <1>1. /\ Controller \in Ends /\ Host \in Ends /\ Host # Controller /\ Peer(Controller) = Host
        /\ Ends = {Controller, Host}
    BY EndFacts
  <1>2. /\ obs'[Host] = obs[Host] /\ stage'[Host] = stage[Host] /\ reason'[Host] = reason[Host]
        /\ proc'[Host] = proc[Host]
    BY <1>1 DEF Others
  <1>3. Told => Told'
    BY DEF Told, HasFailed, Forward, Advances
  <1>4. Noticed' <=> Noticed
    BY <1>2 DEF Noticed, HasFailed
  <1>5. PICK qc \in Seq(AllFrames) : qc = Incoming(Controller)
    BY <1>1, IncomingFacts
  <1>6. PICK qh \in Seq(AllFrames) : qh = Incoming(Host)
    BY <1>1, IncomingFacts
  <1>7. PICK nc, nh : nc = Incoming(Controller)' /\ nh = Incoming(Host)'
    OBVIOUS
  <1>8. /\ S \in Seq(AllFrames) /\ nh = qh \o S
        /\ taken => qc # <<>> /\ nc = Tail(qc)
        /\ ~taken => nc = qc
    <2>1. Incoming(Peer(Controller))' = Incoming(Host)'
      BY <1>1 DEF Peer, Incoming, NoFrame
    <2> QED  BY <1>1, <1>5, <1>6, <1>7, <2>1 DEF Turn
  <1>9. /\ \A i \in 1..Len(qh) : i \in 1..Len(nh) /\ nh[i] = qh[i]
        /\ \A i \in 1..Len(S) : Len(qh) + i \in 1..Len(nh) /\ nh[Len(qh) + i] = S[i]
        /\ \A i \in 1..Len(nh) : i \notin 1..Len(qh) =>
              i - Len(qh) \in 1..Len(S) /\ nh[i] = S[i - Len(qh)] /\ Len(qh) < i
        /\ Len(nh) = Len(qh) + Len(S) /\ Len(qh) \in Nat /\ Len(S) \in Nat
    BY <1>8, JoinFacts
  <1>10. taken => /\ qc[1] = Head(qc) /\ Len(nc) = Len(qc) - 1 /\ Len(qc) \in Nat
                  /\ \A i \in 1..Len(nc) : i + 1 \in 1..Len(qc) /\ nc[i] = qc[i + 1]
                  /\ \A i \in 1..Len(qc) : i # 1 => i - 1 \in 1..Len(nc) /\ nc[i - 1] = qc[i]
    <2>1. ASSUME taken
          PROVE  qc # <<>> /\ nc = Tail(qc)
      BY <1>8, <2>1
    <2>2. qc # <<>> =>
             /\ qc[1] = Head(qc) /\ Len(Tail(qc)) = Len(qc) - 1 /\ Len(qc) \in Nat
             /\ \A i \in 1..Len(Tail(qc)) : i + 1 \in 1..Len(qc) /\ Tail(qc)[i] = qc[i + 1]
             /\ \A i \in 1..Len(qc) : i # 1 => i - 1 \in 1..Len(Tail(qc)) /\ Tail(qc)[i - 1] = qc[i]
      BY DropFacts
    <2> QED  BY <2>1, <2>2
  <1>11. Roles'
    <2>1. \A d \in Ends : stage'[d] \notin {"active", "closing"} => proc'[d] = NoFrame
      BY <1>1, <1>2 DEF CloseOrder, Roles, OrderlyC
    <2> QED  BY <1>2, <2>1 DEF CloseOrder, Roles, OrderlyC, NoFrame
  <1>12. HostFollows'
    <2>1. ASSUME NEW i \in 1..Len(nc), Closed(nc[i])
          PROVE  Told'
      <3>1. CASE taken
        <4>1. i + 1 \in 1..Len(qc) /\ nc[i] = qc[i + 1]
          BY <1>10, <2>1, <3>1
        <4> QED  BY <1>3, <1>5, <2>1, <4>1 DEF CloseOrder, HostFollows
      <3>2. CASE ~taken
        BY <1>3, <1>5, <1>8, <2>1, <3>2 DEF CloseOrder, HostFollows
      <3> QED  BY <3>1, <3>2
    <2>2. \A i \in 1..Len(Incoming(Controller)') : Closed(Incoming(Controller)'[i]) => Told'
      BY <1>7, <2>1
    <2>3. /\ reason'[Host] # "none" =>
                /\ stage'[Host] \notin {"active", "receiver"} /\ Told'
                /\ stage'[Host] = "closing" => proc'[Host] = NoFrame
          /\ stage'[Host] = "barrier" \/ Behind(Host)' => Told'
      BY <1>2, <1>3 DEF CloseOrder, HostFollows, Behind
    <2> QED  BY <2>2, <2>3 DEF HostFollows, NoFrame, Closed
  <1>13. NoticeLeads'
    <2> DEFINE After(q, i) == Noticed \/ \E j \in 1..Len(q) : j < i /\ Notice(q[j])
    <2>1. /\ \A i \in 1..Len(qh) :
               /\ qh[i].kind = "notice" => Told /\ qh[i].body # "none"
               /\ Closed(qh[i]) => After(qh, i)
          /\ stage[Controller] \in {"barrier", "final"} /\ connected => After(qh, Len(qh) + 1)
      BY <1>6 DEF CloseOrder, NoticeLeads, AfterNotice
    <2>2. \A i : After(qh, i) => After(nh, i)
      BY <1>9
    <2>3. \A i \in 1..Len(nh) : nh[i].kind = "notice" => Told' /\ nh[i].body # "none"
      BY <1>3, <1>9, <2>1 DEF OrderlyC
    <2>4. ASSUME NEW i \in 1..Len(nh), Closed(nh[i])
          PROVE  After(nh, i)
      <3>1. CASE i \in 1..Len(qh)
        BY <1>9, <2>1, <2>2, <2>4, <3>1
      <3>2. CASE i \notin 1..Len(qh)
        <4>1. i - Len(qh) = 1 /\ connected /\ stage[Controller] \in {"barrier", "final"}
          BY <1>9, <2>4, <3>2 DEF OrderlyC
        <4>2. i = Len(qh) + 1
          BY <1>9, <4>1
        <4> QED  BY <2>1, <2>2, <4>1, <4>2
      <3> QED  BY <3>1, <3>2
    <2>5. ASSUME stage'[Controller] \in {"barrier", "final"}, connected'
          PROVE  After(nh, Len(nh) + 1)
      <3>1. connected
        BY <2>5 DEF Forward
      <3>2. CASE stage[Controller] \in {"barrier", "final"}
        <4>1. After(qh, Len(qh) + 1)
          BY <2>1, <3>1, <3>2
        <4> QED  BY <1>9, <4>1, SMTT(30)
      <3>3. CASE \E i \in 1..Len(S) : Notice(S[i])
        <4>1. PICK i \in 1..Len(S) : Notice(S[i])
          BY <3>3
        <4>2. Len(qh) + i \in 1..Len(nh) /\ Notice(nh[Len(qh) + i]) /\ Len(qh) + i < Len(nh) + 1
          BY <1>9, <4>1
        <4> QED  BY <4>2
      <3> QED  BY <2>5, <3>2, <3>3 DEF OrderlyC
    <2>6. \A i : AfterNotice(i)' <=> After(nh, i)
      <3> SUFFICES ASSUME NEW i PROVE AfterNotice(i)' <=> After(nh, i)
        OBVIOUS
      <3>1. AfterNotice(i)' <=> (Noticed' \/ \E j \in 1..Len(Incoming(Host)') : j < i /\ Notice(Incoming(Host)'[j]))
        BY DEF AfterNotice, Notice
      <3> QED  BY <1>4, <1>7, <3>1
    <2>7. AfterNotice(Len(Incoming(Host)) + 1)' <=> After(nh, Len(nh) + 1)
      <3>1. AfterNotice(Len(Incoming(Host)) + 1)' <=>
               \/ Noticed'
               \/ \E j \in 1..Len(Incoming(Host)') :
                     j < Len(Incoming(Host)') + 1 /\ Notice(Incoming(Host)'[j])
        BY DEF AfterNotice, Notice
      <3> QED  BY <1>4, <1>7, <3>1
    <2> HIDE DEF After
    <2>8. /\ \A i \in 1..Len(Incoming(Host)') :
               /\ Incoming(Host)'[i].kind = "notice" => Told' /\ Incoming(Host)'[i].body # "none"
               /\ Closed(Incoming(Host)'[i]) => AfterNotice(i)'
          /\ stage'[Controller] \in {"barrier", "final"} /\ connected' =>
                AfterNotice(Len(Incoming(Host)) + 1)'
      BY <1>7, <2>3, <2>4, <2>5, <2>6, <2>7
    <2> QED  BY <2>8 DEF NoticeLeads, Closed
  <1> QED  BY <1>11, <1>12, <1>13 DEF CloseOrder

\* A step of the host.
LEMMA CloseOrderH ==
    ASSUME TsTypes, CloseOrder, Advances(obs[Host], obs'[Host]),
           Others(Host), Forward(Host), NEW taken \in BOOLEAN, NEW S,
           Turn(Host, taken, S), OrderlyH(taken, S)
    PROVE  CloseOrder'
  <1> HIDE DEF AllFrames
  <1>1. /\ Controller \in Ends /\ Host \in Ends /\ Host # Controller /\ Peer(Host) = Controller
        /\ Ends = {Controller, Host}
    BY EndFacts
  <1>2. /\ obs'[Controller] = obs[Controller] /\ stage'[Controller] = stage[Controller]
        /\ reason'[Controller] = reason[Controller] /\ proc'[Controller] = proc[Controller]
    BY <1>1 DEF Others
  <1>3. Told' <=> Told
    BY <1>2 DEF Told, HasFailed
  <1>4. Noticed => Noticed'
    BY DEF Noticed, HasFailed, Forward, Advances, OrderlyH
  <1>5. PICK qc \in Seq(AllFrames) : qc = Incoming(Controller)
    BY <1>1, IncomingFacts
  <1>6. PICK qh \in Seq(AllFrames) : qh = Incoming(Host)
    BY <1>1, IncomingFacts
  <1>7. PICK nc, nh : nc = Incoming(Controller)' /\ nh = Incoming(Host)'
    OBVIOUS
  <1>8. /\ S \in Seq(AllFrames) /\ nc = qc \o S
        /\ taken => qh # <<>> /\ nh = Tail(qh)
        /\ ~taken => nh = qh
    <2>1. Incoming(Peer(Host))' = Incoming(Controller)'
      BY <1>1 DEF Peer, Incoming, NoFrame
    <2> QED  BY <1>1, <1>5, <1>6, <1>7, <2>1 DEF Turn
  <1>9. taken => /\ qh[1] = Head(qh) /\ Len(nh) = Len(qh) - 1 /\ Len(qh) \in Nat
                 /\ \A i \in 1..Len(nh) : i + 1 \in 1..Len(qh) /\ nh[i] = qh[i + 1]
                 /\ \A i \in 1..Len(qh) : i # 1 => i - 1 \in 1..Len(nh) /\ nh[i - 1] = qh[i]
    <2>1. ASSUME taken
          PROVE  qh # <<>> /\ nh = Tail(qh)
      BY <1>8, <2>1
    <2>2. qh # <<>> =>
             /\ qh[1] = Head(qh) /\ Len(Tail(qh)) = Len(qh) - 1 /\ Len(qh) \in Nat
             /\ \A i \in 1..Len(Tail(qh)) : i + 1 \in 1..Len(qh) /\ Tail(qh)[i] = qh[i + 1]
             /\ \A i \in 1..Len(qh) : i # 1 => i - 1 \in 1..Len(Tail(qh)) /\ Tail(qh)[i - 1] = qh[i]
      BY DropFacts
    <2> QED  BY <2>1, <2>2
  <1>10. Roles'
    <2>1. \A d \in Ends : stage'[d] \notin {"active", "closing"} => proc'[d] = NoFrame
      BY <1>1, <1>2 DEF CloseOrder, Roles, OrderlyH
    <2> QED  BY <1>2, <2>1 DEF CloseOrder, Roles, OrderlyH, NoFrame
  <1>11. HostFollows'
    <2>1. ASSUME NEW i \in 1..Len(nc), Closed(nc[i])
          PROVE  Told
      <3>1. /\ i \in 1..Len(qc) => nc[i] = qc[i]
            /\ i \notin 1..Len(qc) => i - Len(qc) \in 1..Len(S) /\ nc[i] = S[i - Len(qc)]
        BY <1>8, JoinFacts
      <3> QED  BY <1>5, <2>1, <3>1 DEF CloseOrder, HostFollows, OrderlyH
    <2>2. \A i \in 1..Len(Incoming(Controller)') : Closed(Incoming(Controller)'[i]) => Told'
      BY <1>3, <1>7, <2>1
    <2>3. /\ reason'[Host] # "none" =>
                /\ stage'[Host] \notin {"active", "receiver"} /\ Told'
                /\ stage'[Host] = "closing" => proc'[Host] = NoFrame
          /\ stage'[Host] = "barrier" \/ Behind(Host)' => Told'
      BY <1>3 DEF OrderlyH
    <2> QED  BY <2>2, <2>3 DEF HostFollows, NoFrame, Closed
  <1>12. NoticeLeads'
    <2> DEFINE After(q, i) == Noticed' \/ \E j \in 1..Len(q) : j < i /\ Notice(q[j])
    <2>1. /\ \A i \in 1..Len(qh) :
               /\ qh[i].kind = "notice" => Told /\ qh[i].body # "none"
               /\ Closed(qh[i]) => After(qh, i)
          /\ stage[Controller] \in {"barrier", "final"} /\ connected => After(qh, Len(qh) + 1)
      BY <1>4, <1>6 DEF CloseOrder, NoticeLeads, AfterNotice
    <2>2. ASSUME taken, NEW i \in Int, After(qh, i + 1)
          PROVE  After(nh, i)
      <3>1. SUFFICES ASSUME ~Noticed'
                     PROVE  \E j \in 1..Len(nh) : j < i /\ Notice(nh[j])
        OBVIOUS
      <3>2. PICK j \in 1..Len(qh) : j < i + 1 /\ Notice(qh[j])
        BY <2>2, <3>1
      <3>3. j # 1
        <4>1. qh[1] = Head(qh)
          BY <1>9, <2>2
        <4> QED  BY <1>6, <2>2, <3>1, <3>2, <4>1 DEF OrderlyH
      <3>4. j - 1 \in 1..Len(nh) /\ nh[j - 1] = qh[j] /\ j \in Int
        BY <1>9, <2>2, <3>3
      <3> QED  BY <2>2, <3>2, <3>4
    <2>3. ASSUME NEW i \in 1..Len(nh)
          PROVE  /\ nh[i].kind = "notice" => Told /\ nh[i].body # "none"
                 /\ Closed(nh[i]) => After(nh, i)
      <3>1. CASE taken
        <4>1. i + 1 \in 1..Len(qh) /\ nh[i] = qh[i + 1] /\ i \in Int
          BY <1>9, <2>3, <3>1
        <4> HIDE DEF After
        <4> QED  BY <2>1, <2>2, <3>1, <4>1
      <3>2. CASE ~taken
        <4> HIDE DEF After
        <4> QED  BY <1>8, <2>1, <2>3, <3>2
      <3> QED  BY <3>1, <3>2
    <2>4. ASSUME stage'[Controller] \in {"barrier", "final"}, connected'
          PROVE  After(nh, Len(nh) + 1)
      <3> HIDE DEF After
      <3>1. After(qh, Len(qh) + 1)
        BY <1>2, <2>1, <2>4 DEF Forward
      <3>2. CASE taken
        <4>1. Len(nh) = Len(qh) - 1 /\ Len(qh) \in Nat
          BY <1>9, <3>2
        <4>2. Len(nh) + 1 \in Int /\ (Len(nh) + 1) + 1 = Len(qh) + 1
          BY <4>1
        <4>3. PICK i \in Int : i = Len(nh) + 1 /\ i + 1 = Len(qh) + 1
          BY <4>2
        <4> QED  BY <2>2, <3>1, <3>2, <4>3
      <3>3. CASE ~taken
        BY <1>8, <3>1, <3>3
      <3> QED  BY <3>2, <3>3
    <2>5. \A i : AfterNotice(i)' <=> After(nh, i)
      <3> SUFFICES ASSUME NEW i PROVE AfterNotice(i)' <=> After(nh, i)
        OBVIOUS
      <3>1. AfterNotice(i)' <=> (Noticed' \/ \E j \in 1..Len(Incoming(Host)') : j < i /\ Notice(Incoming(Host)'[j]))
        BY DEF AfterNotice, Notice
      <3> QED  BY <1>7, <3>1
    <2>6. AfterNotice(Len(Incoming(Host)) + 1)' <=> After(nh, Len(nh) + 1)
      <3>1. AfterNotice(Len(Incoming(Host)) + 1)' <=>
               \/ Noticed'
               \/ \E j \in 1..Len(Incoming(Host)') :
                     j < Len(Incoming(Host)') + 1 /\ Notice(Incoming(Host)'[j])
        BY DEF AfterNotice, Notice
      <3> QED  BY <1>7, <3>1
    <2> HIDE DEF After
    <2>7. /\ \A i \in 1..Len(Incoming(Host)') :
               /\ Incoming(Host)'[i].kind = "notice" => Told' /\ Incoming(Host)'[i].body # "none"
               /\ Closed(Incoming(Host)'[i]) => AfterNotice(i)'
          /\ stage'[Controller] \in {"barrier", "final"} /\ connected' =>
                AfterNotice(Len(Incoming(Host)) + 1)'
      BY <1>3, <1>7, <2>3, <2>4, <2>5, <2>6
    <2> QED  BY <2>7 DEF NoticeLeads, Closed
  <1> QED  BY <1>10, <1>11, <1>12 DEF CloseOrder

-----------------------------------------------------------------------------
(* The invariant survives a step *)

\* What a step of an end does, as far as it concerns the invariant.
Orderly(e, taken, S) == IF e = Controller THEN OrderlyC(S) ELSE OrderlyH(taken, S)

Moves(e, taken, S) ==
    /\ Turn(e, taken, S) /\ Exchanging(e, taken, S) /\ Others(e) /\ Forward(e) /\ Barred(e)
    /\ FinalSent(e, S) /\ FinalSeen(e) /\ Answered(e, taken) /\ Orderly(e, taken, S)
    /\ raised' \cap Spurious = {}

\* Every such step keeps the invariant.
LEMMA MxKept ==
    ASSUME TsInv, MxInv, ObsAdvance, NEW e \in Ends, NEW taken \in BOOLEAN, NEW S, Moves(e, taken, S)
    PROVE  MxInv'
  <1> HIDE DEF AllFrames
  <1>1. PICK p \in Ends : p = Peer(e) /\ p # e /\ Ends = {e, p}
    BY EndFacts DEF Ends
  <1>2. /\ Turn(e, taken, S) /\ Exchanging(e, taken, S) /\ Others(e) /\ Forward(e) /\ Barred(e)
        /\ FinalSent(e, S) /\ FinalSeen(e) /\ Answered(e, taken) /\ Orderly(e, taken, S)
        /\ raised' \cap Spurious = {}
    BY DEF Moves
  <1>3. TsTypes /\ Advances(obs[e], obs'[e])
    BY DEF TsInv, ObsAdvance
  <1>4. /\ Exchange(e) /\ Finals(e) /\ AckFirst(e) /\ CloseOrder
        /\ Exchange(Peer(e)) /\ Finals(Peer(e)) /\ AckFirst(Peer(e))
    BY <1>1 DEF MxInv
  <1>5. obs'[Peer(e)] = obs[Peer(e)]
    BY <1>1, <1>2 DEF Others
  <1>6. Exchange(e)' /\ Exchange(Peer(e))'
    BY <1>2, <1>3, <1>4, <1>5, ExchangeKept
  <1>7. /\ S \in Seq(AllFrames) /\ Incoming(Peer(e))' = Incoming(Peer(e)) \o S
        /\ Fewer(Incoming(e), Incoming(e)')
    <2>1. PICK q \in Seq(AllFrames) : q = Incoming(e)
      BY <1>3, IncomingFacts
    <2>2. Fewer(q, q) /\ (q # <<>> => Fewer(q, Tail(q)))
      BY <2>1, FewerFacts
    <2> QED  BY <1>2, <2>1, <2>2 DEF Turn
  <1>8. Finals(e)'
    BY <1>2, <1>3, <1>4, <1>7, FinalsOwn
  <1>9. Finals(Peer(e))'
    BY <1>2, <1>3, <1>4, <1>7, FinalsOther
  <1>10. AckFirst(e)' /\ AckFirst(Peer(e))'
    BY <1>2, <1>3, <1>4, AckFirstKept
  <1>11. CloseOrder'
    <2>1. CASE e = Controller
      BY <1>2, <1>3, <1>4, <2>1, CloseOrderC DEF Orderly
    <2>2. CASE e = Host
      BY <1>2, <1>3, <1>4, <2>2, CloseOrderH, EndFacts DEF Orderly
    <2> QED  BY <2>1, <2>2, EndFacts
  <1>12. ASSUME NEW d \in Ends
         PROVE  Exchange(d)' /\ Finals(d)' /\ AckFirst(d)'
    <2>1. CASE d = e
      BY <1>6, <1>8, <1>10, <2>1
    <2>2. CASE d = Peer(e)
      BY <1>6, <1>9, <1>10, <2>2
    <2> QED  BY <1>1, <2>1, <2>2
  <1> QED  BY <1>2, <1>11, <1>12 DEF MxInv, Spurious

-----------------------------------------------------------------------------
(* Steps that leave the exchange alone *)

\* The failure frames of record() and fail_closed.
Failure(S) == \A i \in 1..Len(S) : S[i] \in {Frame("error", "audit"), Frame("notice", "AuditFailure")}

\* No manifest reaches e, and none leaves it once the connection is gone.
Bounded(e) ==
    /\ Pairs(frames'[e]) \subseteq Pairs(frames[e])
    /\ ~connected => Pairs(frames'[Peer(e)]) \subseteq Pairs(frames[Peer(e)])

\* e neither builds nor handles a checkpoint.
Calm(e, taken, S) ==
    /\ Turn(e, taken, S) /\ Others(e) /\ Bounded(e) /\ Failure(S)
    /\ stage[e] # "done" /\ (connected' => connected)
    /\ Cp(obs'[e]) = Cp(obs[e])
    /\ fin'[e].sent = fin[e].sent /\ fin'[e].seen = fin[e].seen /\ fin'[e].own = fin[e].own
    /\ raised' \cap Spurious = {}

\* Failure frames are neither checkpoints nor close notices.
LEMMA FailureFacts ==
    /\ \A S : Failure(S) =>
          /\ None(S, "checkpoint") /\ None(S, "ack")
          /\ \A i \in 1..Len(S) : ~Closed(S[i]) /\ (S[i].kind = "notice" => S[i].body # "none")
    /\ Failure(<<>>) /\ Failure(FailNotices) /\ \A o : Failure(RecordNotices(o))
    /\ \A S : Failure(S) => Failure(Reaches(S))
    /\ Reaches(<<>>) = <<>>
    /\ FailNotices \in Seq(AllFrames) /\ <<>> \in Seq(AllFrames)
    /\ \A o : RecordNotices(o) \in Seq(AllFrames)
  <1>1. ASSUME NEW S, Failure(S)
        PROVE  /\ None(S, "checkpoint") /\ None(S, "ack")
               /\ \A i \in 1..Len(S) : ~Closed(S[i]) /\ (S[i].kind = "notice" => S[i].body # "none")
    BY <1>1 DEF Failure, None, Closed, Frame
  <1>2. Failure(<<>>) /\ Failure(FailNotices)
    BY DEF Failure, FailNotices
  <1>3. \A o : Failure(RecordNotices(o))
    BY <1>2 DEF RecordNotices
  <1>4. \A S : Failure(S) => Failure(Reaches(S))
    BY <1>2 DEF Reaches
  <1>5. Reaches(<<>>) = <<>>
    BY DEF Reaches
  <1>6. FailNotices \in Seq(AllFrames) /\ <<>> \in Seq(AllFrames)
    BY PlainFacts DEF Plain
  <1>7. \A o : RecordNotices(o) \in Seq(AllFrames)
    BY PlainFacts DEF Plain
  <1> QED  BY <1>1, <1>2, <1>3, <1>4, <1>5, <1>6, <1>7

\* Before the barrier an end has neither sent nor seen a final checkpoint, and
\* its peer has not seen one.
LEMMA EarlyFacts ==
    ASSUME MxInv, NEW e \in Ends, stage[e] \notin Late
    PROVE  /\ ~fin[e].sent /\ ~fin[e].seen /\ ~fin[Peer(e)].seen /\ fin[e].own = NoManifest
           /\ ~Shut(obs[e].s.control) /\ ~Behind(e)
  <1>1. PICK p \in Ends : p = Peer(e) /\ Peer(p) = e
    BY EndFacts
  <1>2. Finals(e) /\ Finals(p)
    BY DEF MxInv
  <1> QED  BY <1>1, <1>2 DEF Finals, Behind, Late

\* A calm step.
LEMMA CalmKeeps ==
    ASSUME TsInv, MxInv, ObsAdvance, NEW e \in Ends, NEW taken \in BOOLEAN, NEW S, Calm(e, taken, S),
           Forward(e), Barred(e), Orderly(e, taken, S),
           taken /\ Head(Incoming(e)).kind = "ack" => stage'[e] = "done" \/ ~fin[Peer(e)].seen
    PROVE  MxInv'
  <1>1. PICK p \in Ends : p = Peer(e)
    BY EndFacts
  <1>2. Finals(e)
    BY DEF MxInv
  <1>3. /\ obs'[e].s.next = obs[e].s.next /\ obs'[e].s.sent = obs[e].s.sent
        /\ obs'[e].s.received = obs[e].s.received /\ obs'[e].awaiting = obs[e].awaiting
    BY DEF Calm, Cp
  <1>4. None(S, "checkpoint") /\ None(S, "ack")
    BY FailureFacts DEF Calm
  <1>5. Exchanging(e, taken, S)
    BY <1>4 DEF Exchanging, Silent, Calm
  <1>6. FinalSent(e, S)
    BY <1>2, <1>3, <1>4 DEF FinalSent, Calm, Finals
  <1>7. FinalSeen(e)
    BY <1>3 DEF FinalSeen, Calm
  <1>8. Answered(e, taken)
    BY <1>3 DEF Answered, Calm, Bounded
  <1>9. Moves(e, taken, S)
    BY <1>5, <1>6, <1>7, <1>8 DEF Moves, Calm
  <1> QED  BY <1>9, MxKept

\* A calm step that ends the session.
LEMMA DoneCalm ==
    ASSUME TsInv, MxInv, ObsAdvance, NEW e \in Ends, NEW taken \in BOOLEAN, NEW S, Calm(e, taken, S),
           stage'[e] = "done", proc'[e] = NoFrame, reason'[e] = reason[e]
    PROVE  MxInv'
  <1>1. Forward(e) /\ Barred(e)
    BY DEF Forward, Barred, Late, Past, Behind, Calm
  <1>2. CloseOrder /\ Failure(S)
    BY DEF MxInv, Calm
  <1>3. \A i \in 1..Len(S) : ~Closed(S[i]) /\ (S[i].kind = "notice" => S[i].body # "none")
    BY <1>2, FailureFacts
  <1>4. Orderly(e, taken, S)
    <2>1. CASE e = Controller
      <3>1. Told'
        BY <2>1 DEF Told, Past, Late
      <3>2. OrderlyC(S)
        BY <1>3, <2>1, <3>1 DEF OrderlyC
      <3> QED  BY <2>1, <3>2 DEF Orderly
    <2>2. CASE e = Host
      <3>1. Noticed' /\ ~Behind(Host)'
        BY <2>2 DEF Noticed, Past, Late, Behind
      <3>2. reason[Host] # "none" => Told
        BY <1>2 DEF CloseOrder, HostFollows
      <3>3. OrderlyH(taken, S)
        BY <1>3, <2>2, <3>1, <3>2 DEF OrderlyH
      <3> QED  BY <2>2, <3>3, EndFacts DEF Orderly
    <2> QED  BY <2>1, <2>2, EndFacts
  <1> QED  BY <1>1, <1>4, CalmKeeps

\* A calm step before the barrier.
LEMMA EarlyCalm ==
    ASSUME TsInv, MxInv, ObsAdvance, NEW e \in Ends, NEW taken \in BOOLEAN, NEW S, Calm(e, taken, S),
           stage[e] \notin Past, stage'[e] \notin Past, ~Shut(obs'[e].s.control), Orderly(e, taken, S)
    PROVE  MxInv'
  <1>1. Forward(e) /\ Barred(e)
    BY DEF Forward, Barred, Late, Past, Behind, Calm
  <1>2. ~fin[Peer(e)].seen
    BY EarlyFacts DEF Past
  <1> QED  BY <1>1, <1>2, CalmKeeps

\* A calm step of a pump that handles no frame.
LEMMA PumpCalm ==
    ASSUME TsInv, MxInv, ObsAdvance, NEW e \in Ends, NEW S, Calm(e, FALSE, S),
           Pumping(e), stage'[e] \in {stage[e], "closing"}, reason'[e] = reason[e], proc'[e] = proc[e],
           ~Shut(obs'[e].s.control), S # <<>> => HasFailed(e)'
    PROVE  MxInv'
  <1>1. stage[e] \in {"active", "closing"} /\ stage'[e] \in {"active", "closing"}
    BY DEF Pumping
  <1>2. stage[e] \notin Past /\ stage'[e] \notin Past
    BY <1>1 DEF Past, Late
  <1>3. CloseOrder /\ Failure(S)
    BY DEF MxInv, Calm
  <1>4. \A i \in 1..Len(S) : ~Closed(S[i]) /\ (S[i].kind = "notice" => S[i].body # "none")
    BY <1>3, FailureFacts
  <1>5. Orderly(e, FALSE, S)
    <2>1. CASE e = Controller
      <3>1. S # <<>> => Told'
        BY <2>1 DEF Told, HasFailed
      <3>2. \A i \in 1..Len(S) : S # <<>>
        OBVIOUS
      <3>3. OrderlyC(S)
        BY <1>1, <1>4, <2>1, <3>1, <3>2 DEF OrderlyC
      <3> QED  BY <2>1, <3>3 DEF Orderly
    <2>2. CASE e = Host
      <3>1. ~Behind(Host)'
        BY <1>1, <2>2 DEF Behind
      <3>2. OrderlyH(FALSE, S)
        BY <1>1, <1>3, <1>4, <2>2, <3>1 DEF OrderlyH, CloseOrder, HostFollows
      <3> QED  BY <2>2, <3>2, EndFacts DEF Orderly
    <2> QED  BY <2>1, <2>2, EndFacts
  <1> QED  BY <1>2, <1>5, EarlyCalm

-----------------------------------------------------------------------------
(* Steps that move no end *)

\* A lost connection takes frames away from the end of a substream.
LEMMA LossShortens ==
    ASSUME TsTypes, UNCHANGED proc, frames' = frames \/ frames' = [d \in Ends |-> <<>>], NEW e \in Ends
    PROVE  /\ Fewer(Incoming(e), Incoming(e)')
           /\ \A i \in 1..Len(Incoming(e)') :
                 i \in 1..Len(Incoming(e)) /\ Incoming(e)'[i] = Incoming(e)[i]
           /\ frames' = frames => Incoming(e)' = Incoming(e)
  <1> HIDE DEF AllFrames
  <1>1. PICK q \in Seq(AllFrames) : q = frames[e]
    BY DEF TsTypes
  <1>2. proc[e] = NoFrame \/ proc[e] \in AllFrames
    BY DEF TsTypes
  <1>3. PICK r \in Seq(AllFrames) : r = Incoming(e)
    BY IncomingFacts
  <1>4. PICK n : n = Incoming(e)'
    OBVIOUS
  <1>5. SUFFICES /\ Fewer(r, n) /\ \A i \in 1..Len(n) : i \in 1..Len(r) /\ n[i] = r[i]
                 /\ frames' = frames => n = r
    BY <1>3, <1>4
  <1>6. CASE frames' = frames
    <2>1. n = r
      BY <1>3, <1>4, <1>6, IncomingNext DEF Incoming
    <2> QED  BY <2>1, FewerFacts
  <1>7. CASE frames' # frames
    <2>1. frames'[e] = <<>>
      BY <1>7
    <2>2. CASE proc[e] = NoFrame
      <3>1. n = <<>>
        BY <1>4, <2>1, <2>2, IncomingNext
      <3> QED  BY <1>7, <3>1, FewerFacts
    <2>3. CASE proc[e] # NoFrame
      <3>1. PICK x \in AllFrames : x = proc[e]
        BY <1>2, <2>3
      <3>2. r = <<x>> \o q
        BY <1>1, <1>3, <2>3, <3>1 DEF Incoming
      <3>3. n = <<x>> \o <<>>
        BY <1>4, <2>1, <2>3, <3>1, IncomingNext
      <3>4. <<x>> \o <<>> = <<x>> /\ <<x>> \in Seq(AllFrames) /\ Len(<<x>>) = 1
        OBVIOUS
      <3>5. Fewer(r, n)
        BY <3>2, <3>3, <3>4, FewerFacts
      <3>6. \A i \in 1..Len(n) : i \in 1..Len(r) /\ n[i] = r[i]
        BY <3>2, <3>3, <3>4, JoinFacts
      <3> QED  BY <1>7, <3>5, <3>6
    <2> QED  BY <2>2, <2>3
  <1> QED  BY <1>6, <1>7

\* The connection is lost, or nothing happens that concerns the invariant.
LEMMA LossKeeps ==
    ASSUME TsTypes, MxInv, UNCHANGED <<obs, proc, stage, reason, fin, raised>>, connected' => connected,
           frames' = frames \/ (frames' = [d \in Ends |-> <<>>] /\ ~connected')
    PROVE  MxInv'
  <1>1. Controller \in Ends /\ Host \in Ends /\ Ends = {Controller, Host}
    BY EndFacts
  <1>2. \A e \in Ends :
           /\ Fewer(Incoming(e), Incoming(e)')
           /\ \A i \in 1..Len(Incoming(e)') :
                 i \in 1..Len(Incoming(e)) /\ Incoming(e)'[i] = Incoming(e)[i]
           /\ frames' = frames => Incoming(e)' = Incoming(e)
    BY LossShortens
  <1>3. ASSUME NEW e \in Ends
        PROVE  Exchange(e)' /\ Finals(e)' /\ AckFirst(e)'
    <2>1. PICK p \in Ends : p = Peer(e)
      BY EndFacts
    <2>2. Exchange(e) /\ Finals(e) /\ AckFirst(e)
      BY DEF MxInv
    <2>3. Incoming(Peer(e))' = Incoming(p)'
      BY <2>1 DEF Incoming, Peer, NoFrame
    <2>4. Fewer(Incoming(p), Incoming(p)') /\ Fewer(Incoming(e), Incoming(e)')
      BY <1>2
    <2>5. Exchange(e)'
      <3>1. Agreed(obs[e], obs[p], Incoming(p), Incoming(e))
        BY <2>1, <2>2 DEF Exchange
      <3>2. Agreed(obs[e], obs[p], Incoming(p)', Incoming(e)')
        BY <2>4, <3>1, AgreedFewer
      <3>3. Exchange(e)' <=> Agreed(obs'[e], obs'[Peer(e)], Incoming(Peer(e))', Incoming(e)')
        BY DEF Exchange, Peer
      <3> QED  BY <2>1, <2>3, <3>2, <3>3
    <2>6. Finals(e)'
      <3>1. None(Incoming(p), "checkpoint") => None(Incoming(p)', "checkpoint")
        BY <2>4 DEF Fewer
      <3>2. None(Incoming(Peer(e)), "checkpoint") => None(Incoming(Peer(e))', "checkpoint")
        BY <2>1, <2>3, <3>1
      <3>3. Behind(e)' <=> Behind(e)
        BY DEF Behind
      <3> QED  BY <2>2, <3>2, <3>3 DEF Finals, Peer
    <2>7. AckFirst(e)'
      <3>1. AckFirst(e)' <=>
              (fin'[Peer(e)].seen /\ obs'[e].awaiting =>
                  \/ stage'[e] = "done"
                  \/ ~connected' /\ Pairs(frames'[e]) = {}
                  \/ AckLeads(Incoming(e)'))
        BY DEF AckFirst, Peer
      <3>2. frames' # frames => ~connected' /\ Pairs(frames'[e]) = {}
        BY DEF Pairs
      <3>3. frames' = frames => Incoming(e)' = Incoming(e)
        BY <1>2
      <3> QED  BY <2>2, <3>1, <3>2, <3>3 DEF AckFirst
    <2> QED  BY <2>5, <2>6, <2>7
  <1>4. CloseOrder
    BY DEF MxInv
  <1>5. Roles'
    BY <1>4 DEF CloseOrder, Roles, NoFrame
  <1>6. (Told' <=> Told) /\ (Noticed' <=> Noticed)
    BY DEF Told, Noticed, HasFailed
  <1>7. PICK qc, nc, qh, nh :
           /\ qc = Incoming(Controller) /\ nc = Incoming(Controller)'
           /\ qh = Incoming(Host) /\ nh = Incoming(Host)'
    OBVIOUS
  <1>8. /\ \A i \in 1..Len(nc) : i \in 1..Len(qc) /\ nc[i] = qc[i]
        /\ \A i \in 1..Len(nh) : i \in 1..Len(qh) /\ nh[i] = qh[i]
        /\ frames' = frames => nh = qh
    BY <1>1, <1>2, <1>7
  <1>9. HostFollows'
    <2>1. \A i \in 1..Len(Incoming(Controller)') : Closed(Incoming(Controller)'[i]) => Told'
      BY <1>4, <1>6, <1>7, <1>8 DEF CloseOrder, HostFollows
    <2>2. /\ reason'[Host] # "none" =>
                /\ stage'[Host] \notin {"active", "receiver"} /\ Told'
                /\ stage'[Host] = "closing" => proc'[Host] = NoFrame
          /\ stage'[Host] = "barrier" \/ Behind(Host)' => Told'
      BY <1>4, <1>6 DEF CloseOrder, HostFollows, Behind
    <2> QED  BY <2>1, <2>2 DEF HostFollows, NoFrame, Closed
  <1>10. NoticeLeads'
    <2> DEFINE After(q, i) == Noticed \/ \E j \in 1..Len(q) : j < i /\ Notice(q[j])
    <2>1. /\ \A i \in 1..Len(qh) :
               /\ qh[i].kind = "notice" => Told /\ qh[i].body # "none"
               /\ Closed(qh[i]) => After(qh, i)
          /\ stage[Controller] \in {"barrier", "final"} /\ connected => After(qh, Len(qh) + 1)
      BY <1>4, <1>7 DEF CloseOrder, NoticeLeads, AfterNotice
    <2>2. ASSUME NEW i \in 1..Len(nh), After(qh, i)
          PROVE  After(nh, i)
      <3>1. SUFFICES ASSUME NEW j \in 1..Len(qh), j < i, Notice(qh[j])
                     PROVE  j \in 1..Len(nh)
        BY <1>8, <2>2
      <3> QED  BY <3>1
    <2>3. \A i : AfterNotice(i)' <=> After(nh, i)
      <3> SUFFICES ASSUME NEW i PROVE AfterNotice(i)' <=> After(nh, i)
        OBVIOUS
      <3>1. AfterNotice(i)' <=> (Noticed' \/ \E j \in 1..Len(Incoming(Host)') : j < i /\ Notice(Incoming(Host)'[j]))
        BY DEF AfterNotice, Notice
      <3> QED  BY <1>6, <1>7, <3>1
    <2>4. AfterNotice(Len(Incoming(Host)) + 1)' <=> After(nh, Len(nh) + 1)
      <3>1. AfterNotice(Len(Incoming(Host)) + 1)' <=>
               \/ Noticed'
               \/ \E j \in 1..Len(Incoming(Host)') :
                     j < Len(Incoming(Host)') + 1 /\ Notice(Incoming(Host)'[j])
        BY DEF AfterNotice, Notice
      <3> QED  BY <1>6, <1>7, <3>1
    <2> HIDE DEF After
    <2>5. connected' => frames' = frames /\ nh = qh /\ connected
      BY <1>8
    <2>6. /\ \A i \in 1..Len(Incoming(Host)') :
               /\ Incoming(Host)'[i].kind = "notice" => Told' /\ Incoming(Host)'[i].body # "none"
               /\ Closed(Incoming(Host)'[i]) => AfterNotice(i)'
          /\ stage'[Controller] \in {"barrier", "final"} /\ connected' =>
                AfterNotice(Len(Incoming(Host)) + 1)'
      BY <1>6, <1>7, <1>8, <2>1, <2>2, <2>3, <2>4, <2>5
    <2> QED  BY <2>6 DEF NoticeLeads, Closed
  <1> QED  BY <1>3, <1>5, <1>9, <1>10 DEF MxInv, CloseOrder, Spurious

-----------------------------------------------------------------------------
(* The pumps *)

\* A pump that breaks.
LEMMA BreakMx ==
    ASSUME TsInv, MxInv, NEW e \in Ends, Pumping(e),
           UNCHANGED <<obs, frames, proc, reason, fin, raised, connected>>,
           stage' = [stage EXCEPT ![e] = "closing"]
    PROVE  MxInv'
  <1>1. TsTypes /\ stage \in [Ends -> Stages]
    BY DEF TsInv, TsTypes
  <1>2. ObsAdvance
    BY <1>1, SelfAdvances DEF ObsAdvance
  <1>3. stage'[e] = "closing" /\ \A d \in Ends : d # e => stage'[d] = stage[d]
    BY <1>1
  <1>4. stage[e] \notin Late /\ stage[e] # "done"
    BY DEF Pumping, Late
  <1>5. Calm(e, FALSE, <<>>)
    <2>1. Turn(e, FALSE, <<>>)
      BY <1>1, StillTurn
    <2>2. Others(e)
      BY <1>3 DEF Others
    <2>3. raised' \cap Spurious = {}
      BY DEF MxInv
    <2> QED  BY <1>4, <2>1, <2>2, <2>3, FailureFacts DEF Calm, Bounded, Cp
  <1>6. ~Shut(obs'[e].s.control)
    BY <1>4, EarlyFacts
  <1> QED  BY <1>2, <1>3, <1>5, <1>6, PumpCalm

\* An owner's step that records nothing: the pump goes on or breaks.
LEMMA ActMx ==
    ASSUME TsInv, MxInv, UNCHANGED <<obs, frames, proc, reason, fin, raised, connected>>,
           UNCHANGED stage \/ \E e \in Ends : Pumping(e) /\ stage' = [stage EXCEPT ![e] = "closing"]
    PROVE  MxInv'
  <1>1. CASE UNCHANGED stage
    BY <1>1, LossKeeps DEF TsInv
  <1>2. CASE \E e \in Ends : Pumping(e) /\ stage' = [stage EXCEPT ![e] = "closing"]
    BY <1>2, BreakMx
  <1> QED  BY <1>1, <1>2

\* What the owners read.
LEMMA StartingMx ==
    ASSUME TsInv, MxInv, Starting
    PROVE  MxInv'
  <1>1. UNCHANGED <<obs, frames, proc, reason, fin, raised, connected, stage>>
    BY DEF Starting, CReadInput, CDetectResize, HPtyOutput, HPtyExit, CReadOutput, CReadExit,
           HReadInput, HReadResize, OwnerStarts, finVars
  <1> QED  BY <1>1, ActMx

\* What the owners send, display and apply.
LEMMA DoingMx ==
    ASSUME TsInv, MxInv, Doing
    PROVE  MxInv'
  <1>1. Controller \in Ends /\ Host \in Ends
    BY EndFacts
  <1>2. /\ EndOf("input") = Controller /\ EndOf("resize") = Controller /\ EndOf("ptyInput") = Host
        /\ EndOf("ptyOutput") = Host
    BY EndFacts DEF COwners, HOwners
  <1>3. \A e, r : OwnerFails(e, r) => stage' = [stage EXCEPT ![e] = "closing"]
    BY DEF OwnerFails
  <1>4. CASE CSendInput \/ CSendResize \/ HSendOutput
    <2>1. UNCHANGED <<obs, frames, proc, reason, fin, raised, connected>>
      BY <1>4 DEF CSendInput, CSendResize, HSendOutput, OwnerSends
    <2>2. \/ UNCHANGED stage
          \/ Pumping(Controller) /\ OwnerFails(Controller, "lost")
          \/ Pumping(Host) /\ OwnerFails(Host, "lost")
      BY <1>2, <1>4 DEF CSendInput, CSendResize, HSendOutput, OwnerSends, PumpContinues
    <2> QED  BY <1>1, <1>3, <2>1, <2>2, ActMx
  <1>5. CASE CDisplay \/ HApplyResize \/ HAwaitComplete
    <2>1. UNCHANGED <<obs, frames, proc, reason, fin, raised, connected, stage>>
      BY <1>5 DEF CDisplay, HApplyResize, HAwaitComplete, finVars
    <2> QED  BY <2>1, ActMx
  <1>6. CASE HWritePty \/ HSendExit \/ HAwaitTimeout
    <2>1. UNCHANGED <<obs, frames, proc, reason, fin, raised, connected>>
      BY <1>6 DEF HWritePty, HSendExit, HAwaitTimeout, HBreaks
    <2>2. UNCHANGED stage \/ (Pumping(Host) /\ OwnerFails(Host, "lost"))
      BY <1>6 DEF HWritePty, HSendExit, HAwaitTimeout, HBreaks, PumpContinues
    <2> QED  BY <1>1, <1>3, <2>1, <2>2, ActMx
  <1>7. CASE HCloseControl \/ HControlEof
    <2>1. UNCHANGED <<obs, frames, proc, reason, fin, raised, connected>>
      BY <1>7 DEF HCloseControl, HControlEof, HExited
    <2>2. UNCHANGED stage \/ (Pumping(Host) /\ OwnerFails(Host, "ok"))
      BY <1>7 DEF HCloseControl, HControlEof, HExited, PumpContinues
    <2> QED  BY <1>1, <1>3, <2>1, <2>2, ActMx
  <1> QED  BY <1>4, <1>5, <1>6, <1>7 DEF Doing

\* How the pumps end, and a deadline that drops the connection.
LEMMA BreakingMx ==
    ASSUME TsInv, MxInv, Breaking
    PROVE  MxInv'
  <1>1. Controller \in Ends /\ Host \in Ends
    BY EndFacts
  <1>2. \A e, r : OwnerFails(e, r) => stage' = [stage EXCEPT ![e] = "closing"]
    BY DEF OwnerFails
  <1>3. CASE CReadOutputEof \/ CDrain \/ Stall \/ CDeadline
    <2>1. UNCHANGED <<obs, frames, proc, reason, fin, raised, connected, stage>>
      BY <1>3 DEF CReadOutputEof, CDrain, Stall, CDeadline, finVars
    <2> QED  BY <2>1, ActMx
  <1>4. CASE CComplete \/ CCancel \/ CLost \/ CCompletionTimeout
    <2>1. UNCHANGED <<obs, frames, proc, reason, fin, raised, connected>>
      BY <1>4 DEF CComplete, CCancel, CLost, CCompletionTimeout, CBreaks
    <2>2. Pumping(Controller) /\ \E r : OwnerFails(Controller, r)
      BY <1>4 DEF CComplete, CCancel, CLost, CCompletionTimeout, CBreaks, Active, Pumping
    <2> QED  BY <1>1, <1>2, <2>1, <2>2, ActMx
  <1>5. CASE HLost \/ HSignal
    <2>1. UNCHANGED <<obs, frames, proc, reason, fin, raised, connected>>
      BY <1>5 DEF HLost, HSignal, HBreaks
    <2>2. Pumping(Host) /\ \E r : OwnerFails(Host, r)
      BY <1>5 DEF HLost, HSignal, HBreaks, Active, Pumping
    <2> QED  BY <1>1, <1>2, <2>1, <2>2, ActMx
  <1>6. CASE HDeadline
    <2>1. UNCHANGED <<obs, frames, proc, reason, fin, raised, stage>> /\ connected' = FALSE
      BY <1>6 DEF HDeadline
    <2> QED  BY <2>1, LossKeeps DEF TsInv
  <1> QED  BY <1>3, <1>4, <1>5, <1>6 DEF Breaking

-----------------------------------------------------------------------------
(* Recording *)

\* The part of a session that checkpoints are counted in.
CpOf(s) == <<s.next, s.sent, s.received>>

\* Failing closed and appending build and handle no checkpoint.
LEMMA CpKept ==
    ASSUME NEW q \in Observers
    PROVE  /\ Cp(FailObserver(q)) = Cp(q) /\ Cp(Appended(q)) = Cp(q)
           /\ Cp([q EXCEPT !.writer = "failed"]) = Cp(q)
           /\ Cp(Sealed(q)) = Cp(q)
           /\ \A s : CpOf(s) = CpOf(q.s) => Cp([q EXCEPT !.s = s]) = Cp(q)
  <1>1. DOMAIN q.s = {"phase", "input", "output", "control", "next", "sent", "received",
                      "confirmedSent", "confirmedReceived"}
    BY DEF Observers, Sessions
  <1>2. DOMAIN q = {"s", "awaiting", "writer", "noted", "file"}
    BY DEF Observers
  <1>3. \A s : CpOf(s) = CpOf(q.s) => Cp([q EXCEPT !.s = s]) = Cp(q)
    BY <1>2 DEF CpOf, Cp
  <1>4. CpOf(FailClosed(q.s)) = CpOf(q.s) /\ CpOf(FinishLedgerCommit(q.s)) = CpOf(q.s)
    BY <1>1 DEF CpOf, FailClosed, FinishLedgerCommit
  <1>5. Cp(FailObserver(q)) = Cp(q)
    <2>1. PICK f : f = FailClosed(q.s)
      OBVIOUS
    <2>2. q.s.phase # "Failed" => FailObserver(q) = [q EXCEPT !.s = f, !.noted = (q.writer = "ok")]
      BY <2>1 DEF FailObserver
    <2>3. Cp([q EXCEPT !.s = f, !.noted = (q.writer = "ok")]) = Cp(q)
      BY <1>2, <1>4, <2>1 DEF CpOf, Cp
    <2> QED  BY <2>2, <2>3 DEF FailObserver
  <1>6. Cp(Appended(q)) = Cp(q)
    <2>1. \A f : Cp([q EXCEPT !.file = f]) = Cp(q)
      BY <1>2 DEF Cp
    <2> QED  BY <2>1 DEF Appended
  <1>7. Cp([q EXCEPT !.writer = "failed"]) = Cp(q)
    BY <1>2 DEF Cp
  <1>8. Cp(Sealed(q)) = Cp(q)
    <2>1. PICK f : f = FinishLedgerCommit(q.s)
      OBVIOUS
    <2>2. Sealed(q) = [q EXCEPT !.s = f, !.writer = "finished"]
      BY <2>1 DEF Sealed
    <2>3. Cp([q EXCEPT !.s = f, !.writer = "finished"]) = Cp(q)
      BY <1>2, <1>4, <2>1 DEF CpOf, Cp
    <2> QED  BY <2>2, <2>3
  <1> QED  BY <1>3, <1>5, <1>6, <1>7, <1>8

\* Recording builds and handles no checkpoint.
LEMMA CpFacts ==
    ASSUME NEW o, Sane(o)
    PROVE  /\ \A n : CpOf(RecordInput(o.s, n)) = CpOf(o.s) /\ RecordInput(o.s, n).control = o.s.control
           /\ \A n : CpOf(RecordOutput(o.s, n)) = CpOf(o.s) /\ RecordOutput(o.s, n).control = o.s.control
           /\ \A v : CpOf(RecordControl(o.s, v)) = CpOf(o.s)
           /\ \A s \in Sessions : CpOf(s) = CpOf(o.s) => Cp(Record(o, s)) = Cp(o)
           /\ \A v \in Events : Cp(Appended([o EXCEPT !.s = CloseDirections(RecordControl(o.s, v))])) = Cp(o)
           /\ Cp(CloseInterrupted(o)) = Cp(o)
  <1>1. o \in Observers /\ o.s \in Sessions
    BY DEF Sane, Observers
  <1>2. DOMAIN o.s = {"phase", "input", "output", "control", "next", "sent", "received",
                      "confirmedSent", "confirmedReceived"}
    BY <1>1 DEF Sessions
  <1>3. /\ \A n : CpOf(RecordInput(o.s, n)) = CpOf(o.s) /\ RecordInput(o.s, n).control = o.s.control
        /\ \A n : CpOf(RecordOutput(o.s, n)) = CpOf(o.s) /\ RecordOutput(o.s, n).control = o.s.control
        /\ \A v : CpOf(RecordControl(o.s, v)) = CpOf(o.s)
    BY <1>2 DEF CpOf, RecordInput, RecordOutput, RecordControl
  <1>4. \A s \in Sessions : [o EXCEPT !.s = s] \in Observers
    <2> HIDE DEF Sessions
    <2> QED  BY <1>1 DEF Observers
  <1>5. ASSUME NEW s \in Sessions, CpOf(s) = CpOf(o.s)
        PROVE  Cp(Record(o, s)) = Cp(o)
    <2>1. PICK q : q = [o EXCEPT !.s = s]
      OBVIOUS
    <2>2. PICK r : r = [o EXCEPT !.s = o.s]
      OBVIOUS
    <2>3. q \in Observers /\ r \in Observers /\ Cp(q) = Cp(o) /\ Cp(r) = Cp(o)
      BY <1>1, <1>4, <1>5, <2>1, <2>2, CpKept
    <2>4. Cp(FailObserver(q)) = Cp(q) /\ Cp(Appended(q)) = Cp(q) /\ Cp(FailObserver(r)) = Cp(r)
      BY <2>3, CpKept
    <2>5. Record(o, s) \in {Appended(q), FailObserver(q), FailObserver(r)}
      BY <2>1, <2>2 DEF Record
    <2> QED  BY <2>3, <2>4, <2>5
  <1>6. ASSUME NEW v \in Events
        PROVE  Cp(Appended([o EXCEPT !.s = CloseDirections(RecordControl(o.s, v))])) = Cp(o)
    <2>1. PICK r \in Sessions : r = RecordControl(o.s, v)
      BY LongerFacts DEF Longer
    <2>2. PICK c : c = CloseDirections(r)
      OBVIOUS
    <2>3. c \in Sessions /\ CpOf(c) = CpOf(r)
      <3>1. PICK i, u : i = Finish(r.input) /\ u = Finish(r.output)
        OBVIOUS
      <3>2. i \in Directions /\ u \in Directions
        <4>1. r.input \in Directions /\ r.output \in Directions
          BY DEF Sessions
        <4> QED  BY <3>1, <4>1, FinishFacts
      <3>3. c = [r EXCEPT !.input = i, !.output = u, !.phase = "Finalizing"]
        BY <2>2, <3>1 DEF CloseDirections
      <3> HIDE DEF Directions, Histories, Checkpoints
      <3> QED  BY <3>2, <3>3 DEF Sessions, CpOf, Phases
    <2>4. PICK q : q = [o EXCEPT !.s = c]
      OBVIOUS
    <2>5. CpOf(c) = CpOf(o.s)
      BY <1>3, <2>1, <2>3
    <2>6. q \in Observers /\ Cp(q) = Cp(o)
      BY <1>1, <1>4, <2>3, <2>4, <2>5, CpKept
    <2>7. Cp(Appended(q)) = Cp(q)
      BY <2>6, CpKept
    <2> QED  BY <2>1, <2>2, <2>4, <2>6, <2>7
  <1>7. Cp(CloseInterrupted(o)) = Cp(o)
    <2>1. PICK v \in Events : v = <<"close", "ConnectionLost">>
      BY EventFacts DEF Reasons
    <2>2. CloseInterrupted(o) \in {o, Appended([o EXCEPT !.s = CloseDirections(RecordControl(o.s, v))])}
      BY <2>1 DEF CloseInterrupted
    <2> QED  BY <1>6, <2>2
  <1> QED  BY <1>3, <1>5, <1>6, <1>7

\* A step that writes failure frames, or nothing.
LEMMA CalmWrite ==
    ASSUME TsInv, MxInv, NEW e \in Ends, stage[e] # "done", NEW o, obs' = [obs EXCEPT ![e] = o],
           Cp(o) = Cp(obs[e]), NEW q \in Seq(AllFrames), Failure(q), frames' = Posted(frames, e, q),
           NEW next, stage' = [stage EXCEPT ![e] = next], UNCHANGED <<fin, proc, connected>>,
           \A d \in Ends : d # e => reason'[d] = reason[d], raised' \cap Spurious = {}
    PROVE  Calm(e, FALSE, Reaches(q)) /\ obs'[e] = o /\ stage'[e] = next
  <1> HIDE DEF AllFrames
  <1>1. TsTypes /\ obs \in [Ends -> Observers] /\ stage \in [Ends -> Stages]
    BY DEF TsInv, TsTypes
  <1>2. Turn(e, FALSE, Reaches(q)) /\ frames'[e] = frames[e]
    BY <1>1, WriteTurn
  <1>3. ~connected => frames' = frames
    BY DEF Posted
  <1>4. /\ obs'[e] = o /\ stage'[e] = next
        /\ \A d \in Ends : d # e => obs'[d] = obs[d] /\ stage'[d] = stage[d]
    BY <1>1
  <1>5. Others(e) /\ Bounded(e)
    BY <1>2, <1>3, <1>4 DEF Others, Bounded
  <1>6. Failure(Reaches(q))
    BY FailureFacts
  <1> QED  BY <1>2, <1>4, <1>5, <1>6 DEF Calm

\* An owner's record() appends to the histories, and never a close.
LEMMA RecordMx ==
    ASSUME TsInv, MxInv, NEW o \in OwnerNames, NEW next \in Sessions, NEW then,
           OwnerRecords(o, next, then), Longer(obs[EndOf(o)].s, next), CpOf(next) = CpOf(obs[EndOf(o)].s),
           Shut(next.control) => Shut(obs[EndOf(o)].s.control), ObsAdvance
    PROVE  MxInv'
  <1>1. PICK e \in Ends : e = EndOf(o) /\ Pumping(e)
    BY EndFacts DEF OwnerRecords, EndOf
  <1>2. TsTypes /\ Sane(obs[e]) /\ Closes(e) /\ stage \in [Ends -> Stages]
    BY DEF TsInv, TsTypes
  <1>3. obs[e].s.phase # "Finished"
    BY <1>1, <1>2 DEF Closes, Pumping
  <1>4. PICK p : p = Record(obs[e], next)
    OBVIOUS
  <1>5. /\ RecordOk(obs[e]) => p.s = next
        /\ ~RecordOk(obs[e]) => p.s.phase = "Failed" /\ p.s.control \in {obs[e].s.control, next.control}
        /\ Cp(p) = Cp(obs[e])
    BY <1>1, <1>2, <1>3, <1>4, RecordFacts, CpFacts
  <1>6. ~Shut(obs[e].s.control)
    BY <1>1, EarlyFacts DEF Pumping, Late
  <1>7. ~Shut(p.s.control)
    BY <1>1, <1>5, <1>6
  <1>8. PICK q : q = RecordNotices(obs[e])
    OBVIOUS
  <1>9. /\ obs' = [obs EXCEPT ![e] = p] /\ frames' = Posted(frames, e, q)
        /\ UNCHANGED <<connected, reason, fin, raised, proc>>
    BY <1>1, <1>4, <1>8 DEF OwnerRecords, Post
  <1>10. PICK n \in {stage[e], "closing"} : stage' = [stage EXCEPT ![e] = n]
    <2>1. UNCHANGED stage => stage' = [stage EXCEPT ![e] = stage[e]]
      BY <1>2
    <2>2. UNCHANGED stage \/ stage' = [stage EXCEPT ![e] = "closing"]
      <3>1. PumpContinues => UNCHANGED stage
        BY DEF PumpContinues
      <3>2. \A r : OwnerFails(e, r) => stage' = [stage EXCEPT ![e] = "closing"]
        BY DEF OwnerFails
      <3>3. PumpContinues \/ OwnerFails(e, "audit")
        BY <1>1 DEF OwnerRecords
      <3> QED  BY <3>1, <3>2, <3>3
    <2> QED  BY <2>1, <2>2
  <1>11. stage[e] # "done" /\ raised' \cap Spurious = {} /\ q \in Seq(AllFrames) /\ Failure(q)
    BY <1>1, <1>8, <1>9, FailureFacts DEF Pumping, MxInv
  <1>12. Calm(e, FALSE, Reaches(q)) /\ obs'[e] = p /\ stage'[e] = n
    <2>1. (\A d \in Ends : d # e => reason'[d] = reason[d]) /\ UNCHANGED <<fin, proc, connected>>
      BY <1>9
    <2> QED  BY <1>5, <1>9, <1>10, <1>11, <2>1, CalmWrite
  <1>13. Reaches(q) # <<>> => HasFailed(e)'
    <2>1. RecordOk(obs[e]) => q = <<>>
      BY <1>8 DEF RecordNotices
    <2>2. Reaches(q) # <<>> => p.s.phase = "Failed"
      BY <1>5, <2>1 DEF Reaches
    <2> QED  BY <1>12, <2>2 DEF HasFailed
  <1> QED  BY <1>1, <1>7, <1>9, <1>10, <1>12, <1>13, PumpCalm

\* The record() of every owner.
LEMMA RecordingMx ==
    ASSUME TsInv, MxInv, Recording, ObsAdvance
    PROVE  MxInv'
  <1>1. Sane(obs[Controller]) /\ Sane(obs[Host]) /\ TsTypes
    BY EndFacts DEF TsInv, TsTypes
  <1>2. /\ "input" \in OwnerNames /\ "output" \in OwnerNames /\ "resize" \in OwnerNames
        /\ "exit" \in OwnerNames /\ "ptyInput" \in OwnerNames /\ "ptyOutput" \in OwnerNames
        /\ EndOf("input") = Controller /\ EndOf("output") = Controller /\ EndOf("resize") = Controller
        /\ EndOf("exit") = Controller /\ EndOf("ptyInput") = Host /\ EndOf("ptyOutput") = Host
    BY NameFacts DEF EndOf, COwners, HOwners
  <1>3. \A o \in OwnerNames : own[o].n \in Nat
    BY <1>1 DEF TsTypes, OwnerStates
  <1>4. ASSUME NEW d, Sane(obs[d]), NEW n \in Nat
        PROVE  /\ Longer(obs[d].s, RecordInput(obs[d].s, n)) /\ RecordInput(obs[d].s, n) \in Sessions
               /\ CpOf(RecordInput(obs[d].s, n)) = CpOf(obs[d].s)
               /\ Shut(RecordInput(obs[d].s, n).control) => Shut(obs[d].s.control)
               /\ Longer(obs[d].s, RecordOutput(obs[d].s, n)) /\ RecordOutput(obs[d].s, n) \in Sessions
               /\ CpOf(RecordOutput(obs[d].s, n)) = CpOf(obs[d].s)
               /\ Shut(RecordOutput(obs[d].s, n).control) => Shut(obs[d].s.control)
    <2>1. /\ Longer(obs[d].s, RecordInput(obs[d].s, n)) /\ Longer(obs[d].s, RecordOutput(obs[d].s, n))
      BY <1>4, LongerFacts, EventFacts
    <2>2. /\ CpOf(RecordInput(obs[d].s, n)) = CpOf(obs[d].s)
          /\ RecordInput(obs[d].s, n).control = obs[d].s.control
          /\ CpOf(RecordOutput(obs[d].s, n)) = CpOf(obs[d].s)
          /\ RecordOutput(obs[d].s, n).control = obs[d].s.control
      BY <1>4, CpFacts
    <2> QED  BY <2>1, <2>2 DEF Longer
  <1>5. ASSUME NEW d, Sane(obs[d]), NEW v \in {<<"resize">>, <<"exit">>, <<"complete">>}
        PROVE  /\ Longer(obs[d].s, RecordControl(obs[d].s, v)) /\ RecordControl(obs[d].s, v) \in Sessions
               /\ CpOf(RecordControl(obs[d].s, v)) = CpOf(obs[d].s)
               /\ Shut(RecordControl(obs[d].s, v).control) => Shut(obs[d].s.control)
    <2>1. v \in Events /\ \A r \in Reasons : v # <<"close", r>>
      BY DEF Events
    <2>2. /\ Longer(obs[d].s, RecordControl(obs[d].s, v))
          /\ RecordControl(obs[d].s, v).control = Append(obs[d].s.control, v)
      <3> HIDE DEF Events
      <3>1. 0 \in Nat
        OBVIOUS
      <3> QED  BY <1>5, <2>1, <3>1, LongerFacts
    <2>3. CpOf(RecordControl(obs[d].s, v)) = CpOf(obs[d].s)
      BY <1>5, CpFacts
    <2>4. obs[d].s.control \in Histories
      BY <1>5 DEF Sane, Observers, Sessions
    <2>5. Shut(Append(obs[d].s.control, v)) => Shut(obs[d].s.control)
      <3> HIDE DEF Events, Histories
      <3> QED  BY <2>1, <2>4, ShutFacts
    <2> QED  BY <2>2, <2>3, <2>5 DEF Longer
  <1> HIDE DEF OwnerNames, Sessions
  <1>6. CASE CRecordInput
    <2>1. PICK s : s = RecordInput(obs[Controller].s, own["input"].n)
      OBVIOUS
    <2> QED  BY <1>1, <1>2, <1>3, <1>4, <1>6, <2>1, RecordMx DEF CRecordInput
  <1>7. CASE CRecordResize
    <2>1. PICK s : s = RecordControl(obs[Controller].s, <<"resize">>)
      OBVIOUS
    <2> QED  BY <1>1, <1>2, <1>5, <1>7, <2>1, RecordMx DEF CRecordResize
  <1>8. CASE CRecordOutput
    <2>1. PICK s : s = RecordOutput(obs[Controller].s, own["output"].n)
      OBVIOUS
    <2> QED  BY <1>1, <1>2, <1>3, <1>4, <1>8, <2>1, RecordMx DEF CRecordOutput
  <1>9. CASE CRecordExit
    <2>1. PICK s : s = RecordControl(obs[Controller].s, <<"exit">>)
      OBVIOUS
    <2> QED  BY <1>1, <1>2, <1>5, <1>9, <2>1, RecordMx DEF CRecordExit
  <1>10. CASE HRecordInput
    <2>1. PICK s : s = RecordInput(obs[Host].s, own["ptyInput"].n)
      OBVIOUS
    <2> QED  BY <1>1, <1>2, <1>3, <1>4, <1>10, <2>1, RecordMx DEF HRecordInput
  <1>11. CASE HRecordResize
    <2>1. PICK s : s = RecordControl(obs[Host].s, <<"resize">>)
      OBVIOUS
    <2> QED  BY <1>1, <1>2, <1>5, <1>11, <2>1, RecordMx DEF HRecordResize
  <1>12. CASE HRecordOutput
    <2>1. PICK s : s = RecordOutput(obs[Host].s, own["ptyOutput"].n)
      OBVIOUS
    <2> QED  BY <1>1, <1>2, <1>3, <1>4, <1>12, <2>1, RecordMx DEF HRecordOutput
  <1>13. CASE HRecordExit
    <2>1. PICK s : s = RecordControl(obs[Host].s, <<"exit">>)
      OBVIOUS
    <2> QED  BY <1>1, <1>2, <1>5, <1>13, <2>1, RecordMx DEF HRecordExit
  <1>14. CASE HRecordComplete
    <2>1. PICK s : s = RecordControl(obs[Host].s, <<"complete">>)
      OBVIOUS
    <2> QED  BY <1>1, <1>2, <1>5, <1>14, <2>1, RecordMx DEF HRecordComplete
  <1> QED  BY <1>6, <1>7, <1>8, <1>9, <1>10, <1>11, <1>12, <1>13, <1>14 DEF Recording

-----------------------------------------------------------------------------
(* Handling a frame *)

\* The checkpoint or acknowledgement an exchange expects next.
LEMMA HeadFacts ==
    ASSUME NEW o, NEW p, NEW to \in Seq(AllFrames), NEW back \in Seq(AllFrames), Agreed(o, p, to, back)
    PROVE  /\ to # <<>> /\ Head(to).kind = "checkpoint" =>
                 Head(to).body = o.s.sent /\ o.awaiting /\ o.s.sent.sequence = p.s.received.sequence + 1
           /\ back # <<>> /\ Head(back).kind = "ack" => Head(back).body = o.s.sent /\ o.awaiting
  <1> HIDE DEF AllFrames
  <1>1. /\ to # <<>> => 1 \in 1..Len(to) /\ to[1] = Head(to)
        /\ back # <<>> => 1 \in 1..Len(back) /\ back[1] = Head(back)
    BY DropFacts
  <1>2. \A q, b : /\ 1 \in 1..Len(q) /\ None(q, "checkpoint") => q[1].kind # "checkpoint"
                  /\ 1 \in 1..Len(q) /\ None(q, "ack") => q[1].kind # "ack"
                  /\ 1 \in 1..Len(q) /\ Lone(q, "checkpoint", b) /\ q[1].kind = "checkpoint" => q[1].body = b
                  /\ 1 \in 1..Len(q) /\ Lone(q, "ack", b) /\ q[1].kind = "ack" => q[1].body = b
    BY DEF None, Lone
  <1> QED  BY <1>1, <1>2 DEF Agreed

\* handle_frame on what the peer has written: a checkpoint is the next one, an
\* acknowledgement repeats the pending one.
LEMMA HandleMx ==
    ASSUME TsInv, MxInv, NEW e \in Ends, Incoming(e) # <<>>, NEW f, f = Head(Incoming(e))
    PROVE  LET o == HandleFrame(obs[e], f) IN
           /\ f \in AllFrames
           /\ f.kind = "checkpoint" /\ obs[e].s.phase \in Talking =>
                 /\ o.s.received = f.body /\ o.s.next = obs[e].s.next /\ o.s.sent = obs[e].s.sent
                 /\ o.awaiting = obs[e].awaiting /\ f.body = obs[Peer(e)].s.sent /\ f.body # obs[e].s.received
           /\ f.kind = "ack" /\ obs[e].s.phase \in Talking =>
                 /\ o.awaiting = FALSE /\ o.s.next = obs[e].s.next /\ o.s.sent = obs[e].s.sent
                 /\ o.s.received = obs[e].s.received
           /\ f.kind \notin {"checkpoint", "ack"} \/ obs[e].s.phase \notin Talking => o = obs[e]
           /\ o.s.phase = obs[e].s.phase
           /\ FrameError(obs[e], f) \notin Spurious
  <1> HIDE DEF AllFrames
  <1>1. PICK p \in Ends : p = Peer(e) /\ Peer(p) = e
    BY EndFacts
  <1>2. TsTypes /\ Exchange(e) /\ Exchange(p)
    BY DEF TsInv, MxInv
  <1>3. PICK qe \in Seq(AllFrames) : qe = Incoming(e)
    BY <1>2, IncomingFacts
  <1>4. PICK qp \in Seq(AllFrames) : qp = Incoming(p)
    BY <1>2, IncomingFacts
  <1>5. PICK a, b : a = obs[e] /\ b = obs[p]
    OBVIOUS
  <1>6. Agreed(a, b, qp, qe) /\ Agreed(b, a, qe, qp)
    BY <1>1, <1>2, <1>3, <1>4, <1>5 DEF Exchange
  <1>7. /\ a.s.sent.sequence \in Nat /\ b.s.received.sequence \in Nat
        /\ b.s.sent.sequence \in Nat /\ a.s.received.sequence \in Nat
        /\ a \in Observers /\ a.s \in Sessions
    BY <1>2, <1>5, SequenceFacts DEF Sane
  <1>8. f \in AllFrames /\ qe # <<>> /\ f = Head(qe)
    BY <1>3, DropFacts
  <1>9. /\ DOMAIN a.s = {"phase", "input", "output", "control", "next", "sent", "received",
                         "confirmedSent", "confirmedReceived"}
        /\ DOMAIN a = {"s", "awaiting", "writer", "noted", "file"}
    BY <1>7 DEF Observers, Sessions
  <1>10. PICK c : c = f.body
    OBVIOUS
  <1>11. CASE f.kind = "checkpoint"
    <2>1. Head(qe).kind = "checkpoint" /\ Head(qe).body = c
      BY <1>8, <1>10, <1>11
    <2>2. Head(qe).body = b.s.sent /\ b.awaiting /\ b.s.sent.sequence = a.s.received.sequence + 1
      BY <1>6, <1>8, <2>1, HeadFacts
    <2>3. c = b.s.sent /\ c.sequence = a.s.received.sequence + 1 /\ c # a.s.received
      BY <1>7, <2>1, <2>2
    <2>4. CheckpointAccepted(a.s, c)
      BY <2>3 DEF CheckpointAccepted
    <2>5. FrameError(a, f) = CheckpointError(a, c) /\ HandleFrame(a, f) = HandleCheckpoint(a, c)
      BY <1>10, <1>11, FrameCases
    <2>6. CheckpointError(a, c) \notin Spurious
      BY <2>4 DEF CheckpointError, Spurious
    <2>7. a.s.phase \notin Talking => HandleCheckpoint(a, c) = a
      BY DEF HandleCheckpoint, Talking
    <2>8. ASSUME a.s.phase \in Talking, NEW o, o = HandleCheckpoint(a, c)
          PROVE  /\ o.s.received = c /\ o.s.next = a.s.next /\ o.s.sent = a.s.sent
                 /\ o.awaiting = a.awaiting /\ o.s.phase = a.s.phase
      <3>1. PICK n : n = [a.s EXCEPT !.received = c, !.confirmedReceived = c.sequence]
        OBVIOUS
      <3>2. n.received = c /\ n.next = a.s.next /\ n.sent = a.s.sent /\ n.phase = a.s.phase
        BY <1>9, <3>1
      <3>3. o = [a EXCEPT !.s = n]
        BY <2>4, <2>8, <3>1 DEF HandleCheckpoint, ReceiveCheckpoint, Talking
      <3> QED  BY <1>9, <3>2, <3>3
    <2> QED  BY <1>1, <1>5, <1>8, <1>10, <1>11, <2>3, <2>5, <2>6, <2>7, <2>8
  <1>12. CASE f.kind = "ack"
    <2>1. Head(qe).kind = "ack" /\ Head(qe).body = c
      BY <1>8, <1>10, <1>12
    <2>2. Head(qe).body = a.s.sent
      BY <1>6, <1>8, <2>1, HeadFacts
    <2>3. c = a.s.sent
      BY <2>1, <2>2
    <2>4. AckAccepted(a.s, c)
      BY <2>3 DEF AckAccepted
    <2>5. FrameError(a, f) = AckError(a, c) /\ HandleFrame(a, f) = HandleAck(a, c)
      BY <1>10, <1>12, FrameCases
    <2>6. AckError(a, c) \notin Spurious
      BY <2>4 DEF AckError, Spurious
    <2>7. a.s.phase \notin Talking => HandleAck(a, c) = a
      BY DEF HandleAck, Talking
    <2>8. ASSUME a.s.phase \in Talking, NEW o, o = HandleAck(a, c)
          PROVE  /\ o.awaiting = FALSE /\ o.s.next = a.s.next /\ o.s.sent = a.s.sent
                 /\ o.s.received = a.s.received /\ o.s.phase = a.s.phase
      <3>1. PICK k : k = IF a.s.confirmedSent >= c.sequence THEN a.s.confirmedSent ELSE c.sequence
        OBVIOUS
      <3>2. PICK n : n = [a.s EXCEPT !.confirmedSent = k]
        OBVIOUS
      <3>3. n.received = a.s.received /\ n.next = a.s.next /\ n.sent = a.s.sent /\ n.phase = a.s.phase
        BY <1>9, <3>2
      <3>4. n = ReceiveAck(a.s, c)
        BY <2>4, <3>1, <3>2 DEF ReceiveAck
      <3>5. o = [a EXCEPT !.s = n, !.awaiting = FALSE]
        BY <2>4, <2>8, <3>4 DEF HandleAck, Talking
      <3> QED  BY <1>9, <3>3, <3>5
    <2> QED  BY <1>1, <1>5, <1>8, <1>10, <1>12, <2>3, <2>5, <2>6, <2>7, <2>8
  <1>13. CASE f.kind \notin {"checkpoint", "ack"}
    <2>1. HandleFrame(a, f) = a
      BY <1>13, FrameCases
    <2>2. FrameError(a, f) \in {"none", "InvalidState"}
      BY <1>13, Zenon DEF FrameError
    <2> QED  BY <1>5, <1>8, <1>13, <2>1, <2>2 DEF Spurious
  <1> QED  BY <1>11, <1>12, <1>13

\* The reply to a checkpoint is its acknowledgement.
LEMMA ReplyFacts ==
    ASSUME NEW o, NEW f \in AllFrames, NEW R, R = FrameReply(o, f)
    PROVE  /\ R \in Seq(AllFrames) /\ Reaches(R) \in Seq(AllFrames) /\ Pairs(R) = {}
           /\ \A T \in {R, Reaches(R)} :
                 /\ None(T, "checkpoint") /\ None(T, "notice") /\ Lone(T, "ack", f.body)
                 /\ \A i \in 1..Len(T) : ~Closed(T[i]) /\ T[i].kind # "notice"
           /\ f.kind # "checkpoint" \/ FrameError(o, f) # "none" => R = <<>> /\ Reaches(R) = <<>>
           /\ f.kind = "checkpoint" /\ FrameError(o, f) = "none" => R = <<Frame("ack", f.body)>> /\ connected
  <1> HIDE DEF AllFrames
  <1>1. R \in Seq(AllFrames) /\ <<>> \in Seq(AllFrames) /\ Pairs(R) = {}
    BY PlainFacts DEF Plain
  <1>2. \A T \in {<<>>, <<Frame("ack", f.body)>>} :
                 /\ None(T, "checkpoint") /\ None(T, "notice") /\ Lone(T, "ack", f.body)
                 /\ \A i \in 1..Len(T) : ~Closed(T[i]) /\ T[i].kind # "notice"
    BY DEF None, Lone, Closed, Frame
  <1>3. R \in {<<>>, <<Frame("ack", f.body)>>} /\ Reaches(R) \in {R, <<>>}
    BY DEF FrameReply, Reaches
  <1>4. f.kind = "checkpoint" => FrameError(o, f) = CheckpointError(o, f.body)
    BY FrameCases
  <1>5. f.kind # "checkpoint" \/ FrameError(o, f) # "none" => R = <<>>
    BY <1>4 DEF FrameReply
  <1>6. f.kind = "checkpoint" /\ FrameError(o, f) = "none" => R = <<Frame("ack", f.body)>> /\ connected
    BY <1>4 DEF FrameReply, CheckpointError
  <1> QED  BY <1>1, <1>2, <1>3, <1>5, <1>6

\* An end that handles a checkpoint or an acknowledgement.
LEMMA TakeMx ==
    ASSUME TsInv, MxInv, ObsAdvance, NEW e \in Ends, NEW S, Turn(e, TRUE, S), Others(e), Bounded(e),
           Forward(e), Barred(e), Orderly(e, TRUE, S), raised' \cap Spurious = {},
           NEW f, f = Head(Incoming(e)), f.kind \in {"checkpoint", "ack"}, obs[e].s.phase \in Talking,
           Cp(obs'[e]) = Cp(HandleFrame(obs[e], f)), None(S, "checkpoint"),
           f.kind = "checkpoint" => Lone(S, "ack", f.body), f.kind = "ack" => None(S, "ack"),
           fin'[e].sent = fin[e].sent, fin'[e].own = fin[e].own, FinalSeen(e),
           fin'[e].seen => fin[e].seen \/ AckLeads(Incoming(Peer(e))')
    PROVE  MxInv'
  <1>1. Finals(e) /\ Incoming(e) # <<>>
    BY DEF MxInv, Turn
  <1>2. PICK o : o = HandleFrame(obs[e], f)
    OBVIOUS
  <1>3. /\ f.kind = "checkpoint" =>
              /\ o.s.received = f.body /\ o.s.next = obs[e].s.next /\ o.s.sent = obs[e].s.sent
              /\ o.awaiting = obs[e].awaiting
        /\ f.kind = "ack" =>
              /\ o.awaiting = FALSE /\ o.s.next = obs[e].s.next /\ o.s.sent = obs[e].s.sent
              /\ o.s.received = obs[e].s.received
    BY <1>1, <1>2, HandleMx
  <1>4. /\ obs'[e].s.next = o.s.next /\ obs'[e].s.sent = o.s.sent
        /\ obs'[e].s.received = o.s.received /\ obs'[e].awaiting = o.awaiting
    BY <1>2 DEF Cp
  <1>5. Exchanging(e, TRUE, S)
    BY <1>3, <1>4 DEF Exchanging, Taking, Acked
  <1>6. FinalSent(e, S)
    BY <1>1, <1>3, <1>4 DEF FinalSent, FinalSeen, Finals
  <1>7. Answered(e, TRUE)
    BY <1>3, <1>4 DEF Answered, Bounded
  <1>8. Moves(e, TRUE, S)
    BY <1>5, <1>6, <1>7 DEF Moves
  <1> QED  BY <1>8, MxKept

\* The peer's final checkpoint does not come before its notice.
LEMMA EarlyTaken ==
    ASSUME TsInv, MxInv, NEW e \in Ends, stage[e] \notin Past, obs[e].s.phase # "Failed",
           stage[e] = "closing" => proc[e] # NoFrame, stage[e] \in {"active", "closing", "receiver"},
           Incoming(e) # <<>>, Head(Incoming(e)).kind = "checkpoint", obs[e].s.phase \in Talking
    PROVE  ~fin[Peer(e)].sent
  <1>1. SUFFICES ASSUME fin[Peer(e)].sent PROVE FALSE
    OBVIOUS
  <1>2. PICK p \in Ends : p = Peer(e)
    BY EndFacts
  <1>3. Finals(p) /\ CloseOrder /\ TsTypes
    BY DEF MxInv, TsInv
  <1>4. PICK f : f = Head(Incoming(e))
    OBVIOUS
  <1>5. f.kind = "checkpoint" /\ f.body = obs[p].s.sent
    BY <1>2, <1>4, HandleMx
  <1>6. f.body.snapshot = Snapshot(obs[p].s) /\ Shut(obs[p].s.control)
    BY <1>1, <1>2, <1>3, <1>5 DEF Finals
  <1>7. Closed(f)
    <2>1. Snapshot(obs[p].s)[3] = obs[p].s.control
      BY DEF Snapshot
    <2> QED  BY <1>5, <1>6, <2>1 DEF Closed
  <1>8. 1 \in 1..Len(Incoming(e)) /\ Incoming(e)[1] = f
    BY <1>3, <1>4, IncomingFacts, DropFacts
  <1>9. CASE e = Controller
    <2>1. Told
      BY <1>3, <1>7, <1>8, <1>9 DEF CloseOrder, HostFollows
    <2> QED  BY <1>9, <2>1 DEF Told, HasFailed
  <1>10. CASE e = Host
    <2>1. AfterNotice(1)
      BY <1>3, <1>7, <1>8, <1>10 DEF CloseOrder, NoticeLeads
    <2>2. Noticed
      BY <2>1 DEF AfterNotice
    <2>3. reason[Host] # "none"
      BY <1>10, <2>2 DEF Noticed, HasFailed
    <2> QED  BY <1>3, <1>10, <2>3 DEF CloseOrder, HostFollows
  <1> QED  BY <1>9, <1>10, EndFacts

-----------------------------------------------------------------------------
(* Faults and frames that are read *)

\* A calm step that leaves the end where it is.
LEMMA StandCalm ==
    ASSUME TsInv, MxInv, ObsAdvance, NEW e \in Ends, Calm(e, FALSE, <<>>), stage'[e] = stage[e],
           proc'[e] = proc[e], reason'[e] = reason[e], obs'[e].s.control = obs[e].s.control
    PROVE  MxInv'
  <1>1. CloseOrder
    BY DEF MxInv
  <1>2. Forward(e) /\ Barred(e)
    BY DEF Forward, Barred, Calm, Behind
  <1>3. Orderly(e, FALSE, <<>>)
    <2>1. CASE e = Controller
      <3>1. OrderlyC(<<>>)
        BY <1>1, <2>1, EndFacts DEF OrderlyC, CloseOrder, Roles
      <3> QED  BY <2>1, <3>1 DEF Orderly
    <2>2. CASE e = Host
      <3>1. Behind(Host)' <=> Behind(Host)
        BY <2>2 DEF Behind
      <3>2. OrderlyH(FALSE, <<>>)
        BY <1>1, <2>2, <3>1, EndFacts DEF OrderlyH, CloseOrder, Roles, HostFollows
      <3> QED  BY <2>2, <3>2, EndFacts DEF Orderly
    <2> QED  BY <2>1, <2>2, EndFacts
  <1> QED  BY <1>2, <1>3, CalmKeeps

\* The writer of one end stops.
LEMMA WriterMx ==
    ASSUME TsInv, MxInv, ObsAdvance, NEW e \in Ends, WriterFails(e)
    PROVE  MxInv'
  <1>1. TsTypes /\ obs \in [Ends -> Observers]
    BY DEF TsInv, TsTypes
  <1>2. PICK o : o = [obs[e] EXCEPT !.writer = "failed"]
    OBVIOUS
  <1>3. Cp(o) = Cp(obs[e]) /\ o.s = obs[e].s
    BY <1>1, <1>2, CpKept, OtherFacts, SelfAdvances
  <1>4. /\ obs' = [obs EXCEPT ![e] = o] /\ stage[e] # "done"
        /\ UNCHANGED <<frames, connected, stage, reason, fin, raised, proc>>
    BY <1>1, <1>2 DEF WriterFails, finVars
  <1>5. obs'[e] = o /\ \A d \in Ends : d # e => obs'[d] = obs[d]
    BY <1>1, <1>4
  <1>6. Calm(e, FALSE, <<>>)
    <2>1. Turn(e, FALSE, <<>>)
      BY <1>1, <1>4, StillTurn
    <2>2. Others(e)
      BY <1>4, <1>5 DEF Others
    <2>3. raised' \cap Spurious = {}
      BY <1>4 DEF MxInv
    <2> QED  BY <1>3, <1>4, <1>5, <2>1, <2>2, <2>3, FailureFacts DEF Calm, Bounded
  <1> QED  BY <1>3, <1>4, <1>5, <1>6, StandCalm

\* A pump reads the next frame.
LEMMA ReadMx ==
    ASSUME TsInv, MxInv, ObsAdvance, NEW e \in Ends, AuditRead(e)
    PROVE  MxInv'
  <1> HIDE DEF AllFrames
  <1>1. TsTypes /\ CloseOrder /\ proc \in [Ends -> AllFrames \cup {NoFrame}]
    BY DEF TsInv, MxInv, TsTypes
  <1>2. /\ stage[e] = "active" /\ UNCHANGED <<obs, connected, stage, reason, fin, raised>>
        /\ frames[e] # <<>> /\ frames' = Taken(e)
    BY DEF AuditRead, Active, finVars
  <1>3. \A d \in Ends : d # e => proc'[d] = proc[d]
    BY <1>1 DEF AuditRead
  <1>4. \A d \in Ends : Pairs(frames'[d]) \subseteq Pairs(frames[d])
    BY <1>1, <1>2, FrameFacts
  <1>5. stage[e] \notin Past /\ stage'[e] = "active" /\ stage[e] # "done" /\ Peer(e) \in Ends
    BY <1>2, EndFacts DEF Past, Late
  <1>6. Calm(e, FALSE, <<>>)
    <2>1. Turn(e, FALSE, <<>>)
      BY <1>1, SlotTurn
    <2>2. Others(e)
      BY <1>2, <1>3 DEF Others
    <2>3. raised' \cap Spurious = {}
      BY <1>2 DEF MxInv
    <2> QED  BY <1>2, <1>4, <1>5, <2>1, <2>2, <2>3, FailureFacts DEF Calm, Bounded
  <1>7. ~Shut(obs'[e].s.control)
    BY <1>2, <1>5, EarlyFacts DEF Past
  <1>8. Orderly(e, FALSE, <<>>)
    <2>1. CASE e = Controller
      <3>1. OrderlyC(<<>>)
        BY <1>5, <2>1 DEF OrderlyC
      <3> QED  BY <2>1, <3>1 DEF Orderly
    <2>2. CASE e = Host
      <3>1. ~Behind(Host)' /\ reason[Host] = "none"
        BY <1>1, <1>2, <1>5, <2>2 DEF Behind, CloseOrder, HostFollows
      <3>2. OrderlyH(FALSE, <<>>)
        BY <1>2, <1>5, <2>2, <3>1 DEF OrderlyH
      <3> QED  BY <2>2, <3>2, EndFacts DEF Orderly
    <2> QED  BY <2>1, <2>2, EndFacts
  <1>9. stage'[e] \notin Past
    BY <1>2, <1>5
  <1> QED  BY <1>5, <1>6, <1>7, <1>8, <1>9, EarlyCalm

\* What the network and the writers do, short of a foreign checkpoint.
LEMMA DeliveringMx ==
    ASSUME TsInv, MxInv, ObsAdvance, Delivering
    PROVE  MxInv' \/ ForeignCheckpoint
  <1>1. CASE PeerLeaves \/ LinkFails
    <2>1. /\ UNCHANGED <<obs, proc, stage, reason, fin, raised>> /\ connected' = FALSE
          /\ frames' = frames \/ frames' = [d \in Ends |-> <<>>]
      BY <1>1 DEF PeerLeaves, LinkFails, Disconnect, finVars
    <2> QED  BY <2>1, LossKeeps DEF TsInv
  <1> QED  BY <1>1, WriterMx, ReadMx DEF Delivering

-----------------------------------------------------------------------------
(* The audit branches of the pumps *)

\* A checkpoint that is built and sent.
LEMMA SendCp ==
    ASSUME NEW o, Sane(o), NEW p, p = SendCheckpoint(o)
    PROVE  /\ p.awaiting = TRUE /\ p.s.next = o.s.next + 1 /\ p.s.sent = Checkpoint(o.s)
           /\ p.s.received = o.s.received /\ p.s.control = o.s.control /\ p.s.phase = o.s.phase
           /\ Snapshot(p.s) = Snapshot(o.s)
           /\ p.s.sent.sequence = o.s.next /\ p.s.sent.snapshot = Snapshot(o.s)
           /\ p.s.sent.snapshot[3] = o.s.control
           /\ CheckpointFrame(o) = <<Frame("checkpoint", p.s.sent)>>
           /\ CheckpointFrame(o) \in Seq(AllFrames) /\ Pairs(CheckpointFrame(o)) = {}
  <1>1. o \in Observers /\ o.s \in Sessions
    BY DEF Sane, Observers
  <1>2. /\ DOMAIN o.s = {"phase", "input", "output", "control", "next", "sent", "received",
                         "confirmedSent", "confirmedReceived"}
        /\ DOMAIN o = {"s", "awaiting", "writer", "noted", "file"}
    BY <1>1 DEF Observers, Sessions
  <1>3. PICK c : c = Checkpoint(o.s)
    OBVIOUS
  <1>4. PICK k : k = o.s.next + 1
    OBVIOUS
  <1>5. PICK n : n = [o.s EXCEPT !.sent = c, !.next = k]
    OBVIOUS
  <1>6. n = BuildCheckpoint(o.s)
    BY <1>3, <1>4, <1>5 DEF BuildCheckpoint
  <1>7. /\ n.sent = c /\ n.next = k /\ n.received = o.s.received /\ n.control = o.s.control
        /\ n.phase = o.s.phase /\ n.input = o.s.input /\ n.output = o.s.output
    BY <1>2, <1>5
  <1>8. p = [o EXCEPT !.s = n, !.awaiting = TRUE]
    BY <1>6 DEF SendCheckpoint
  <1>9. p.s = n /\ p.awaiting = TRUE
    BY <1>2, <1>8
  <1>10. Snapshot(n) = Snapshot(o.s) /\ Snapshot(o.s)[3] = o.s.control
    BY <1>7 DEF Snapshot
  <1>11. c.sequence = o.s.next /\ c.snapshot = Snapshot(o.s)
    BY <1>3 DEF Checkpoint
  <1>12. CheckpointFrame(o) = <<Frame("checkpoint", c)>>
    BY <1>3 DEF CheckpointFrame
  <1>13. CheckpointFrame(o) \in Seq(AllFrames) /\ Pairs(CheckpointFrame(o)) = {}
    BY PlainFacts DEF Plain
  <1> QED  BY <1>3, <1>4, <1>7, <1>9, <1>10, <1>11, <1>12, <1>13

\* The audit_failure owner of the controller.
LEMMA FailClosedMx ==
    ASSUME TsInv, MxInv, ObsAdvance, CFailClosed
    PROVE  MxInv'
  <1> HIDE DEF AllFrames
  <1>1. TsTypes /\ Controller \in Ends /\ stage \in [Ends -> Stages] /\ Sane(obs[Controller])
    BY EndFacts DEF TsInv, TsTypes
  <1>2. PICK o : o = FailObserver(obs[Controller])
    OBVIOUS
  <1>3. /\ Cp(o) = Cp(obs[Controller]) /\ o.s.phase = "Failed"
        /\ o.s.control = obs[Controller].s.control
    BY <1>1, <1>2, CpKept, FailFacts DEF Sane, Kept
  <1>4. /\ obs' = [obs EXCEPT ![Controller] = o] /\ frames' = Posted(frames, Controller, FailNotices)
        /\ stage[Controller] = "closing" /\ UNCHANGED <<stage, reason, fin, proc, connected, raised>>
    BY <1>2 DEF CFailClosed, Post, finVars
  <1>5. stage' = [stage EXCEPT ![Controller] = stage[Controller]]
    BY <1>1, <1>4
  <1>6. raised' \cap Spurious = {} /\ FailNotices \in Seq(AllFrames) /\ Failure(FailNotices)
    BY <1>4, FailureFacts DEF MxInv
  <1>7. PICK q \in Seq(AllFrames) : q = FailNotices
    BY <1>6
  <1>8. Calm(Controller, FALSE, Reaches(q)) /\ obs'[Controller] = o
    <2>1. (\A d \in Ends : d # Controller => reason'[d] = reason[d]) /\ stage[Controller] # "done"
      BY <1>4
    <2>2. Failure(q) /\ frames' = Posted(frames, Controller, q) /\ UNCHANGED <<fin, proc, connected>>
      BY <1>4, <1>6, <1>7
    <2>3. PICK n : stage' = [stage EXCEPT ![Controller] = n]
      BY <1>5
    <2>4. obs' = [obs EXCEPT ![Controller] = o] /\ Controller \in Ends
      BY <1>1, <1>4
    <2> QED  BY <1>3, <1>6, <2>1, <2>2, <2>3, <2>4, CalmWrite
  <1>9. HasFailed(Controller)' /\ ~Shut(obs'[Controller].s.control)
    <2>1. ~Shut(obs[Controller].s.control)
      BY <1>1, <1>4, EarlyFacts DEF Late
    <2> QED  BY <1>3, <1>8, <2>1 DEF HasFailed
  <1> QED  BY <1>1, <1>4, <1>8, <1>9, PumpCalm DEF Pumping

\* send_due_checkpoint.
LEMMA AuditSendMx ==
    ASSUME TsInv, MxInv, ObsAdvance, NEW e \in Ends, AuditSend(e)
    PROVE  MxInv'
  <1> HIDE DEF AllFrames
  <1>1. /\ TsTypes /\ stage \in [Ends -> Stages] /\ Sane(obs[e]) /\ obs \in [Ends -> Observers]
        /\ CloseOrder /\ raised \cap Spurious = {}
    BY DEF TsInv, TsTypes, MxInv
  <1>2. PICK o : o = SendCheckpoint(obs[e])
    OBVIOUS
  <1>3. PICK q : q = CheckpointFrame(obs[e])
    OBVIOUS
  <1>4. /\ o.awaiting = TRUE /\ o.s.next = obs[e].s.next + 1 /\ o.s.sent = Checkpoint(obs[e].s)
        /\ o.s.received = obs[e].s.received /\ o.s.control = obs[e].s.control
        /\ o.s.sent.snapshot[3] = obs[e].s.control
        /\ q = <<Frame("checkpoint", o.s.sent)>> /\ q \in Seq(AllFrames)
    BY <1>1, <1>2, <1>3, SendCp, ZenonT(30)
  <1>5. /\ stage[e] = "active" /\ ~obs[e].awaiting /\ obs' = [obs EXCEPT ![e] = o]
        /\ UNCHANGED <<connected, reason, fin, raised, proc>>
    BY <1>2 DEF AuditSend, Active, CheckpointDue
  <1>6. obs'[e] = o /\ \A d \in Ends : d # e => obs'[d] = obs[d]
    BY <1>1, <1>5
  <1>7. stage'[e] \in {"active", "closing"} /\ \A d \in Ends : d # e => stage'[d] = stage[d]
    <2>1. UNCHANGED stage \/ stage' = [stage EXCEPT ![e] = "closing"]
      BY DEF AuditSend, PumpContinues
    <2> QED  BY <1>1, <1>5, <2>1
  <1>8. /\ stage[e] \notin Past /\ stage[e] \notin Late /\ stage[e] # "done" /\ ~Behind(e)'
        /\ stage'[e] \notin Late /\ stage'[e] \notin Past
    BY <1>5, <1>7 DEF Past, Late, Behind
  <1>9. /\ ~fin[e].sent /\ ~fin[e].seen /\ ~fin[Peer(e)].seen /\ fin[e].own = NoManifest
        /\ ~Shut(obs[e].s.control)
    BY <1>8, EarlyFacts
  <1>10. Peer(e) \in Ends
    BY EndFacts
  <1>11. PICK S : /\ S \in {q, <<>>} /\ Turn(e, FALSE, S) /\ frames'[e] = frames[e]
                  /\ ~connected => frames' = frames
    <2>1. CASE frames' = frames
      <3>1. Turn(e, FALSE, <<>>)
        BY <1>1, <1>5, <2>1, StillTurn
      <3> QED  BY <2>1, <3>1
    <2>2. CASE frames' # frames
      <3>1. frames' = Posted(frames, e, q) /\ connected
        BY <1>3, <2>2 DEF AuditSend, Post
      <3>2. Turn(e, FALSE, Reaches(q)) /\ frames'[e] = frames[e]
        BY <1>1, <1>4, <1>5, <3>1, WriteTurn
      <3> QED  BY <3>1, <3>2 DEF Reaches
    <2> QED  BY <2>1, <2>2
  <1>12. /\ Lone(S, "checkpoint", o.s.sent) /\ None(S, "ack")
         /\ \A i \in 1..Len(S) : S[i] = Frame("checkpoint", o.s.sent)
    <2>1. S = <<>> \/ S = <<Frame("checkpoint", o.s.sent)>>
      BY <1>4, <1>11
    <2> QED  BY <2>1 DEF Lone, None, Frame
  <1>13. Exchanging(e, FALSE, S)
    BY <1>4, <1>5, <1>6, <1>12 DEF Exchanging, Sending
  <1>14. Others(e) /\ Forward(e) /\ Barred(e)
    BY <1>4, <1>5, <1>6, <1>7, <1>8 DEF Others, Forward, Barred
  <1>15. FinalSent(e, S)
    BY <1>4, <1>5, <1>6, <1>9 DEF FinalSent
  <1>16. FinalSeen(e)
    BY <1>4, <1>5, <1>6, <1>9 DEF FinalSeen
  <1>17. Answered(e, FALSE)
    BY <1>5, <1>9, <1>11 DEF Answered
  <1>18. \A i \in 1..Len(S) : ~Closed(S[i]) /\ S[i].kind # "notice"
    BY <1>4, <1>9, <1>12 DEF Closed, Frame
  <1>19. Orderly(e, FALSE, S)
    <2>1. CASE e = Controller
      <3>1. OrderlyC(S)
        BY <1>7, <1>18, <2>1 DEF OrderlyC
      <3> QED  BY <2>1, <3>1 DEF Orderly
    <2>2. CASE e = Host
      <3>1. reason[Host] = "none"
        BY <1>1, <1>5, <2>2 DEF CloseOrder, HostFollows
      <3>2. OrderlyH(FALSE, S)
        BY <1>5, <1>7, <1>8, <1>18, <2>2, <3>1 DEF OrderlyH
      <3> QED  BY <2>2, <3>2, EndFacts DEF Orderly
    <2> QED  BY <2>1, <2>2, EndFacts
  <1>20. Moves(e, FALSE, S)
    BY <1>1, <1>5, <1>11, <1>13, <1>14, <1>15, <1>16, <1>17, <1>19 DEF Moves
  <1> QED  BY <1>20, MxKept

\* What handle_frame in the process slot leaves of the pump.
LEMMA ProcessFacts ==
    ASSUME TsInv, MxInv, NEW e \in Ends, AuditProcess(e), NEW f, f = proc[e], NEW R, R = FrameReply(obs[e], f)
    PROVE  /\ stage[e] \in {"active", "closing"} /\ stage'[e] \in {"active", "closing"}
           /\ stage[e] = "closing" => stage'[e] = "closing"
           /\ \A d \in Ends : d # e => stage'[d] = stage[d] /\ obs'[d] = obs[d] /\ proc'[d] = proc[d]
           /\ obs'[e] = HandleFrame(obs[e], f) /\ proc'[e] = NoFrame
           /\ \A d \in Ends : d # e => reason'[d] = reason[d]
           /\ PeerCloses(e, f) => reason'[e] = f.body /\ stage'[e] = "closing"
           /\ ~PeerCloses(e, f) => reason'[e] = reason[e]
           /\ UNCHANGED <<connected, fin>> /\ raised' \cap Spurious = {}
           /\ Turn(e, TRUE, Reaches(R)) /\ Incoming(e) # <<>> /\ f = Head(Incoming(e)) /\ f \in AllFrames
           /\ Bounded(e)
           /\ obs[e].s.phase \in {"Active", "Failed"} /\ ~Shut(obs[e].s.control)
           /\ reason[Host] # "none" => e # Host
  <1> HIDE DEF AllFrames
  <1>1. /\ TsTypes /\ stage \in [Ends -> Stages] /\ Sane(obs[e]) /\ obs \in [Ends -> Observers]
        /\ CloseOrder /\ raised \cap Spurious = {} /\ Closes(e) /\ reason \in [Ends -> Reasons]
        /\ proc \in [Ends -> AllFrames \cup {NoFrame}]
    BY DEF TsInv, TsTypes, MxInv
  <1>2. /\ stage[e] \in {"active", "closing"} /\ f # NoFrame
        /\ proc' = [proc EXCEPT ![e] = NoFrame] /\ obs' = [obs EXCEPT ![e] = HandleFrame(obs[e], f)]
        /\ frames' = Posted(frames, e, R) /\ UNCHANGED <<connected, fin>>
        /\ raised' \in {raised, raised \cup {FrameError(obs[e], f)}}
    <2>1. PICK o : o = HandleFrame(obs[e], f)
      OBVIOUS
    <2>2. obs' = [obs EXCEPT ![e] = o]
      BY <2>1 DEF AuditProcess
    <2> QED  BY <2>1, <2>2 DEF AuditProcess, Pumping, Post
  <1>3. PICK o : o = HandleFrame(obs[e], f)
    OBVIOUS
  <1>4. obs'[e] = o /\ proc'[e] = NoFrame /\ \A d \in Ends : d # e => obs'[d] = obs[d] /\ proc'[d] = proc[d]
    BY <1>1, <1>2, <1>3
  <1>5. UNCHANGED stage \/ stage' = [stage EXCEPT ![e] = "closing"]
    BY DEF AuditProcess, PumpContinues
  <1>6. /\ PeerCloses(e, f) => reason' = [reason EXCEPT ![e] = f.body] /\ stage' = [stage EXCEPT ![e] = "closing"]
        /\ ~PeerCloses(e, f) => UNCHANGED reason
    <2>1. PeerCloses(e, f) => f.kind \notin {"checkpoint", "ack"}
      BY DEF PeerCloses
    <2> QED  BY <2>1 DEF AuditProcess
  <1>7. R \in Seq(AllFrames)
    <2>1. f \in AllFrames
      BY <1>1, <1>2
    <2> QED  BY <2>1, ReplyFacts
  <1>8. /\ Turn(e, TRUE, Reaches(R)) /\ Head(Incoming(e)) = f /\ f \in AllFrames /\ frames'[e] = frames[e]
    BY <1>1, <1>2, <1>7, ProcessTurn
  <1>9. Incoming(e) # <<>>
    BY <1>8 DEF Turn
  <1>10. FrameError(obs[e], f) \notin Spurious
    BY <1>8, <1>9, HandleMx
  <1>11. ~connected => frames' = frames
    BY <1>2 DEF Posted
  <1>12. Bounded(e)
    BY <1>8, <1>11 DEF Bounded
  <1>13. obs[e].s.phase \in Phases /\ stage[e] \notin Late
    BY <1>1, <1>2 DEF Sane, Observers, Sessions, Late
  <1>14. obs[e].s.phase \in {"Active", "Failed"} /\ ~Shut(obs[e].s.control)
    BY <1>1, <1>2, <1>13, EarlyFacts DEF Closes, Phases
  <1>15. reason[Host] # "none" => e # Host
    BY <1>1, <1>2 DEF CloseOrder, HostFollows
  <1>16. /\ \A d \in Ends : d # e => stage'[d] = stage[d] /\ reason'[d] = reason[d]
         /\ PeerCloses(e, f) => reason'[e] = f.body /\ stage'[e] = "closing"
         /\ ~PeerCloses(e, f) => reason'[e] = reason[e]
         /\ stage'[e] \in {stage[e], "closing"}
    BY <1>1, <1>5, <1>6
  <1>17. raised' \cap Spurious = {}
    BY <1>1, <1>2, <1>10
  <1> QED  BY <1>2, <1>3, <1>4, <1>8, <1>9, <1>12, <1>14, <1>15, <1>16, <1>17

\* handle_frame in the process slot.
LEMMA AuditProcessMx ==
    ASSUME TsInv, MxInv, ObsAdvance, NEW e \in Ends, AuditProcess(e)
    PROVE  MxInv'
  <1> HIDE DEF AllFrames
  <1>1. PICK f : f = proc[e]
    OBVIOUS
  <1>2. PICK R : R = FrameReply(obs[e], f)
    OBVIOUS
  <1>3. PICK S : S = Reaches(R)
    OBVIOUS
  <1>4. /\ stage[e] \in {"active", "closing"} /\ stage'[e] \in {"active", "closing"}
        /\ stage[e] = "closing" => stage'[e] = "closing"
        /\ \A d \in Ends : d # e => stage'[d] = stage[d] /\ obs'[d] = obs[d] /\ proc'[d] = proc[d]
        /\ obs'[e] = HandleFrame(obs[e], f) /\ proc'[e] = NoFrame
        /\ \A d \in Ends : d # e => reason'[d] = reason[d]
        /\ PeerCloses(e, f) => reason'[e] = f.body /\ stage'[e] = "closing"
        /\ ~PeerCloses(e, f) => reason'[e] = reason[e]
        /\ UNCHANGED <<connected, fin>> /\ raised' \cap Spurious = {}
        /\ Turn(e, TRUE, S) /\ Incoming(e) # <<>> /\ f = Head(Incoming(e)) /\ f \in AllFrames
        /\ Bounded(e)
        /\ obs[e].s.phase \in {"Active", "Failed"} /\ ~Shut(obs[e].s.control)
        /\ reason[Host] # "none" => e # Host
    BY <1>1, <1>2, <1>3, ProcessFacts, ZenonT(30)
  <1>5. /\ TsTypes /\ Sane(obs[e]) /\ CloseOrder
    BY DEF TsInv, TsTypes, MxInv
  <1>6. obs'[e].s.control = obs[e].s.control
    BY <1>4, <1>5, HandleFacts DEF Kept
  <1>7. /\ stage[e] \notin Past /\ stage'[e] \notin Past /\ stage[e] # "done" /\ ~Behind(e)'
        /\ stage[e] \notin Late /\ stage'[e] \notin Late
    BY <1>4 DEF Past, Late, Behind
  <1>8. Others(e) /\ Forward(e) /\ Barred(e)
    BY <1>4, <1>6, <1>7 DEF Others, Forward, Barred
  <1>9. \A i \in 1..Len(S) : ~Closed(S[i]) /\ S[i].kind # "notice"
    BY <1>2, <1>3, <1>4, ReplyFacts
  <1>10. Orderly(e, TRUE, S)
    <2>1. CASE e = Controller
      <3>1. OrderlyC(S)
        BY <1>4, <1>9, <2>1 DEF OrderlyC
      <3> QED  BY <2>1, <3>1 DEF Orderly
    <2>2. CASE e = Host
      <3>1. f.kind = "notice" => Told /\ f.body # "none"
        <4>1. PICK q \in Seq(AllFrames) : q = Incoming(Host)
          BY <1>5, <2>2, IncomingFacts
        <4>2. 1 \in 1..Len(q) /\ q[1] = f
          BY <1>4, <2>2, <4>1, DropFacts
        <4> QED  BY <1>5, <4>1, <4>2 DEF CloseOrder, NoticeLeads
      <3>2. Notice(f) <=> PeerCloses(e, f)
        BY <2>2 DEF Notice, PeerCloses
      <3>3. Notice(f) => f.kind = "notice"
        BY DEF Notice
      <3>4. Notice(Head(Incoming(Host))) => Noticed'
        BY <1>4, <2>2, <3>1, <3>2, <3>3 DEF Noticed
      <3>5. OrderlyH(TRUE, S)
        BY <1>4, <1>7, <1>9, <2>2, <3>1, <3>2, <3>3, <3>4 DEF OrderlyH
      <3> QED  BY <2>2, <3>5, EndFacts DEF Orderly
    <2> QED  BY <2>1, <2>2, EndFacts
  <1>11. CASE f.kind \in {"checkpoint", "ack"} /\ obs[e].s.phase = "Active"
    <2>1. obs[e].s.phase \in Talking
      BY <1>11 DEF Talking
    <2>2. /\ None(S, "checkpoint")
          /\ f.kind = "checkpoint" => Lone(S, "ack", f.body)
          /\ f.kind = "ack" => S = <<>>
      BY <1>2, <1>3, <1>4, ReplyFacts
    <2>3. f.kind = "ack" => None(S, "ack")
      BY <2>2 DEF None
    <2>4. f.kind = "checkpoint" => ~fin[Peer(e)].sent
      <3>1. /\ obs[e].s.phase # "Failed" /\ stage[e] \in {"active", "closing", "receiver"}
            /\ proc[e] # NoFrame /\ Incoming(e) # <<>> /\ stage[e] \notin Past
        BY <1>4, <1>7, <1>11 DEF AuditProcess
      <3>2. f.kind = "checkpoint" => Head(Incoming(e)).kind = "checkpoint"
        BY <1>4
      <3> QED  BY <2>1, <3>1, <3>2, EarlyTaken
    <2>5. f.kind = "ack" => obs'[e].s.received = obs[e].s.received
      BY <1>4, <2>1, HandleMx, ZenonT(30)
    <2>6. FinalSeen(e)
      BY <1>4, <1>11, <2>4, <2>5 DEF FinalSeen
    <2> QED  BY <1>4, <1>8, <1>10, <1>11, <2>1, <2>2, <2>3, <2>6, TakeMx
  <1>12. CASE ~(f.kind \in {"checkpoint", "ack"} /\ obs[e].s.phase = "Active")
    <2>1. f.kind \notin {"checkpoint", "ack"} \/ obs[e].s.phase \notin Talking
      BY <1>4, <1>12 DEF Talking
    <2>2. obs'[e] = obs[e]
      BY <1>4, <2>1, HandleMx
    <2>3. f.kind = "checkpoint" => FrameError(obs[e], f) # "none"
      BY <2>1, FrameCases DEF CheckpointError, Talking
    <2>4. S = <<>>
      BY <1>2, <1>3, <1>4, <2>3, ReplyFacts
    <2>5. Calm(e, TRUE, S)
      BY <1>4, <1>7, <1>8, <2>2, <2>4, FailureFacts DEF Calm
    <2> QED  BY <1>4, <1>6, <1>7, <1>10, <2>5, EarlyCalm
  <1> QED  BY <1>11, <1>12

\* The audit branches of the pumps.
LEMMA AuditingMx ==
    ASSUME TsInv, MxInv, ObsAdvance, Auditing
    PROVE  MxInv'
  <1>1. ASSUME NEW e \in Ends, AuditEof(e)
        PROVE  MxInv'
    <2>1. /\ Pumping(e) /\ UNCHANGED <<obs, frames, proc, reason, fin, raised, connected>>
          /\ stage' = [stage EXCEPT ![e] = "closing"]
      BY <1>1 DEF AuditEof, Active, Pumping
    <2> QED  BY <2>1, ActMx
  <1> QED  BY <1>1, FailClosedMx, AuditSendMx, AuditProcessMx DEF Auditing

-----------------------------------------------------------------------------
(* How the sessions end *)

\* A step that ends the session of e and writes failure frames, or nothing.
LEMMA DoneMx ==
    ASSUME TsInv, MxInv, ObsAdvance, NEW e \in Ends, stage[e] # "done", proc[e] = NoFrame,
           NEW o, obs' = [obs EXCEPT ![e] = o], Cp(o) = Cp(obs[e]),
           NEW q \in Seq(AllFrames), Failure(q), frames' = Posted(frames, e, q),
           stage' = [stage EXCEPT ![e] = "done"], UNCHANGED <<fin, proc, connected, reason>>,
           raised' \cap Spurious = {}
    PROVE  MxInv'
  <1> HIDE DEF AllFrames
  <1>1. Calm(e, FALSE, Reaches(q)) /\ stage'[e] = "done"
    <2>1. (\A d \in Ends : d # e => reason'[d] = reason[d]) /\ UNCHANGED <<fin, proc, connected>>
      OBVIOUS
    <2> QED  BY <2>1, CalmWrite
  <1> QED  BY <1>1, DoneCalm

\* A step before the barrier that writes nothing.
LEMMA MoveMx ==
    ASSUME TsInv, MxInv, ObsAdvance, NEW e \in Ends, stage[e] \notin Past, proc[e] = NoFrame,
           NEW o, obs' = [obs EXCEPT ![e] = o], Cp(o) = Cp(obs[e]), ~Shut(o.s.control),
           NEW next, stage' = [stage EXCEPT ![e] = next], next \notin Past, next # "active",
           e = Controller => next # "receiver" /\ (next = "notice" => reason'[e] \notin {"none", "AuditFailure"}),
           e = Host => next # "notice" /\ reason[e] = "none" /\ reason'[e] = "none",
           \A d \in Ends : d # e => reason'[d] = reason[d],
           UNCHANGED <<frames, fin, proc, connected, raised>>
    PROVE  MxInv'
  <1> HIDE DEF AllFrames
  <1>1. TsTypes /\ frames \in [Ends -> Seq(AllFrames)] /\ raised' \cap Spurious = {}
    BY DEF TsInv, TsTypes, MxInv
  <1>2. <<>> \in Seq(AllFrames) /\ frames' = Posted(frames, e, <<>>) /\ Failure(<<>>) /\ Reaches(<<>>) = <<>>
    BY <1>1, FailureFacts, PostedTo
  <1>3. PICK q \in Seq(AllFrames) : q = <<>>
    BY <1>2
  <1>4. stage[e] # "done" /\ UNCHANGED <<fin, proc, connected>>
    BY DEF Past, Late
  <1>5. Calm(e, FALSE, Reaches(q)) /\ obs'[e] = o /\ stage'[e] = next
    <2>1. frames' = Posted(frames, e, q) /\ Failure(q)
      BY <1>2, <1>3
    <2> QED  BY <1>1, <1>4, <2>1, CalmWrite
  <1>6. Calm(e, FALSE, <<>>)
    BY <1>2, <1>3, <1>5
  <1>7. Orderly(e, FALSE, <<>>)
    <2>1. CASE e = Controller
      <3>1. OrderlyC(<<>>)
        BY <1>5, <2>1 DEF OrderlyC, Past, Late
      <3> QED  BY <2>1, <3>1 DEF Orderly
    <2>2. CASE e = Host
      <3>1. ~Behind(Host)' /\ stage'[Host] # "barrier"
        BY <1>5, <2>2 DEF Behind, Past, Late
      <3>2. OrderlyH(FALSE, <<>>)
        BY <1>5, <2>2, <3>1 DEF OrderlyH
      <3> QED  BY <2>2, <3>2, EndFacts DEF Orderly
    <2> QED  BY <2>1, <2>2, EndFacts
  <1> QED  BY <1>5, <1>6, <1>7, EarlyCalm

\* The session of e fails or is interrupted.
LEMMA EndsMx ==
    ASSUME TsInv, MxInv, ObsAdvance, NEW e \in Ends, stage[e] # "done", proc[e] = NoFrame,
           UNCHANGED <<fin, proc, connected, raised>>,
           \/ EndsFailed(e, FailObserver(obs[e]), Post(e, FailNotices))
           \/ EndsFailed(e, obs[e], frames)
           \/ \E r : EndsInterrupted(e, r)
    PROVE  MxInv'
  <1> HIDE DEF AllFrames
  <1>1. /\ TsTypes /\ Sane(obs[e]) /\ obs[e] \in Observers /\ frames \in [Ends -> Seq(AllFrames)]
        /\ raised' \cap Spurious = {}
    BY DEF TsInv, TsTypes, MxInv, Sane
  <1>2. PICK z \in Seq(AllFrames) : Failure(z) /\ Posted(frames, e, z) = frames
    BY <1>1, FailureFacts, PostedTo
  <1>3. PICK q \in Seq(AllFrames) : Failure(q) /\ q = FailNotices
    BY FailureFacts
  <1>4. CASE EndsFailed(e, FailObserver(obs[e]), Post(e, FailNotices))
    <2>1. PICK o : o = FailObserver(obs[e])
      OBVIOUS
    <2>2. Cp(o) = Cp(obs[e])
      BY <1>1, <2>1, CpKept
    <2>3. /\ obs' = [obs EXCEPT ![e] = o] /\ frames' = Posted(frames, e, q)
          /\ stage' = [stage EXCEPT ![e] = "done"] /\ UNCHANGED <<fin, proc, connected, reason>>
      BY <1>3, <1>4, <2>1 DEF EndsFailed, Post
    <2> QED  BY <1>1, <1>3, <2>2, <2>3, DoneMx
  <1>5. CASE EndsFailed(e, obs[e], frames)
    <2>1. PICK o : o = obs[e]
      OBVIOUS
    <2>2. Cp(o) = Cp(obs[e])
      BY <2>1
    <2>3. /\ obs' = [obs EXCEPT ![e] = o] /\ frames' = Posted(frames, e, z)
          /\ stage' = [stage EXCEPT ![e] = "done"] /\ UNCHANGED <<fin, proc, connected, reason>>
      BY <1>2, <1>5, <2>1 DEF EndsFailed
    <2> QED  BY <1>1, <1>2, <2>2, <2>3, DoneMx
  <1>6. ASSUME NEW r, EndsInterrupted(e, r)
        PROVE  MxInv'
    <2>1. PICK o : o = CloseInterrupted(obs[e])
      OBVIOUS
    <2>2. Cp(o) = Cp(obs[e])
      BY <1>1, <2>1, CpFacts
    <2>3. /\ obs' = [obs EXCEPT ![e] = o] /\ frames' = Posted(frames, e, z)
          /\ stage' = [stage EXCEPT ![e] = "done"] /\ UNCHANGED <<fin, proc, connected, reason>>
      BY <1>2, <1>6, <2>1 DEF EndsInterrupted
    <2> QED  BY <1>1, <1>2, <2>2, <2>3, DoneMx
  <1> QED  BY <1>4, <1>5, <1>6

\* The controller goes on with its record as it is.
LEMMA StepMx ==
    ASSUME TsInv, MxInv, ObsAdvance, stage[Controller] \notin Past, proc[Controller] = NoFrame,
           NEW next, stage' = [stage EXCEPT ![Controller] = next], next \in {"notice", "completing", "hostclose"},
           next = "notice" => \E r \in {"LocalInterrupt", "NormalShellExit"} :
                                reason' = [reason EXCEPT ![Controller] = r],
           next # "notice" => UNCHANGED reason,
           UNCHANGED <<obs, frames, fin, proc, connected, raised>>
    PROVE  MxInv'
  <1>1. /\ Controller \in Ends /\ obs \in [Ends -> Observers] /\ reason \in [Ends -> Reasons]
    BY EndFacts DEF TsInv, TsTypes
  <1>2. PICK o : o = obs[Controller]
    OBVIOUS
  <1>3. Cp(o) = Cp(obs[Controller]) /\ obs' = [obs EXCEPT ![Controller] = o]
    BY <1>1, <1>2
  <1>4. ~Shut(o.s.control)
    BY <1>1, <1>2, EarlyFacts DEF Past
  <1>5. /\ next = "notice" => reason'[Controller] \notin {"none", "AuditFailure"}
        /\ \A d \in Ends : d # Controller => reason'[d] = reason[d]
    BY <1>1
  <1>6. next \notin Past /\ next # "active" /\ next # "receiver" /\ Controller # Host
    BY EndFacts DEF Past, Late
  <1> QED  BY <1>1, <1>3, <1>4, <1>5, <1>6, MoveMx

\* The controller's pump has settled.
LEMMA CClosedMx ==
    ASSUME TsInv, MxInv, ObsAdvance, CClosed
    PROVE  MxInv'
  <1>1. /\ Controller \in Ends /\ stage[Controller] = "closing" /\ proc[Controller] = NoFrame
        /\ UNCHANGED <<fin, proc, connected, raised>>
    BY EndFacts DEF CClosed, termVars
  <1>2. stage[Controller] # "done" /\ stage[Controller] \notin Past
    BY <1>1 DEF Past, Late
  <1>3. \/ EndsFailed(Controller, FailObserver(obs[Controller]), Post(Controller, FailNotices))
        \/ EndsFailed(Controller, obs[Controller], frames)
        \/ EndsInterrupted(Controller, result[Controller])
        \/ EndsJointly(Controller, "notice", "LocalInterrupt", "LocalInterrupt")
        \/ stage' = [stage EXCEPT ![Controller] = "completing"] /\ UNCHANGED <<obs, frames, reason>>
    BY DEF CClosed
  <1>4. CASE \/ EndsFailed(Controller, FailObserver(obs[Controller]), Post(Controller, FailNotices))
             \/ EndsFailed(Controller, obs[Controller], frames)
             \/ EndsInterrupted(Controller, result[Controller])
    BY <1>1, <1>2, <1>4, EndsMx
  <1>5. CASE EndsJointly(Controller, "notice", "LocalInterrupt", "LocalInterrupt")
    <2>1. /\ stage' = [stage EXCEPT ![Controller] = "notice"]
          /\ reason' = [reason EXCEPT ![Controller] = "LocalInterrupt"] /\ UNCHANGED <<obs, frames>>
      BY <1>5 DEF EndsJointly
    <2> QED  BY <1>1, <1>2, <2>1, StepMx
  <1>6. CASE stage' = [stage EXCEPT ![Controller] = "completing"] /\ UNCHANGED <<obs, frames, reason>>
    BY <1>1, <1>2, <1>6, StepMx
  <1> QED  BY <1>3, <1>4, <1>5, <1>6

\* TerminalComplete is recorded.
LEMMA CompleteMx ==
    ASSUME TsInv, MxInv, ObsAdvance, CRecordComplete
    PROVE  MxInv'
  <1> HIDE DEF AllFrames
  <1>1. /\ Controller \in Ends /\ TsTypes /\ Sane(obs[Controller]) /\ Closes(Controller) /\ CloseOrder
        /\ raised \cap Spurious = {} /\ Controller # Host
    BY EndFacts DEF TsInv, TsTypes, MxInv
  <1>2. stage[Controller] = "completing" /\ UNCHANGED <<fin, proc, connected, raised>>
    BY DEF CRecordComplete, termVars
  <1>3. proc[Controller] = NoFrame
    BY <1>1, <1>2 DEF CloseOrder, Roles
  <1>4. stage[Controller] # "done" /\ stage[Controller] \notin Past /\ stage[Controller] \notin Late
    BY <1>2 DEF Past, Late
  <1>5. PICK v \in Events : v = <<"complete">> /\ \A r \in Reasons : v # <<"close", r>>
    <2>1. <<"complete">> \in Events
      BY DEF Events
    <2>2. \A r \in Reasons : <<"complete">> # <<"close", r>>
      OBVIOUS
    <2> HIDE DEF Events, Reasons
    <2> QED  BY <2>1, <2>2
  <1>6. PICK s : s = RecordControl(obs[Controller].s, v)
    OBVIOUS
  <1> HIDE DEF Events
  <1>7. /\ Longer(obs[Controller].s, s) /\ s.control = Append(obs[Controller].s.control, v)
        /\ CpOf(s) = CpOf(obs[Controller].s) /\ s \in Sessions
    <2>1. 0 \in Nat
      OBVIOUS
    <2> QED  BY <1>1, <1>5, <1>6, <2>1, LongerFacts, CpFacts DEF Longer
  <1>8. PICK o : o = Record(obs[Controller], s)
    OBVIOUS
  <1>9. obs[Controller].s.phase # "Finished"
    BY <1>1, <1>2 DEF Closes
  <1>10. /\ Cp(o) = Cp(obs[Controller])
         /\ RecordOk(obs[Controller]) => o.s = s
    BY <1>1, <1>7, <1>8, <1>9, RecordFacts, CpFacts
  <1>11. CASE RecordOk(obs[Controller])
    <2>1. /\ obs' = [obs EXCEPT ![Controller] = o] /\ UNCHANGED <<frames, reason>>
          /\ stage' = [stage EXCEPT ![Controller] = "acknowledging"]
      BY <1>5, <1>6, <1>8, <1>11 DEF CRecordComplete
    <2>2. ~Shut(o.s.control)
      <3>1. ~Shut(obs[Controller].s.control) /\ obs[Controller].s.control \in Histories
        BY <1>1, <1>4, EarlyFacts DEF Sane, Observers, Sessions
      <3> HIDE DEF Histories, Reasons
      <3>2. PICK h \in Histories : h = obs[Controller].s.control
        BY <3>1
      <3>3. Shut(Append(h, v)) => Shut(h)
        BY <1>5, ShutFacts
      <3> QED  BY <1>7, <1>10, <1>11, <3>1, <3>2, <3>3
    <2>3. PICK n : n = "acknowledging"
      OBVIOUS
    <2>4. n \notin Past /\ n # "active" /\ n # "receiver" /\ n # "notice" /\ stage' = [stage EXCEPT ![Controller] = n]
      BY <2>1, <2>3 DEF Past, Late
    <2>5. \A d \in Ends : d # Controller => reason'[d] = reason[d]
      BY <2>1
    <2> QED  BY <1>1, <1>2, <1>3, <1>4, <1>10, <2>1, <2>2, <2>4, <2>5, MoveMx
  <1>12. CASE ~RecordOk(obs[Controller])
    <2>1. PICK q \in Seq(AllFrames) : q = RecordNotices(obs[Controller]) /\ Failure(q)
      BY FailureFacts
    <2>2. EndsFailed(Controller, o, Posted(frames, Controller, q))
      BY <1>5, <1>6, <1>8, <1>12, <2>1 DEF CRecordComplete, Post
    <2>3. /\ obs' = [obs EXCEPT ![Controller] = o] /\ frames' = Posted(frames, Controller, q)
          /\ stage' = [stage EXCEPT ![Controller] = "done"] /\ UNCHANGED <<fin, proc, connected, reason>>
      BY <1>2, <2>2 DEF EndsFailed
    <2>4. raised' \cap Spurious = {}
      BY <1>1, <1>2
    <2> QED  BY <1>1, <1>3, <1>4, <1>10, <2>1, <2>3, <2>4, DoneMx
  <1> QED  BY <1>11, <1>12

\* The host's bridge has drained.
LEMMA HClosedMx ==
    ASSUME TsInv, MxInv, ObsAdvance, HClosed
    PROVE  MxInv'
  <1> HIDE DEF AllFrames
  <1>1. /\ Host \in Ends /\ stage[Host] = "closing" /\ proc[Host] = NoFrame /\ Host # Controller
        /\ UNCHANGED <<fin, proc, connected, raised>>
    BY EndFacts DEF HClosed, termVars
  <1>2. /\ stage[Host] # "done" /\ stage[Host] \notin Past /\ TsTypes /\ CloseOrder
        /\ stage \in [Ends -> Stages] /\ obs \in [Ends -> Observers] /\ reason \in [Ends -> Reasons]
        /\ raised' \cap Spurious = {}
    BY <1>1 DEF Past, Late, TsInv, TsTypes, MxInv
  <1>3. \/ EndsFailed(Host, FailObserver(obs[Host]), Post(Host, FailNotices))
        \/ EndsFailed(Host, obs[Host], frames)
        \/ EndsInterrupted(Host, result[Host])
        \/ reason[Host] # "none" /\ EndsJointly(Host, "barrier", reason[Host], reason[Host])
        \/ reason[Host] = "none" /\ EndsJointly(Host, "receiver", "exit", "none")
    BY DEF HClosed
  <1>4. CASE \/ EndsFailed(Host, FailObserver(obs[Host]), Post(Host, FailNotices))
             \/ EndsFailed(Host, obs[Host], frames)
             \/ EndsInterrupted(Host, result[Host])
    BY <1>1, <1>2, <1>4, EndsMx
  <1>5. ~Shut(obs[Host].s.control) /\ obs = [obs EXCEPT ![Host] = obs[Host]]
    BY <1>1, <1>2, EarlyFacts DEF Past
  <1>6. CASE reason[Host] = "none" /\ EndsJointly(Host, "receiver", "exit", "none")
    <2>1. /\ stage' = [stage EXCEPT ![Host] = "receiver"] /\ UNCHANGED <<obs, frames>>
          /\ reason' = [reason EXCEPT ![Host] = "none"]
      BY <1>6 DEF EndsJointly
    <2>2. reason'[Host] = "none" /\ \A d \in Ends : d # Host => reason'[d] = reason[d]
      BY <1>1, <1>2, <2>1
    <2>3. PICK o : o = obs[Host] /\ obs' = [obs EXCEPT ![Host] = o] /\ Cp(o) = Cp(obs[Host])
      BY <1>5, <2>1
    <2>4. PICK n : n = "receiver"
      OBVIOUS
    <2>5. n \notin Past /\ n # "active" /\ n # "notice" /\ stage' = [stage EXCEPT ![Host] = n]
      BY <2>1, <2>4 DEF Past, Late
    <2> QED  BY <1>1, <1>2, <1>5, <1>6, <2>1, <2>2, <2>3, <2>5, MoveMx
  <1>7. CASE reason[Host] # "none" /\ EndsJointly(Host, "barrier", reason[Host], reason[Host])
    <2>1. /\ stage' = [stage EXCEPT ![Host] = "barrier"] /\ UNCHANGED <<obs, frames, reason>>
      BY <1>2, <1>7 DEF EndsJointly
    <2>2. stage'[Host] = "barrier" /\ \A d \in Ends : d # Host => stage'[d] = stage[d]
      BY <1>1, <1>2, <2>1
    <2>3. Calm(Host, FALSE, <<>>)
      <3>1. Turn(Host, FALSE, <<>>)
        BY <1>1, <1>2, <2>1, StillTurn
      <3>2. Others(Host)
        BY <1>1, <2>1, <2>2 DEF Others
      <3> QED  BY <1>1, <1>2, <2>1, <3>1, <3>2, FailureFacts DEF Calm, Bounded
    <2>4. Forward(Host) /\ Barred(Host) /\ ~Behind(Host)'
      BY <1>1, <1>2, <2>1, <2>2 DEF Forward, Barred, Behind, Past, Late
    <2>5. Told
      BY <1>2, <1>7 DEF CloseOrder, HostFollows
    <2>6. OrderlyH(FALSE, <<>>)
      BY <1>1, <1>7, <2>1, <2>2, <2>4, <2>5 DEF OrderlyH
    <2>7. Orderly(Host, FALSE, <<>>)
      BY <1>1, <2>6 DEF Orderly
    <2> QED  BY <1>1, <2>3, <2>4, <2>7, CalmKeeps
  <1> QED  BY <1>3, <1>4, <1>6, <1>7

\* The pumps hand over to the close, and the controller completes.
LEMMA EndingMx ==
    ASSUME TsInv, MxInv, ObsAdvance, Ending
    PROVE  MxInv'
  <1>1. CloseOrder /\ Controller \in Ends
    BY EndFacts DEF MxInv
  <1>2. CASE CSendComplete \/ CHostClosed \/ CCompleteCancelled \/ CCompleteFails
    <2>1. stage[Controller] \in {"acknowledging", "hostclose"} /\ UNCHANGED <<fin, proc, connected, raised>>
      BY <1>2 DEF CSendComplete, CHostClosed, CCompleteCancelled, CCompleteFails, termVars
    <2>2. /\ proc[Controller] = NoFrame /\ stage[Controller] \notin Past /\ stage[Controller] # "done"
      BY <1>1, <2>1 DEF CloseOrder, Roles, Past, Late
    <2>3. CASE CSendComplete
      <3>1. stage' = [stage EXCEPT ![Controller] = "hostclose"] /\ UNCHANGED <<obs, frames, reason>>
        BY <2>3 DEF CSendComplete
      <3> QED  BY <2>1, <2>2, <3>1, StepMx
    <2>4. CASE CHostClosed
      <3>1. /\ stage' = [stage EXCEPT ![Controller] = "notice"] /\ UNCHANGED <<obs, frames>>
            /\ reason' = [reason EXCEPT ![Controller] = "NormalShellExit"]
        BY <2>4 DEF CHostClosed, EndsJointly
      <3> QED  BY <2>1, <2>2, <3>1, StepMx
    <2>5. CASE CCompleteCancelled
      <3>1. /\ stage' = [stage EXCEPT ![Controller] = "notice"] /\ UNCHANGED <<obs, frames>>
            /\ reason' = [reason EXCEPT ![Controller] = "LocalInterrupt"]
        BY <2>5 DEF CCompleteCancelled
      <3> QED  BY <2>1, <2>2, <3>1, StepMx
    <2>6. CASE CCompleteFails
      BY <1>1, <2>1, <2>2, <2>6, EndsMx DEF CCompleteFails
    <2> QED  BY <1>2, <2>3, <2>4, <2>5, <2>6
  <1> QED  BY <1>2, CClosedMx, CompleteMx, HClosedMx DEF Ending

-----------------------------------------------------------------------------
(* close_and_finalize *)

\* Writing failure frames twice.
LEMMA FailureTwice ==
    ASSUME NEW e \in Ends, NEW f \in [Ends -> Seq(AllFrames)], NEW S \in Seq(AllFrames), Failure(S),
           NEW R \in Seq(AllFrames), Failure(R)
    PROVE  \E t \in Seq(AllFrames) : Failure(t) /\ Posted(Posted(f, e, S), e, R) = Posted(f, e, t)
  <1> HIDE DEF AllFrames
  <1>1. PICK p \in Ends : p = Peer(e)
    BY EndFacts
  <1>2. PICK h \in Seq(AllFrames) : h = f[p]
    OBVIOUS
  <1>3. PICK t \in Seq(AllFrames) : t = S \o R
    BY JoinFacts
  <1>4. PICK r \in Seq(AllFrames) : r = h \o S
    BY JoinFacts
  <1>5. r \o R = h \o t
    <2>1. r \o R = h \o (S \o R)
      BY <1>4, JoinAgain, SMTT(30)
    <2> QED  BY <1>3, <2>1
  <1>6. PICK u : u = r \o R
    OBVIOUS
  <1>7. Failure(t)
    <2>1. \A i \in 1..Len(t) :
             \/ i \in 1..Len(S) /\ t[i] = S[i]
             \/ i - Len(S) \in 1..Len(R) /\ t[i] = R[i - Len(S)]
      BY <1>3, JoinFacts
    <2>2. PICK F : F = {Frame("error", "audit"), Frame("notice", "AuditFailure")}
      OBVIOUS
    <2>3. (\A i \in 1..Len(S) : S[i] \in F) /\ (\A i \in 1..Len(R) : R[i] \in F)
      BY <2>2 DEF Failure
    <2>4. \A i \in 1..Len(t) : t[i] \in F
      BY <2>1, <2>3
    <2> QED  BY <2>2, <2>4 DEF Failure
  <1>8. CASE connected
    <2>1. PICK g : g = [f EXCEPT ![p] = r]
      OBVIOUS
    <2>2. Posted(f, e, S) = g
      BY <1>1, <1>2, <1>4, <1>8, <2>1 DEF Posted
    <2>3. g[p] = r /\ [g EXCEPT ![p] = u] = [f EXCEPT ![p] = u]
      BY <2>1
    <2>4. Posted(g, e, R) = [g EXCEPT ![p] = u]
      BY <1>1, <1>6, <1>8, <2>3 DEF Posted
    <2>5. Posted(f, e, t) = [f EXCEPT ![p] = u]
      BY <1>1, <1>2, <1>5, <1>6, <1>8 DEF Posted
    <2> QED  BY <1>7, <2>2, <2>3, <2>4, <2>5
  <1>9. CASE ~connected
    <2>1. Posted(Posted(f, e, S), e, R) = f /\ Posted(f, e, t) = f
      BY <1>9 DEF Posted
    <2> QED  BY <1>7, <2>1
  <1> QED  BY <1>8, <1>9

\* What an end that closes has behind it.
LEMMA ClosingMx ==
    ASSUME TsInv, MxInv, NEW e \in Ends, stage[e] \in Closing
    PROVE  /\ TsTypes /\ CloseOrder /\ raised \cap Spurious = {}
           /\ proc[e] = NoFrame /\ stage[e] # "done" /\ Incoming(e) = frames[e]
           /\ Sane(obs[e]) /\ obs[e].s.phase # "Finished"
           /\ frames \in [Ends -> Seq(AllFrames)] /\ obs \in [Ends -> Observers]
           /\ stage \in [Ends -> Stages] /\ reason \in [Ends -> Reasons]
           /\ fin \in [Ends -> [sent : BOOLEAN, seen : BOOLEAN, own : Manifests, peer : Manifests]]
           /\ e = Host /\ stage[e] \notin {"receiver", "notice"} => Told
  <1> HIDE DEF AllFrames
  <1>1. /\ TsTypes /\ CloseOrder /\ raised \cap Spurious = {} /\ Sane(obs[e])
        /\ frames \in [Ends -> Seq(AllFrames)] /\ obs \in [Ends -> Observers]
        /\ stage \in [Ends -> Stages] /\ reason \in [Ends -> Reasons]
        /\ fin \in [Ends -> [sent : BOOLEAN, seen : BOOLEAN, own : Manifests, peer : Manifests]]
    BY DEF TsInv, TsTypes, MxInv
  <1>2. proc[e] = NoFrame /\ stage[e] # "done"
    BY <1>1 DEF CloseOrder, Roles, Closing
  <1>3. Incoming(e) = frames[e]
    BY <1>2 DEF Incoming
  <1>4. obs[e].s.phase # "Finished"
    BY ClosingFacts
  <1>5. e = Host /\ stage[e] \notin {"receiver", "notice"} => Told
    BY <1>1 DEF CloseOrder, HostFollows, Closing, Behind
  <1> QED  BY <1>1, <1>2, <1>3, <1>4, <1>5

\* An error of the finalization: the controller fails closed and says so.
LEMMA FinFailsFacts ==
    ASSUME TsInv, MxInv, NEW e \in Ends, stage[e] \in Closing, NEW error, error \notin Spurious,
           NEW o \in Observers, NEW f \in [Ends -> Seq(AllFrames)], FinFails(e, error, o, f), UNCHANGED termVars
    PROVE  /\ \E q \in Seq(AllFrames) : Failure(q) /\ frames' = Posted(f, e, q)
           /\ Cp(obs'[e]) = Cp(o) /\ stage'[e] = "done" /\ proc'[e] = NoFrame /\ reason'[e] = reason[e]
           /\ Others(e) /\ UNCHANGED <<fin, proc, connected, reason>> /\ raised' \cap Spurious = {}
           /\ (connected' => connected)
  <1> HIDE DEF AllFrames
  <1>1. /\ TsTypes /\ raised \cap Spurious = {} /\ proc[e] = NoFrame
        /\ obs \in [Ends -> Observers] /\ stage \in [Ends -> Stages]
    BY ClosingMx
  <1>2. PICK p : p = IF e = Controller THEN FailObserver(o) ELSE o
    OBVIOUS
  <1>3. /\ obs' = [obs EXCEPT ![e] = p] /\ stage' = [stage EXCEPT ![e] = "done"]
        /\ raised' = raised \cup {error} /\ UNCHANGED <<fin, proc, connected, reason>>
    BY <1>2 DEF FinFails, termVars
  <1>4. Cp(p) = Cp(o)
    BY <1>2, CpKept
  <1>5. /\ obs'[e] = p /\ stage'[e] = "done"
        /\ \A d \in Ends : d # e => obs'[d] = obs[d] /\ stage'[d] = stage[d]
    BY <1>1, <1>3
  <1>6. Others(e)
    BY <1>3, <1>5 DEF Others
  <1>7. \E q \in Seq(AllFrames) : Failure(q) /\ frames' = Posted(f, e, q)
    <2>1. CASE e = Controller
      <3>1. frames' = Posted(f, e, FailNotices)
        BY <2>1 DEF FinFails
      <3> QED  BY <3>1, FailureFacts
    <2>2. CASE e # Controller
      <3>1. frames' = f
        BY <2>2 DEF FinFails
      <3>2. <<>> \in Seq(AllFrames) /\ Failure(<<>>) /\ Posted(f, e, <<>>) = f
        BY FailureFacts, PostedTo
      <3> QED  BY <3>1, <3>2
    <2> QED  BY <2>1, <2>2
  <1> QED  BY <1>1, <1>3, <1>4, <1>5, <1>6, <1>7

\* An error that has nothing to do with a checkpoint.
LEMMA FinFailsMx ==
    ASSUME TsInv, MxInv, ObsAdvance, NEW e \in Ends, stage[e] \in Closing, NEW error, error \notin Spurious,
           NEW o \in Observers, Cp(o) = Cp(obs[e]), UNCHANGED termVars,
           \/ FinFails(e, error, o, frames)
           \/ frames[e] # <<>> /\ FinFails(e, error, o, Taken(e))
           \/ \E r \in Seq(AllFrames) : Failure(r) /\ FinFails(e, error, o, Posted(frames, e, r))
    PROVE  MxInv'
  <1> HIDE DEF AllFrames
  <1>1. /\ TsTypes /\ proc[e] = NoFrame /\ stage[e] # "done" /\ frames \in [Ends -> Seq(AllFrames)]
    BY ClosingMx
  <1>2. Peer(e) \in Ends
    BY EndFacts
  <1>3. ASSUME NEW f \in [Ends -> Seq(AllFrames)], FinFails(e, error, o, f), NEW taken \in BOOLEAN, NEW S,
               \A q \in Seq(AllFrames) : Failure(q) /\ frames' = Posted(f, e, q) =>
                  \E T : Turn(e, taken, T) /\ Failure(T) /\ Bounded(e)
        PROVE  MxInv'
    <2>1. /\ \E q \in Seq(AllFrames) : Failure(q) /\ frames' = Posted(f, e, q)
          /\ Cp(obs'[e]) = Cp(o) /\ stage'[e] = "done" /\ proc'[e] = NoFrame /\ reason'[e] = reason[e]
          /\ Others(e) /\ UNCHANGED <<fin, proc, connected, reason>> /\ raised' \cap Spurious = {}
          /\ (connected' => connected)
      BY <1>3, FinFailsFacts
    <2>2. PICK T : Turn(e, taken, T) /\ Failure(T) /\ Bounded(e)
      BY <1>3, <2>1
    <2>3. Calm(e, taken, T)
      BY <1>1, <2>1, <2>2 DEF Calm
    <2> QED  BY <2>1, <2>3, DoneCalm
  <1>4. UNCHANGED proc
    BY DEF termVars
  <1>5. CASE FinFails(e, error, o, frames)
    <2>1. ASSUME NEW q \in Seq(AllFrames), Failure(q), frames' = Posted(frames, e, q)
          PROVE  Turn(e, FALSE, Reaches(q)) /\ Failure(Reaches(q)) /\ Bounded(e)
      <3>1. Turn(e, FALSE, Reaches(q)) /\ frames'[e] = frames[e]
        BY <1>1, <1>4, <2>1, WriteTurn
      <3>2. ~connected => frames' = frames
        BY <2>1 DEF Posted
      <3> QED  BY <2>1, <3>1, <3>2, FailureFacts DEF Bounded
    <2> QED  BY <1>1, <1>3, <1>5, <2>1
  <1>6. CASE frames[e] # <<>> /\ FinFails(e, error, o, Taken(e))
    <2>1. Taken(e) \in [Ends -> Seq(AllFrames)] /\ \A d \in Ends : Pairs(Taken(e)[d]) \subseteq Pairs(frames[d])
      BY <1>1, <1>6, FrameFacts
    <2>2. ASSUME NEW q \in Seq(AllFrames), Failure(q), frames' = Posted(Taken(e), e, q)
          PROVE  Turn(e, TRUE, Reaches(q)) /\ Failure(Reaches(q)) /\ Bounded(e)
      <3>1. Turn(e, TRUE, Reaches(q))
        BY <1>1, <1>4, <1>6, <2>2, ReadTurn
      <3>2. frames'[e] = Taken(e)[e] /\ (~connected => frames' = Taken(e))
        BY <2>1, <2>2, PostedTo DEF Posted
      <3>3. Bounded(e)
        BY <1>2, <2>1, <3>2 DEF Bounded
      <3> QED  BY <2>2, <3>1, <3>3, FailureFacts
    <2> QED  BY <1>3, <1>6, <2>1, <2>2
  <1>7. ASSUME NEW r \in Seq(AllFrames), Failure(r), FinFails(e, error, o, Posted(frames, e, r))
        PROVE  MxInv'
    <2>1. PICK g \in [Ends -> Seq(AllFrames)] : g = Posted(frames, e, r)
      BY <1>1, PostedTo
    <2>2. ASSUME NEW q \in Seq(AllFrames), Failure(q), frames' = Posted(g, e, q)
          PROVE  \E T : Turn(e, FALSE, T) /\ Failure(T) /\ Bounded(e)
      <3>1. PICK t \in Seq(AllFrames) : Failure(t) /\ Posted(Posted(frames, e, r), e, q) = Posted(frames, e, t)
        BY <1>1, <1>7, <2>2, FailureTwice, ZenonT(30)
      <3>2. frames' = Posted(frames, e, t)
        BY <2>1, <2>2, <3>1
      <3>3. Failure(t)
        BY <3>1
      <3>4. Turn(e, FALSE, Reaches(t)) /\ frames'[e] = frames[e]
        BY <1>1, <1>4, <3>2, WriteTurn
      <3>5. ~connected => frames' = frames
        BY <3>2 DEF Posted
      <3>6. Bounded(e) /\ Failure(Reaches(t))
        BY <3>3, <3>4, <3>5, FailureFacts DEF Bounded
      <3> QED  BY <3>4, <3>6
    <2> QED  BY <1>3, <1>7, <2>1, <2>2
  <1> QED  BY <1>5, <1>6, <1>7

\* The end of a session in its order.
LEMMA DoneOrderly ==
    ASSUME MxInv, NEW e \in Ends, stage[e] # "done", connected' => connected, stage'[e] = "done",
           proc'[e] = NoFrame, reason'[e] = reason[e], NEW taken \in BOOLEAN, NEW S, Failure(S)
    PROVE  Forward(e) /\ Barred(e) /\ Orderly(e, taken, S)
  <1>1. Forward(e) /\ Barred(e)
    BY DEF Forward, Barred, Late, Past, Behind
  <1>2. CloseOrder
    BY DEF MxInv
  <1>3. \A i \in 1..Len(S) : ~Closed(S[i]) /\ (S[i].kind = "notice" => S[i].body # "none")
    BY FailureFacts
  <1>4. CASE e = Controller
    <2>1. Told'
      BY <1>4 DEF Told, Past, Late
    <2>2. OrderlyC(S)
      BY <1>3, <1>4, <2>1 DEF OrderlyC
    <2> QED  BY <1>1, <1>4, <2>2 DEF Orderly
  <1>5. CASE e = Host
    <2>1. Noticed' /\ ~Behind(Host)'
      BY <1>5 DEF Noticed, Past, Late, Behind
    <2>2. reason[Host] # "none" => Told
      BY <1>2 DEF CloseOrder, HostFollows
    <2>3. OrderlyH(taken, S)
      BY <1>3, <1>5, <2>1, <2>2 DEF OrderlyH
    <2> QED  BY <1>1, <1>5, <2>3, EndFacts DEF Orderly
  <1> QED  BY <1>4, <1>5, EndFacts

\* The finalization fails over a checkpoint or an acknowledgement.
LEMMA SettleFailsMx ==
    ASSUME TsInv, MxInv, ObsAdvance, NEW e \in Ends, stage[e] \in Closing, frames[e] # <<>>,
           NEW f, f = Head(frames[e]), f.kind \in {"checkpoint", "ack"}, NEW error, NEW o,
           error = FrameError(obs[e], f), o = HandleFrame(obs[e], f),
           FinFails(e, error, o, Taken(e)), UNCHANGED termVars
    PROVE  MxInv'
  <1> HIDE DEF AllFrames
  <1>1. /\ TsTypes /\ proc[e] = NoFrame /\ stage[e] # "done" /\ Incoming(e) = frames[e] /\ Sane(obs[e])
        /\ frames \in [Ends -> Seq(AllFrames)] /\ raised \cap Spurious = {}
    BY ClosingMx
  <1>2. Incoming(e) # <<>> /\ f = Head(Incoming(e))
    BY <1>1
  <1>3. f \in AllFrames /\ error \notin Spurious
    BY <1>2, HandleMx
  <1>4. o \in Observers
    BY <1>1, <1>3, HandleFacts DEF Kept, Sane
  <1>5. CASE obs[e].s.phase \notin Talking
    <2>1. o = obs[e]
      BY <1>2, <1>5, HandleMx
    <2>2. Cp(o) = Cp(obs[e]) /\ frames[e] # <<>> /\ FinFails(e, error, o, Taken(e))
      BY <2>1
    <2> QED  BY <1>3, <1>4, <2>2, FinFailsMx
  <1>6. CASE obs[e].s.phase \in Talking
    <2>1. PICK g \in [Ends -> Seq(AllFrames)] :
             g = Taken(e) /\ \A d \in Ends : Pairs(g[d]) \subseteq Pairs(frames[d])
      BY <1>1, FrameFacts
    <2>2. FinFails(e, error, o, g)
      BY <2>1
    <2>3. /\ \E q \in Seq(AllFrames) : Failure(q) /\ frames' = Posted(g, e, q)
          /\ Cp(obs'[e]) = Cp(o) /\ stage'[e] = "done" /\ proc'[e] = NoFrame /\ reason'[e] = reason[e]
          /\ Others(e) /\ UNCHANGED <<fin, proc, connected, reason>> /\ raised' \cap Spurious = {}
          /\ (connected' => connected)
      BY <1>3, <1>4, <2>2, FinFailsFacts
    <2>4. PICK q \in Seq(AllFrames) : Failure(q) /\ frames' = Posted(g, e, q)
      BY <2>3
    <2>5. PICK S : S = Reaches(q)
      OBVIOUS
    <2>6. Turn(e, TRUE, S)
      <3>1. frames' = Posted(Taken(e), e, q) /\ UNCHANGED proc
        BY <2>1, <2>3, <2>4
      <3> QED  BY <1>1, <2>5, <3>1, ReadTurn
    <2>7. frames'[e] = g[e] /\ (~connected => frames' = g)
      <3>1. Posted(g, e, q)[e] = g[e]
        BY PostedTo
      <3>2. ~connected => Posted(g, e, q) = g
        BY DEF Posted
      <3> QED  BY <2>4, <3>1, <3>2
    <2>8. Bounded(e)
      BY <2>1, <2>7, EndFacts DEF Bounded
    <2>9. Failure(S) /\ None(S, "checkpoint") /\ None(S, "ack")
      BY <2>4, <2>5, FailureFacts
    <2>10. Lone(S, "ack", f.body)
      BY <2>9 DEF Lone, None
    <2>11. Forward(e) /\ Barred(e) /\ Orderly(e, TRUE, S)
      BY <1>1, <2>3, <2>9, DoneOrderly
    <2>12. FinalSeen(e)
      BY <2>3 DEF FinalSeen, Late
    <2>13. /\ fin'[e].sent = fin[e].sent /\ fin'[e].own = fin[e].own
           /\ fin'[e].seen => fin[e].seen \/ AckLeads(Incoming(Peer(e))')
      BY <2>3
    <2>14. Cp(obs'[e]) = Cp(HandleFrame(obs[e], f)) /\ Others(e) /\ raised' \cap Spurious = {}
      BY <2>3
    <2> QED  BY <1>2, <1>6, <2>6, <2>8, <2>9, <2>10, <2>11, <2>12, <2>13, <2>14, TakeMx
  <1> QED  BY <1>5, <1>6

\* A checkpoint or an acknowledgement is settled.
LEMMA SettleFacts ==
    ASSUME TsInv, MxInv, NEW e \in Ends, stage[e] \in Closing, frames[e] # <<>>,
           NEW f, f = Head(frames[e]), f.kind \in {"checkpoint", "ack"}, FrameError(obs[e], f) = "none",
           NEW R, R = FrameReply(obs[e], f), NEW o, o = HandleFrame(obs[e], f), NEW S, S = Reaches(R),
           FinContinues(e, o, Posted(Taken(e), e, R), stage[e]), UNCHANGED termVars
    PROVE  /\ Turn(e, TRUE, S) /\ f = Head(Incoming(e)) /\ Incoming(e) # <<>> /\ f \in AllFrames
           /\ obs'[e] = o /\ stage'[e] = stage[e]
           /\ \A d \in Ends : d # e => obs'[d] = obs[d] /\ stage'[d] = stage[d]
           /\ UNCHANGED <<proc, connected, raised>> /\ Bounded(e)
           /\ obs[e].s.phase \in Talking
           /\ obs'[e].s.control = obs[e].s.control /\ Snapshot(obs'[e].s) = Snapshot(obs[e].s)
           /\ f.kind = "checkpoint" => f.body = obs[Peer(e)].s.sent /\ S = <<Frame("ack", f.body)>>
           /\ f.kind = "ack" => obs'[e].s.received = obs[e].s.received /\ S = <<>>
  <1> HIDE DEF AllFrames
  <1>1. /\ TsTypes /\ proc[e] = NoFrame /\ Incoming(e) = frames[e] /\ Sane(obs[e])
        /\ stage \in [Ends -> Stages] /\ obs \in [Ends -> Observers]
    BY ClosingMx
  <1>2. Incoming(e) # <<>> /\ f = Head(Incoming(e))
    BY <1>1
  <1>3. f \in AllFrames
    BY <1>2, HandleMx
  <1>4. /\ R \in Seq(AllFrames) /\ Plain(R)
        /\ f.kind = "ack" => R = <<>> /\ S = <<>>
        /\ f.kind = "checkpoint" => R = <<Frame("ack", f.body)>> /\ connected
    BY <1>3, ReplyFacts DEF Plain
  <1>5. /\ obs' = [obs EXCEPT ![e] = o] /\ stage' = [stage EXCEPT ![e] = stage[e]]
        /\ frames' = Posted(Taken(e), e, R) /\ UNCHANGED <<proc, connected, raised>>
    BY DEF FinContinues, termVars
  <1>6. /\ obs'[e] = o /\ stage'[e] = stage[e]
        /\ \A d \in Ends : d # e => obs'[d] = obs[d] /\ stage'[d] = stage[d]
    BY <1>1, <1>5
  <1>7. Turn(e, TRUE, S)
    BY <1>1, <1>4, <1>5, ReadTurn
  <1>8. \A d \in Ends : Pairs(frames'[d]) \subseteq Pairs(frames[d])
    BY <1>1, <1>4, <1>5, FrameFacts
  <1>9. Bounded(e)
    BY <1>8, EndFacts DEF Bounded
  <1>10. obs[e].s.phase \in Talking
    <2>1. \A x, c : /\ CheckpointError(x, c) = "none" => x.s.phase \in Talking
                    /\ AckError(x, c) = "none" => x.s.phase \in Talking
      BY DEF CheckpointError, AckError, Talking
    <2> QED  BY <2>1, FrameCases
  <1>11. /\ f.kind = "checkpoint" => f.body = obs[Peer(e)].s.sent
         /\ f.kind = "ack" => obs'[e].s.received = obs[e].s.received
    <2>1. f.kind = "ack" => o.s.received = obs[e].s.received
      BY <1>2, <1>10, HandleMx
    <2>2. f.kind = "checkpoint" => f.body = obs[Peer(e)].s.sent
      BY <1>2, <1>10, HandleMx
    <2> QED  BY <1>6, <2>1, <2>2
  <1>12. Kept(obs[e], o)
    BY <1>1, <1>3, HandleFacts
  <1>13. obs'[e].s.control = obs[e].s.control /\ Snapshot(obs'[e].s) = Snapshot(obs[e].s)
    BY <1>6, <1>12 DEF Kept, Snapshot
  <1>14. f.kind = "checkpoint" => S = <<Frame("ack", f.body)>>
    BY <1>4 DEF Reaches
  <1> QED  BY <1>2, <1>3, <1>4, <1>5, <1>6, <1>7, <1>9, <1>10, <1>11, <1>13, <1>14

\* The close goes on behind a settled frame.
LEMMA SettleMx ==
    ASSUME TsInv, MxInv, ObsAdvance, NEW e \in Ends, stage[e] \in Closing, frames[e] # <<>>,
           NEW f, f = Head(frames[e]), f.kind \in {"checkpoint", "ack"}, FrameError(obs[e], f) = "none",
           NEW R, R = FrameReply(obs[e], f), NEW o, o = HandleFrame(obs[e], f),
           FinContinues(e, o, Posted(Taken(e), e, R), stage[e]), UNCHANGED termVars, UNCHANGED reason,
           \A d \in Ends : d # e => fin'[d] = fin[d],
           fin'[e].sent = fin[e].sent, fin'[e].own = fin[e].own, FinalSeen(e),
           fin'[e].seen => fin[e].seen \/ AckLeads(Incoming(Peer(e))')
    PROVE  MxInv'
  <1> HIDE DEF AllFrames
  <1>1. PICK S : S = Reaches(R)
    OBVIOUS
  <1>2. /\ Turn(e, TRUE, S) /\ f = Head(Incoming(e)) /\ Incoming(e) # <<>> /\ f \in AllFrames
        /\ obs'[e] = o /\ stage'[e] = stage[e]
        /\ \A d \in Ends : d # e => obs'[d] = obs[d] /\ stage'[d] = stage[d]
        /\ UNCHANGED <<proc, connected, raised>> /\ Bounded(e)
        /\ obs[e].s.phase \in Talking
        /\ obs'[e].s.control = obs[e].s.control
    <2>1. stage[e] \in Closing /\ frames[e] # <<>> /\ FrameError(obs[e], f) = "none" /\ UNCHANGED termVars
      OBVIOUS
    <2>2. FinContinues(e, o, Posted(Taken(e), e, R), stage[e])
      OBVIOUS
    <2>3. /\ Turn(e, TRUE, S) /\ f = Head(Incoming(e)) /\ Incoming(e) # <<>> /\ f \in AllFrames
          /\ obs'[e] = o /\ stage'[e] = stage[e]
      <3>1. Turn(e, TRUE, S)
        BY <1>1, <2>1, <2>2, SettleFacts
      <3>2. f = Head(Incoming(e)) /\ Incoming(e) # <<>>
        BY <2>1, ClosingMx
      <3>3. f \in AllFrames
        BY <3>2, HandleMx
      <3>4. obs'[e] = o
        BY <2>1, <2>2, ClosingMx DEF FinContinues
      <3>5. stage'[e] = stage[e]
        BY <1>1, <2>1, <2>2, SettleFacts
      <3> QED  BY <3>1, <3>2, <3>3, <3>4, <3>5
    <2>4. \A d \in Ends : d # e => obs'[d] = obs[d] /\ stage'[d] = stage[d]
      BY <1>1, <2>1, <2>2, SettleFacts
    <2>5. /\ UNCHANGED <<proc, connected, raised>> /\ Bounded(e)
          /\ obs[e].s.phase \in Talking
          /\ obs'[e].s.control = obs[e].s.control
      BY <1>1, <2>1, <2>2, SettleFacts
    <2> QED  BY <2>3, <2>4, <2>5
  <1>3. proc[e] = NoFrame /\ CloseOrder /\ raised \cap Spurious = {} /\ stage[e] # "done"
    BY ClosingMx
  <1>4. /\ None(S, "checkpoint") /\ Lone(S, "ack", f.body)
        /\ \A i \in 1..Len(S) : ~Closed(S[i]) /\ S[i].kind # "notice"
        /\ f.kind = "ack" => S = <<>>
    BY <1>1, <1>2, ReplyFacts
  <1>5. f.kind = "ack" => None(S, "ack")
    BY <1>4 DEF None
  <1>6. Others(e) /\ Forward(e) /\ Barred(e)
    <2>1. Behind(e)' => Behind(e)
      BY <1>2 DEF Behind
    <2> QED  BY <1>2, <1>3, <2>1 DEF Others, Forward, Barred
  <1>7. Orderly(e, TRUE, S)
    <2>1. CASE e = Controller
      <3>1. OrderlyC(S)
        BY <1>2, <1>3, <1>4, <2>1 DEF OrderlyC, CloseOrder, Roles
      <3> QED  BY <2>1, <3>1 DEF Orderly
    <2>2. CASE e = Host
      <3>1. ~Notice(f) /\ (Behind(Host)' => Behind(Host))
        BY <1>2, <2>2 DEF Notice, Behind
      <3>2. OrderlyH(TRUE, S)
        BY <1>2, <1>3, <1>4, <2>2, <3>1 DEF OrderlyH, CloseOrder, Roles, HostFollows
      <3> QED  BY <2>2, <3>2, EndFacts DEF Orderly
    <2> QED  BY <2>1, <2>2, EndFacts
  <1>8. raised' \cap Spurious = {} /\ Cp(obs'[e]) = Cp(HandleFrame(obs[e], f)) /\ Bounded(e)
    BY <1>2, <1>3
  <1> QED  BY <1>2, <1>4, <1>5, <1>6, <1>7, <1>8, TakeMx

\* A frame that is settled while the host waits for the notice.
LEMMA SettleEarly ==
    ASSUME TsInv, MxInv, ObsAdvance, NEW e \in Ends, stage[e] = "receiver", frames[e] # <<>>,
           NEW f, f = Head(frames[e]), f.kind \in {"checkpoint", "ack"}, FinSettle(e, f),
           UNCHANGED termVars, UNCHANGED fin
    PROVE  MxInv'
  <1>1. PICK o, R : o = HandleFrame(obs[e], f) /\ R = FrameReply(obs[e], f)
    OBVIOUS
  <1>2. stage[e] \in Closing /\ stage[e] \notin Past
    BY DEF Closing, Past, Late
  <1>3. CASE FrameError(obs[e], f) # "none"
    <2>1. FinFails(e, FrameError(obs[e], f), o, Taken(e))
      BY <1>1, <1>3 DEF FinSettle
    <2> QED  BY <1>1, <1>2, <2>1, SettleFailsMx
  <1>4. CASE FrameError(obs[e], f) = "none"
    <2>1. FinContinues(e, o, Posted(Taken(e), e, R), stage[e]) /\ UNCHANGED reason
      BY <1>1, <1>4 DEF FinSettle
    <2>2. PICK S : S = Reaches(R)
      OBVIOUS
    <2>3. /\ f = Head(Incoming(e)) /\ Incoming(e) # <<>> /\ obs[e].s.phase \in Talking
          /\ f.kind = "ack" => obs'[e].s.received = obs[e].s.received
      BY <1>1, <1>2, <1>4, <2>1, <2>2, SettleFacts
    <2>4. f.kind = "checkpoint" => ~fin[Peer(e)].sent
      <3>1. /\ obs[e].s.phase # "Failed" /\ stage[e] \in {"active", "closing", "receiver"}
            /\ stage[e] # "closing"
        BY <2>3 DEF Talking
      <3>2. f.kind = "checkpoint" => Head(Incoming(e)).kind = "checkpoint"
        BY <2>3
      <3> QED  BY <1>2, <2>3, <3>1, <3>2, EarlyTaken
    <2>5. FinalSeen(e)
      BY <2>3, <2>4 DEF FinalSeen
    <2>6. /\ \A d \in Ends : d # e => fin'[d] = fin[d]
          /\ fin'[e].sent = fin[e].sent /\ fin'[e].own = fin[e].own
          /\ fin'[e].seen => fin[e].seen \/ AckLeads(Incoming(Peer(e))')
      OBVIOUS
    <2> QED  BY <1>1, <1>2, <1>4, <2>1, <2>5, <2>6, SettleMx
  <1> QED  BY <1>3, <1>4

\* A frame that is settled while an end waits for the manifest.
LEMMA SettleManifest ==
    ASSUME TsInv, MxInv, ObsAdvance, NEW e \in Ends, stage[e] = "manifest", frames[e] # <<>>,
           NEW f, f = Head(frames[e]), f.kind \in {"checkpoint", "ack"}, FinSettle(e, f),
           UNCHANGED termVars, UNCHANGED fin
    PROVE  MxInv'
  <1>1. PICK o, R : o = HandleFrame(obs[e], f) /\ R = FrameReply(obs[e], f)
    OBVIOUS
  <1>2. stage[e] \in Closing /\ stage[e] \in Late
    BY DEF Closing, Late
  <1>3. CASE FrameError(obs[e], f) # "none"
    <2>1. FinFails(e, FrameError(obs[e], f), o, Taken(e))
      BY <1>1, <1>3 DEF FinSettle
    <2> QED  BY <1>1, <1>2, <2>1, SettleFailsMx
  <1>4. CASE FrameError(obs[e], f) = "none"
    <2>1. FinContinues(e, o, Posted(Taken(e), e, R), stage[e]) /\ UNCHANGED reason
      BY <1>1, <1>4 DEF FinSettle
    <2>2. PICK S : S = Reaches(R)
      OBVIOUS
    <2>3. stage'[e] = stage[e]
      BY <1>1, <1>2, <1>4, <2>1, <2>2, SettleFacts
    <2>4. fin[e].seen
      <3>1. Closes(e) /\ Finals(e)
        BY DEF TsInv, MxInv
      <3> QED  BY <3>1 DEF Closes, Finals
    <2>5. FinalSeen(e)
      BY <1>2, <2>3, <2>4 DEF FinalSeen
    <2>6. /\ \A d \in Ends : d # e => fin'[d] = fin[d]
          /\ fin'[e].sent = fin[e].sent /\ fin'[e].own = fin[e].own
          /\ fin'[e].seen => fin[e].seen \/ AckLeads(Incoming(Peer(e))')
      OBVIOUS
    <2> QED  BY <1>1, <1>2, <1>4, <2>1, <2>5, <2>6, SettleMx
  <1> QED  BY <1>3, <1>4

\* An acknowledgement at the end of a substream without manifests leads.
LEMMA AckWritten ==
    ASSUME TsTypes, NEW e \in Ends, proc[e] = NoFrame, Pairs(frames[e]) = {}, NEW c,
           <<Frame("ack", c)>> \in Seq(AllFrames)
    PROVE  AckLeads(Incoming(e) \o <<Frame("ack", c)>>)
  <1> HIDE DEF AllFrames
  <1>1. PICK q \in Seq(AllFrames) : q = Incoming(e) /\ q = frames[e]
    BY IncomingFacts
  <1>2. PICK r \in Seq(AllFrames) : r = <<Frame("ack", c)>>
    OBVIOUS
  <1>3. Len(r) = 1 /\ r[1].kind = "ack" /\ 1 \in 1..Len(r)
    BY <1>2 DEF Frame
  <1>4. PICK t : t = q \o r
    OBVIOUS
  <1>5. /\ Len(t) = Len(q) + 1 /\ Len(q) \in Nat /\ Len(q) + 1 \in 1..Len(t) /\ t[Len(q) + 1] = r[1]
        /\ \A i \in 1..Len(t) : i \in 1..Len(q) => t[i] = q[i]
    <2>1. /\ Len(q \o r) = Len(q) + Len(r) /\ Len(q) \in Nat
          /\ \A i \in 1..Len(q) : i \in 1..Len(q \o r) /\ (q \o r)[i] = q[i]
          /\ \A i \in 1..Len(r) : Len(q) + i \in 1..Len(q \o r) /\ (q \o r)[Len(q) + i] = r[i]
      BY JoinFacts
    <2> QED  BY <1>3, <1>4, <2>1
  <1>6. \A i \in 1..Len(q) : q[i].kind \notin {"manifest", "signature"}
    <2> SUFFICES ASSUME NEW i \in 1..Len(q), q[i].kind \in {"manifest", "signature"}
                 PROVE  FALSE
      OBVIOUS
    <2>1. i \in DOMAIN q
      OBVIOUS
    <2>2. q[i] \in Pairs(q)
      BY <2>1 DEF Pairs
    <2> QED  BY <1>1, <2>2
  <1>7. \A j \in 1..Len(t) : t[j].kind \in {"manifest", "signature"} => Len(q) + 1 < j
    <2> SUFFICES ASSUME NEW j \in 1..Len(t), t[j].kind \in {"manifest", "signature"}
                 PROVE  FALSE
      OBVIOUS
    <2>1. j \notin 1..Len(q)
      BY <1>5, <1>6
    <2>2. j = Len(q) + 1
      BY <1>5, <2>1
    <2> QED  BY <1>3, <1>5, <2>2
  <1>8. AckLeads(t)
    BY <1>3, <1>5, <1>7 DEF AckLeads
  <1> QED  BY <1>1, <1>2, <1>4, <1>8

\* A frame that is settled in the checkpoint loop: a checkpoint of exactly this
\* side's snapshot is the peer's final one.
LEMMA SettleFinal ==
    ASSUME TsInv, MxInv, ObsAdvance, NEW e \in Ends, stage[e] = "final", frames[e] # <<>>,
           NEW f, f = Head(frames[e]), f.kind \in {"checkpoint", "ack"}, FinSettle(e, f),
           UNCHANGED termVars, NEW exact \in BOOLEAN,
           exact <=> f.kind = "checkpoint" /\ f.body.snapshot = Snapshot(obs[e].s),
           fin' = [fin EXCEPT ![e].seen = @ \/ (exact /\ FrameError(obs[e], f) = "none")]
    PROVE  MxInv'
  <1> HIDE DEF AllFrames
  <1>1. PICK o, R : o = HandleFrame(obs[e], f) /\ R = FrameReply(obs[e], f)
    OBVIOUS
  <1>2. stage[e] \in Closing /\ stage[e] \in Late /\ Behind(e)
    BY DEF Closing, Late, Behind
  <1>3. CASE FrameError(obs[e], f) # "none"
    <2>1. FinFails(e, FrameError(obs[e], f), o, Taken(e))
      BY <1>1, <1>3 DEF FinSettle
    <2> QED  BY <1>1, <1>2, <2>1, SettleFailsMx
  <1>4. CASE FrameError(obs[e], f) = "none"
    <2>1. FinContinues(e, o, Posted(Taken(e), e, R), stage[e]) /\ UNCHANGED reason
      BY <1>1, <1>4 DEF FinSettle
    <2>2. PICK S : S = Reaches(R)
      OBVIOUS
    <2>3. /\ Turn(e, TRUE, S) /\ f = Head(Incoming(e)) /\ Incoming(e) # <<>> /\ stage'[e] = stage[e]
          /\ Snapshot(obs'[e].s) = Snapshot(obs[e].s)
          /\ f.kind = "checkpoint" => f.body = obs[Peer(e)].s.sent /\ S = <<Frame("ack", f.body)>>
          /\ f.kind = "ack" => obs'[e].s.received = obs[e].s.received
      <3>1. /\ Turn(e, TRUE, S) /\ stage'[e] = stage[e]
            /\ f.kind = "ack" => obs'[e].s.received = obs[e].s.received
        BY <1>1, <1>2, <1>4, <2>1, <2>2, SettleFacts
      <3>2. f = Head(Incoming(e)) /\ Incoming(e) # <<>>
        BY <1>2, ClosingMx
      <3>3. f.kind = "checkpoint" => f.body = obs[Peer(e)].s.sent /\ S = <<Frame("ack", f.body)>>
        <4>1. f \in AllFrames /\ obs[e].s.phase \in Talking
          BY <1>1, <1>2, <1>4, <2>1, <2>2, SettleFacts
        <4>2. f.kind = "checkpoint" => f.body = obs[Peer(e)].s.sent
          BY <3>2, <4>1, HandleMx
        <4>3. f.kind = "checkpoint" => R = <<Frame("ack", f.body)>> /\ connected
          BY <1>1, <1>4, <4>1, ReplyFacts
        <4> QED  BY <2>2, <4>2, <4>3 DEF Reaches
      <3>4. Snapshot(obs'[e].s) = Snapshot(obs[e].s)
        BY <1>2, Frozen DEF ObsAdvance
      <3> QED  BY <3>1, <3>2, <3>3, <3>4
    <2>4. PICK p \in Ends : p = Peer(e) /\ p # e /\ Peer(p) = e
      BY EndFacts
    <2>5. /\ TsTypes /\ Closes(e) /\ Closes(p) /\ Finals(e) /\ Finals(p) /\ Roles
          /\ fin \in [Ends -> [sent : BOOLEAN, seen : BOOLEAN, own : Manifests, peer : Manifests]]
      BY DEF TsInv, TsTypes, MxInv, CloseOrder
    <2>6. /\ \A d \in Ends : d # e => fin'[d] = fin[d]
          /\ fin'[e].sent = fin[e].sent /\ fin'[e].own = fin[e].own
          /\ fin'[e].seen = (fin[e].seen \/ exact)
      BY <1>4, <2>5
    <2>7. Shut(obs[e].s.control) /\ Snapshot(obs[e].s)[3] = obs[e].s.control
      BY <1>2, <2>5 DEF Finals, Snapshot
    <2>8. ASSUME f.kind = "checkpoint"
          PROVE  ~None(Incoming(e), "checkpoint")
      <3>1. PICK q \in Seq(AllFrames) : q = Incoming(e)
        BY <2>5, IncomingFacts
      <3>2. 1 \in 1..Len(q) /\ q[1] = f
        BY <2>3, <3>1, DropFacts
      <3> QED  BY <2>8, <3>1, <3>2 DEF None
    <2>9. ASSUME f.kind = "checkpoint", fin[p].sent
          PROVE  f.body.snapshot = Snapshot(obs[p].s)
      BY <2>3, <2>4, <2>5, <2>9 DEF Finals
    <2>10. ASSUME exact
           PROVE  fin[p].sent /\ Snapshot(obs[p].s) = Snapshot(obs'[e].s) /\ AckLeads(Incoming(Peer(e))')
      <3>1. f.kind = "checkpoint" /\ f.body.snapshot = Snapshot(obs[e].s) /\ f.body = obs[p].s.sent
            /\ S = <<Frame("ack", f.body)>>
        BY <2>3, <2>4, <2>10
      <3>2. fin[p].sent
        <4>1. Shut(obs[p].s.sent.snapshot[3])
          BY <2>7, <3>1
        <4> QED  BY <2>4, <2>5, <2>8, <3>1, <4>1 DEF Finals
      <3>3. proc[p] = NoFrame
        BY <2>5, <3>2 DEF Finals, Roles, Late
      <3>4. Pairs(frames[p]) = {}
        <4>1. fin[e].own = NoManifest
          BY <2>5 DEF Closes
        <4> QED  BY <2>4, <2>5, <4>1 DEF Closes
      <3>5. S \in Seq(AllFrames) /\ Incoming(Peer(e))' = Incoming(Peer(e)) \o S
        BY <2>3 DEF Turn
      <3>6. PICK c : c = f.body
        OBVIOUS
      <3>7. S = <<Frame("ack", c)>>
        BY <3>1, <3>6
      <3>8. AckLeads(Incoming(p) \o <<Frame("ack", c)>>)
        BY <2>5, <3>3, <3>4, <3>5, <3>7, AckWritten
      <3> QED  BY <2>3, <2>4, <2>9, <3>1, <3>2, <3>5, <3>7, <3>8
    <2>11. FinalSeen(e)
      <3>1. fin[e].seen => fin'[e].seen
        BY <2>6
      <3>2. fin'[e].seen =>
               \/ fin[e].seen
               \/ /\ stage'[e] \in Late /\ fin[Peer(e)].sent
                  /\ Snapshot(obs[Peer(e)].s) = Snapshot(obs'[e].s)
        BY <1>2, <2>3, <2>4, <2>6, <2>10
      <3>3. \/ obs'[e].s.received = obs[e].s.received
            \/ ~fin[Peer(e)].sent
            \/ fin'[e].seen
            \/ Snapshot(obs'[e].s) # Snapshot(obs[Peer(e)].s)
        BY <2>3, <2>4, <2>6, <2>9
      <3> QED  BY <1>2, <2>3, <3>1, <3>2, <3>3 DEF FinalSeen
    <2>12. fin'[e].seen => fin[e].seen \/ AckLeads(Incoming(Peer(e))')
      BY <2>6, <2>10
    <2>13. /\ (\A d \in Ends : d # e => fin'[d] = fin[d])
           /\ fin'[e].sent = fin[e].sent /\ fin'[e].own = fin[e].own
      BY <2>6
    <2> QED  BY <1>1, <1>2, <1>4, <2>1, <2>11, <2>12, <2>13, SettleMx
  <1> QED  BY <1>3, <1>4

\* A frame that is read and neither settled nor answered.
LEMMA CalmRead ==
    ASSUME TsInv, MxInv, NEW e \in Ends, stage[e] \in Closing, frames[e] # <<>>, NEW next,
           FinContinues(e, obs[e], Taken(e), next), UNCHANGED termVars,
           \A d \in Ends : d # e => reason'[d] = reason[d] /\ fin'[d] = fin[d],
           fin'[e].sent = fin[e].sent, fin'[e].seen = fin[e].seen, fin'[e].own = fin[e].own
    PROVE  /\ Calm(e, TRUE, <<>>) /\ stage'[e] = next /\ obs'[e] = obs[e] /\ proc'[e] = NoFrame
           /\ Head(Incoming(e)) = Head(frames[e]) /\ UNCHANGED connected
  <1> HIDE DEF AllFrames
  <1>1. /\ TsTypes /\ proc[e] = NoFrame /\ stage[e] # "done" /\ raised \cap Spurious = {}
        /\ Incoming(e) = frames[e] /\ stage \in [Ends -> Stages] /\ obs \in [Ends -> Observers]
    BY ClosingMx
  <1>2. /\ obs' = [obs EXCEPT ![e] = obs[e]] /\ frames' = Taken(e)
        /\ stage' = [stage EXCEPT ![e] = next] /\ UNCHANGED <<proc, connected, raised>>
    BY DEF FinContinues, termVars
  <1>3. /\ obs'[e] = obs[e] /\ stage'[e] = next /\ proc'[e] = NoFrame
        /\ \A d \in Ends : d # e => obs'[d] = obs[d] /\ stage'[d] = stage[d]
    BY <1>1, <1>2
  <1>4. PICK g \in [Ends -> Seq(AllFrames)] :
           g = Taken(e) /\ \A d \in Ends : Pairs(g[d]) \subseteq Pairs(frames[d])
    BY <1>1, FrameFacts
  <1>5. /\ <<>> \in Seq(AllFrames) /\ Failure(<<>>) /\ Reaches(<<>>) = <<>>
        /\ Posted(g, e, <<>>) = g
    BY FailureFacts, PostedTo
  <1>6. Turn(e, TRUE, <<>>)
    <2>1. frames' = Posted(Taken(e), e, <<>>)
      BY <1>2, <1>4, <1>5
    <2>2. Turn(e, TRUE, Reaches(<<>>))
      BY <1>1, <1>2, <1>5, <2>1, ReadTurn
    <2> QED  BY <1>5, <2>2
  <1>7. Bounded(e)
    BY <1>2, <1>4, EndFacts DEF Bounded
  <1>8. Others(e)
    BY <1>2, <1>3 DEF Others
  <1>9. raised' \cap Spurious = {} /\ (connected' => connected) /\ Cp(obs'[e]) = Cp(obs[e])
    BY <1>1, <1>2, <1>3
  <1>10. Calm(e, TRUE, <<>>)
    BY <1>1, <1>5, <1>6, <1>7, <1>8, <1>9 DEF Calm
  <1> QED  BY <1>1, <1>2, <1>3, <1>10

\* A notice or a manifest is read behind the barrier.
LEMMA ReadLate ==
    ASSUME TsInv, MxInv, ObsAdvance, NEW e \in Ends, stage[e] \in {"final", "manifest"}, frames[e] # <<>>,
           Head(frames[e]).kind # "ack", NEW next, next \in {stage[e], "footer"},
           FinContinues(e, obs[e], Taken(e), next), UNCHANGED termVars, UNCHANGED reason,
           \A d \in Ends : d # e => fin'[d] = fin[d],
           fin'[e].sent = fin[e].sent, fin'[e].seen = fin[e].seen, fin'[e].own = fin[e].own
    PROVE  MxInv'
  <1>1. stage[e] \in Closing /\ stage[e] \notin {"receiver", "notice"} /\ next \in {"final", "manifest", "footer"}
    BY DEF Closing
  <1>2. /\ Calm(e, TRUE, <<>>) /\ stage'[e] = next /\ obs'[e] = obs[e] /\ proc'[e] = NoFrame
        /\ Head(Incoming(e)) = Head(frames[e]) /\ UNCHANGED connected
    <2>1. \A d \in Ends : d # e => reason'[d] = reason[d] /\ fin'[d] = fin[d]
      OBVIOUS
    <2> QED  BY <1>1, <2>1, CalmRead
  <1>3. stage[e] # "done" /\ (e = Host => Told)
    BY <1>1, ClosingMx
  <1>4. Behind(e) /\ stage'[e] \in Late /\ stage'[e] \in Past
    BY <1>1, <1>2 DEF Behind, Late, Past
  <1>5. Forward(e) /\ Barred(e)
    BY <1>2, <1>3, <1>4 DEF Forward, Barred
  <1>6. Orderly(e, TRUE, <<>>)
    <2>1. CASE e = Controller
      <3>1. OrderlyC(<<>>)
        BY <1>1, <1>2, <2>1 DEF OrderlyC
      <3> QED  BY <2>1, <3>1 DEF Orderly
    <2>2. CASE e = Host
      <3>1. Noticed'
        BY <1>4, <2>2 DEF Noticed
      <3>2. OrderlyH(TRUE, <<>>)
        BY <1>1, <1>2, <1>3, <2>2, <3>1 DEF OrderlyH
      <3> QED  BY <2>2, <3>2, EndFacts DEF Orderly
    <2> QED  BY <2>1, <2>2, EndFacts
  <1> QED  BY <1>2, <1>5, <1>6, CalmKeeps

\* A manifest of the peer is on its way only once both have confirmed.
LEMMA PairSent ==
    ASSUME TsInv, MxInv, NEW e \in Ends, frames[e] # <<>>, Head(frames[e]).kind \in {"manifest", "signature"}
    PROVE  LET p == Peer(e) IN
           fin[p].own # NoManifest /\ fin[p].seen /\ fin[p].sent /\ ~obs[p].awaiting /\ fin[e].sent /\ stage[e] \in Late
  <1>1. PICK p \in Ends : p = Peer(e) /\ Peer(p) = e
    BY EndFacts
  <1>2. TsTypes /\ Closes(e) /\ Finals(p) /\ Finals(e)
    BY DEF TsInv, MxInv
  <1>3. Head(frames[e]) \in Pairs(frames[e])
    BY <1>2, FrameFacts
  <1>4. fin[p].own # NoManifest
    BY <1>1, <1>2, <1>3 DEF Closes
  <1>5. fin[p].seen /\ fin[p].sent /\ ~obs[p].awaiting
    BY <1>2, <1>4 DEF Finals
  <1>6. fin[e].sent
    BY <1>1, <1>2, <1>5 DEF Finals
  <1> QED  BY <1>1, <1>2, <1>4, <1>5, <1>6 DEF Finals

\* receive_close_reason.
LEMMA FinReceiveNoticeMx ==
    ASSUME TsInv, MxInv, ObsAdvance, NEW e \in Ends, FinReceiveNotice(e), UNCHANGED termVars
    PROVE  MxInv'
  <1> HIDE DEF AllFrames
  <1>1. stage[e] = "receiver" /\ frames[e] # <<>> /\ stage[e] \in Closing
    BY DEF FinReceiveNotice, Closing
  <1>2. PICK f : f = Head(frames[e])
    OBVIOUS
  <1>3. /\ CloseOrder /\ Incoming(e) = frames[e] /\ obs[e] \in Observers /\ TsTypes /\ stage[e] # "done"
        /\ reason \in [Ends -> Reasons]
    BY <1>1, ClosingMx
  <1>4. e = Host
    BY <1>1, <1>3, EndFacts DEF CloseOrder, Roles
  <1>5. CASE f.kind \in {"checkpoint", "ack"}
    <2>1. FinSettle(e, f) /\ UNCHANGED fin
      BY <1>2, <1>5 DEF FinReceiveNotice
    <2> QED  BY <1>1, <1>2, <1>5, <2>1, SettleEarly
  <1>6. CASE f.kind = "notice"
    <2>1. FinContinues(e, obs[e], Taken(e), "barrier") /\ reason' = [reason EXCEPT ![e] = f.body] /\ UNCHANGED fin
      BY <1>2, <1>6 DEF FinReceiveNotice
    <2>2. reason'[e] = f.body /\ \A d \in Ends : d # e => reason'[d] = reason[d] /\ fin'[d] = fin[d]
      BY <1>3, <2>1
    <2>3. /\ Calm(e, TRUE, <<>>) /\ stage'[e] = "barrier" /\ obs'[e] = obs[e] /\ proc'[e] = NoFrame
          /\ Head(Incoming(e)) = f /\ UNCHANGED connected
      <3>1. fin'[e].sent = fin[e].sent /\ fin'[e].seen = fin[e].seen /\ fin'[e].own = fin[e].own
        BY <2>1
      <3> QED  BY <1>1, <1>2, <2>1, <2>2, <3>1, CalmRead
    <2>4. Told /\ f.body # "none"
      <3>1. PICK q \in Seq(AllFrames) : q = Incoming(Host)
        BY <1>3, <1>4, IncomingFacts
      <3>2. 1 \in 1..Len(q) /\ q[1] = f
        BY <1>1, <1>2, <1>3, <1>4, <3>1, DropFacts
      <3> QED  BY <1>3, <1>6, <3>1, <3>2 DEF CloseOrder, NoticeLeads
    <2>5. Forward(e) /\ Barred(e)
      <3>1. stage[e] \notin Past /\ stage[e] \notin Late /\ ~Behind(e)'
        BY <1>1, <2>3 DEF Past, Late, Behind
      <3> QED  BY <1>3, <2>3, <3>1 DEF Forward, Barred
    <2>6. Noticed'
      BY <1>4, <2>3 DEF Noticed, Past
    <2>7. OrderlyH(TRUE, <<>>)
      BY <1>4, <2>2, <2>3, <2>4, <2>6 DEF OrderlyH
    <2>8. Orderly(e, TRUE, <<>>)
      BY <1>4, <2>7, EndFacts DEF Orderly
    <2>9. Head(Incoming(e)).kind # "ack"
      BY <1>6, <2>3
    <2> QED  BY <2>3, <2>5, <2>8, <2>9, CalmKeeps
  <1>7. CASE f.kind = "error"
    <2>1. FinFails(e, "FailedClosed", obs[e], Taken(e)) /\ "FailedClosed" \notin Spurious
      BY <1>2, <1>7 DEF FinReceiveNotice, Spurious
    <2> QED  BY <1>1, <1>3, <2>1, FinFailsMx
  <1>8. CASE f.kind \in {"manifest", "signature"}
    <2>1. stage[e] \in Late
      BY <1>1, <1>2, <1>8, PairSent
    <2> QED  BY <1>1, <2>1 DEF Late
  <1> QED  BY <1>2, <1>5, <1>6, <1>7, <1>8 DEF FinReceiveNotice

\* The controller's close notice.
LEMMA FinSendNoticeMx ==
    ASSUME TsInv, MxInv, ObsAdvance, NEW e \in Ends, FinSendNotice(e), UNCHANGED termVars
    PROVE  MxInv'
  <1> HIDE DEF AllFrames
  <1>1. stage[e] = "notice" /\ stage[e] \in Closing
    BY DEF FinSendNotice, Closing
  <1>2. /\ CloseOrder /\ obs[e] \in Observers /\ TsTypes /\ stage[e] # "done" /\ proc[e] = NoFrame
        /\ reason \in [Ends -> Reasons] /\ stage \in [Ends -> Stages] /\ obs \in [Ends -> Observers]
        /\ raised \cap Spurious = {}
    BY <1>1, ClosingMx
  <1>3. e = Controller /\ reason[e] \notin {"none", "AuditFailure"}
    BY <1>1, <1>2, EndFacts DEF CloseOrder, Roles
  <1>4. CASE ~connected
    <2>1. FinFails(e, "Substream", obs[e], frames) /\ "Substream" \notin Spurious
      BY <1>4 DEF FinSendNotice, Spurious
    <2> QED  BY <1>1, <1>2, <2>1, FinFailsMx
  <1>5. CASE connected
    <2>1. PICK S \in Seq(AllFrames) : S = <<Frame("notice", reason[e])>>
      <3>1. Plain(<<Frame("notice", reason[e])>>)
        BY <1>2, PlainFacts
      <3> QED  BY <3>1 DEF Plain
    <2>2. /\ obs' = [obs EXCEPT ![e] = obs[e]] /\ frames' = Posted(frames, e, S)
          /\ stage' = [stage EXCEPT ![e] = "barrier"] /\ UNCHANGED <<proc, connected, raised, reason, fin>>
      BY <1>5, <2>1 DEF FinSendNotice, FinContinues, Post, termVars
    <2>3. /\ obs'[e] = obs[e] /\ stage'[e] = "barrier"
          /\ \A d \in Ends : d # e => obs'[d] = obs[d] /\ stage'[d] = stage[d]
      BY <1>2, <2>2
    <2>4. Turn(e, FALSE, S) /\ frames'[e] = frames[e]
      <3>1. Turn(e, FALSE, Reaches(S)) /\ frames'[e] = frames[e]
        BY <1>2, <2>2, WriteTurn
      <3> QED  BY <1>5, <3>1 DEF Reaches
    <2>5. Len(S) = 1 /\ S[1].kind = "notice" /\ S[1].body = reason[e]
      BY <2>1 DEF Frame
    <2>6. \A i \in 1..Len(S) : i = 1
      BY <2>5
    <2>7. None(S, "checkpoint") /\ None(S, "ack") /\ \A i \in 1..Len(S) : ~Closed(S[i])
      BY <2>5, <2>6 DEF None, Closed
    <2>8. Exchanging(e, FALSE, S)
      BY <2>3, <2>7 DEF Exchanging, Silent, Cp
    <2>9. /\ stage[e] \notin Past /\ stage[e] \notin Late /\ ~Behind(e)' /\ stage'[e] \in Past
      BY <1>1, <2>3 DEF Past, Late, Behind
    <2>10. Others(e) /\ Forward(e) /\ Barred(e)
      BY <1>2, <2>2, <2>3, <2>9 DEF Others, Forward, Barred
    <2>11. /\ ~fin[e].sent /\ ~fin[e].seen /\ fin[e].own = NoManifest
      BY <2>9, EarlyFacts
    <2>12. FinalSent(e, S) /\ FinalSeen(e)
      BY <2>2, <2>3, <2>7, <2>11 DEF FinalSent, FinalSeen
    <2>13. Answered(e, FALSE)
      BY <1>5, <2>2, <2>3, <2>4 DEF Answered
    <2>14. Told'
      BY <1>3, <2>9 DEF Told
    <2>15. Notice(S[1]) /\ 1 \in 1..Len(S)
      BY <1>3, <2>5 DEF Notice
    <2>16. OrderlyC(S)
      <3>1. \A i \in 1..Len(S) : S[i].kind = "notice" => Told' /\ S[i].body # "none"
        BY <1>3, <2>5, <2>6, <2>14
      <3> QED  BY <1>2, <1>3, <2>2, <2>3, <2>7, <2>15, <3>1 DEF OrderlyC
    <2>17. Orderly(e, FALSE, S) /\ raised' \cap Spurious = {}
      BY <1>2, <1>3, <2>2, <2>16 DEF Orderly
    <2>18. Moves(e, FALSE, S)
      BY <2>4, <2>8, <2>10, <2>12, <2>13, <2>17 DEF Moves
    <2> QED  BY <2>18, MxKept
  <1> QED  BY <1>4, <1>5

\* The shared close barrier.
LEMMA FinBarrierMx ==
    ASSUME TsInv, MxInv, ObsAdvance, NEW e \in Ends, FinBarrier(e), UNCHANGED termVars
    PROVE  MxInv'
  <1> HIDE DEF AllFrames, Events, Histories, Reasons
  <1>1. stage[e] = "barrier" /\ stage[e] \in Closing /\ stage[e] \notin {"receiver", "notice"}
    BY DEF FinBarrier, Closing
  <1>2. /\ CloseOrder /\ obs[e] \in Observers /\ TsTypes /\ stage[e] # "done" /\ proc[e] = NoFrame
        /\ reason \in [Ends -> Reasons] /\ stage \in [Ends -> Stages] /\ obs \in [Ends -> Observers]
        /\ raised \cap Spurious = {} /\ Sane(obs[e]) /\ obs[e].s.phase # "Finished"
        /\ frames \in [Ends -> Seq(AllFrames)] /\ (e = Host => Told)
    BY <1>1, ClosingMx
  <1>3. PICK v \in Events : v = <<"close", reason[e]>>
    BY <1>2, EventFacts
  <1>4. PICK o : o = obs[e]
    OBVIOUS
  <1>5. PICK next : next = RecordControl(o.s, v)
    OBVIOUS
  <1>6. Longer(o.s, next) /\ next \in Sessions /\ CpOf(next) = CpOf(o.s)
    <2>1. Longer(o.s, next)
      BY <1>2, <1>4, <1>5, LongerFacts
    <2>2. CpOf(next) = CpOf(o.s)
      BY <1>2, <1>4, <1>5, CpFacts
    <2> QED  BY <2>1, <2>2 DEF Longer
  <1>7. CASE ~RecordOk(o)
    <2>1. PICK p : p = Record(o, next)
      OBVIOUS
    <2>2. p \in Observers
      BY <1>2, <1>4, <1>6, <2>1, RecordFacts DEF Advances, Sane
    <2>3. Cp(p) = Cp(obs[e])
      BY <1>2, <1>4, <1>6, <2>1, CpFacts
    <2>4. PICK r \in Seq(AllFrames) : r = RecordNotices(o) /\ Failure(r)
      BY FailureFacts
    <2>5. FinFails(e, "RecordWriteFailed", p, Posted(frames, e, r)) /\ "RecordWriteFailed" \notin Spurious
      BY <1>3, <1>4, <1>5, <1>7, <2>1, <2>4 DEF FinBarrier, Post, Spurious
    <2> QED  BY <1>1, <2>2, <2>3, <2>4, <2>5, FinFailsMx
  <1>8. CASE RecordOk(o)
    <2>1. PICK p : p = Appended([o EXCEPT !.s = CloseDirections(RecordControl(o.s, v))])
      OBVIOUS
    <2>2. Cp(p) = Cp(obs[e])
      BY <1>2, <1>4, <2>1, CpFacts
    <2>3. o.s.phase = "Active"
      BY <1>8 DEF RecordOk, Recordable
    <2>4. p.s.control = Append(obs[e].s.control, v)
      BY <1>2, <1>4, <2>1, <2>3, CloseFacts
    <2>5. Shut(p.s.control)
      <3>1. obs[e].s \in Sessions
        BY <1>2 DEF Observers
      <3>2. PICK h \in Histories : h = obs[e].s.control
        BY <3>1 DEF Sessions
      <3>3. PICK w \in Reasons : w = reason[e]
        BY <1>2
      <3>4. Shut(Append(h, <<"close", w>>))
        BY ShutFacts
      <3> QED  BY <1>3, <2>4, <3>2, <3>3, <3>4
    <2>6. /\ obs' = [obs EXCEPT ![e] = p] /\ frames' = frames
          /\ stage' = [stage EXCEPT ![e] = "final"] /\ UNCHANGED <<proc, connected, raised, reason, fin>>
      BY <1>3, <1>4, <1>8, <2>1 DEF FinBarrier, FinContinues, termVars
    <2>7. /\ <<>> \in Seq(AllFrames) /\ frames' = Posted(frames, e, <<>>) /\ Failure(<<>>)
          /\ Reaches(<<>>) = <<>>
      BY <1>2, <2>6, FailureFacts, PostedTo
    <2>8. Calm(e, FALSE, <<>>) /\ obs'[e] = p /\ stage'[e] = "final"
      <3>1. PICK q \in Seq(AllFrames) : q = <<>>
        BY <2>7
      <3>2. frames' = Posted(frames, e, q) /\ Failure(q) /\ Reaches(q) = <<>>
        BY <2>7, <3>1
      <3>3. UNCHANGED <<fin, proc, connected>> /\ raised' \cap Spurious = {}
        BY <1>2, <2>6
      <3>4. \A d \in Ends : d # e => reason'[d] = reason[d]
        BY <2>6
      <3>5. PICK n : n = "final"
        OBVIOUS
      <3>6. stage' = [stage EXCEPT ![e] = n] /\ obs' = [obs EXCEPT ![e] = p]
        BY <2>6, <3>5
      <3>7. Calm(e, FALSE, Reaches(q)) /\ obs'[e] = p /\ stage'[e] = n
        BY <1>2, <2>2, <3>2, <3>3, <3>4, <3>6, CalmWrite
      <3> QED  BY <3>2, <3>5, <3>7
    <2>9. Forward(e) /\ Barred(e)
      <3>1. stage[e] \notin Late /\ stage'[e] \in Late /\ stage'[e] \in Past
        BY <1>1, <2>8 DEF Late, Past
      <3> QED  BY <1>2, <2>5, <2>6, <2>8, <3>1 DEF Forward, Barred
    <2>10. Orderly(e, FALSE, <<>>)
      <3>1. CASE e = Controller
        <4>1. OrderlyC(<<>>)
          BY <1>1, <1>2, <2>6, <2>8, <3>1 DEF OrderlyC
        <4> QED  BY <3>1, <4>1 DEF Orderly
      <3>2. CASE e = Host
        <4>1. OrderlyH(FALSE, <<>>)
          BY <1>2, <2>6, <2>8, <3>2 DEF OrderlyH
        <4> QED  BY <3>2, <4>1, EndFacts DEF Orderly
      <3> QED  BY <3>1, <3>2, EndFacts
    <2> QED  BY <2>8, <2>9, <2>10, CalmKeeps
  <1> QED  BY <1>7, <1>8

\* The final checkpoint.
LEMMA FinSendFinalMx ==
    ASSUME TsInv, MxInv, ObsAdvance, NEW e \in Ends, FinSendFinal(e), UNCHANGED termVars
    PROVE  MxInv'
  <1> HIDE DEF AllFrames
  <1>1. /\ stage[e] = "final" /\ stage[e] \in Closing /\ stage[e] \notin {"receiver", "notice"}
        /\ ~fin[e].sent /\ ~obs[e].awaiting /\ stage[e] \in Late /\ stage[e] \in Past /\ Behind(e)
    BY DEF FinSendFinal, FinalDue, Closing, Late, Past, Behind
  <1>2. /\ CloseOrder /\ TsTypes /\ stage[e] # "done" /\ proc[e] = NoFrame
        /\ stage \in [Ends -> Stages] /\ obs \in [Ends -> Observers]
        /\ fin \in [Ends -> [sent : BOOLEAN, seen : BOOLEAN, own : Manifests, peer : Manifests]]
        /\ raised \cap Spurious = {} /\ Sane(obs[e])
        /\ frames \in [Ends -> Seq(AllFrames)] /\ (e = Host => Told)
    BY <1>1, ClosingMx
  <1>3. PICK p \in Ends : p = Peer(e) /\ Peer(p) = e
    BY EndFacts
  <1>4. Closes(e) /\ Finals(e) /\ Finals(p) /\ Exchange(e)
    BY DEF TsInv, MxInv
  <1>5. /\ ~fin[Peer(e)].seen /\ fin[e].own = NoManifest /\ Shut(obs[e].s.control)
    BY <1>1, <1>3, <1>4 DEF Finals, Closes
  <1>6. /\ None(Incoming(Peer(e)), "checkpoint")
        /\ obs[e].s.next # obs[Peer(e)].s.received.sequence
    <2>1. /\ obs[e].s.next = obs[e].s.sent.sequence + 1 /\ None(Incoming(Peer(e)), "checkpoint")
          /\ obs[e].s.sent.sequence = obs[Peer(e)].s.received.sequence
      BY <1>1, <1>4 DEF Exchange, Agreed
    <2>2. obs[e].s.sent.sequence \in Nat
      BY <1>2, SequenceFacts
    <2> QED  BY <2>1, <2>2
  <1>7. PICK o : o = SendCheckpoint(obs[e])
    OBVIOUS
  <1>8. PICK q : q = CheckpointFrame(obs[e])
    OBVIOUS
  <1>9. /\ o.awaiting = TRUE /\ o.s.next = obs[e].s.next + 1 /\ o.s.sent = Checkpoint(obs[e].s)
        /\ o.s.received = obs[e].s.received /\ o.s.control = obs[e].s.control
        /\ o.s.sent.sequence = obs[e].s.next /\ o.s.sent.snapshot = Snapshot(o.s)
        /\ o.s.sent.snapshot[3] = obs[e].s.control
        /\ q = <<Frame("checkpoint", o.s.sent)>> /\ q \in Seq(AllFrames)
    <2>1. PICK b : b = obs[e]
      OBVIOUS
    <2>2. Sane(b) /\ o = SendCheckpoint(b)
      BY <1>2, <1>7, <2>1
    <2>3. /\ o.awaiting = TRUE /\ o.s.next = b.s.next + 1 /\ o.s.sent = Checkpoint(b.s)
          /\ o.s.received = b.s.received /\ o.s.control = b.s.control
          /\ Snapshot(o.s) = Snapshot(b.s)
          /\ o.s.sent.sequence = b.s.next /\ o.s.sent.snapshot = Snapshot(b.s)
          /\ o.s.sent.snapshot[3] = b.s.control
      BY <2>2, SendCp
    <2>4. /\ CheckpointFrame(b) = <<Frame("checkpoint", o.s.sent)>>
          /\ CheckpointFrame(b) \in Seq(AllFrames)
      BY <2>2, SendCp
    <2>5. q = CheckpointFrame(b)
      BY <1>8, <2>1
    <2>6. q = <<Frame("checkpoint", o.s.sent)>> /\ q \in Seq(AllFrames)
      BY <2>4, <2>5
    <2>7. /\ o.awaiting = TRUE /\ o.s.next = obs[e].s.next + 1 /\ o.s.sent = Checkpoint(obs[e].s)
          /\ o.s.received = obs[e].s.received /\ o.s.control = obs[e].s.control
          /\ o.s.sent.sequence = obs[e].s.next /\ o.s.sent.snapshot = Snapshot(o.s)
          /\ o.s.sent.snapshot[3] = obs[e].s.control
      BY <2>1, <2>3
    <2> QED  BY <2>6, <2>7
  <1>10. o \in Observers
    BY <1>2, <1>7, SendFacts DEF Kept, Sane
  <1>11. CASE ~(obs[e].writer = "ok" /\ connected)
    <2>1. PICK error \in {"RecordWriteFailed", "Substream"} : FinFails(e, error, o, frames)
      BY <1>7, <1>11 DEF FinSendFinal
    <2>2. error \notin Spurious
      BY DEF Spurious
    <2>3. /\ \E r \in Seq(AllFrames) : Failure(r) /\ frames' = Posted(frames, e, r)
          /\ Cp(obs'[e]) = Cp(o) /\ stage'[e] = "done" /\ proc'[e] = NoFrame /\ reason'[e] = reason[e]
          /\ Others(e) /\ UNCHANGED <<fin, proc, connected, reason>> /\ raised' \cap Spurious = {}
          /\ (connected' => connected)
      BY <1>1, <1>2, <1>10, <2>1, <2>2, FinFailsFacts
    <2>4. PICK r \in Seq(AllFrames) : Failure(r) /\ frames' = Posted(frames, e, r)
      BY <2>3
    <2>5. PICK S : S = Reaches(r)
      OBVIOUS
    <2>6. Turn(e, FALSE, S) /\ frames'[e] = frames[e] /\ (~connected => frames' = frames)
      <3>1. Turn(e, FALSE, Reaches(r)) /\ frames'[e] = frames[e]
        BY <1>2, <2>3, <2>4, WriteTurn
      <3>2. ~connected => frames' = frames
        BY <2>4 DEF Posted
      <3> QED  BY <2>5, <3>1, <3>2
    <2>7. Failure(S) /\ None(S, "checkpoint") /\ None(S, "ack")
      BY <2>4, <2>5, FailureFacts
    <2>8. Lone(S, "checkpoint", obs'[e].s.sent)
      BY <2>7 DEF Lone, None
    <2>9. /\ obs'[e].s.next = o.s.next /\ obs'[e].s.sent = o.s.sent
          /\ obs'[e].s.received = o.s.received /\ obs'[e].awaiting = o.awaiting
      BY <2>3 DEF Cp
    <2>10. Exchanging(e, FALSE, S)
      BY <1>1, <1>9, <2>7, <2>8, <2>9 DEF Exchanging, Sending
    <2>11. Forward(e) /\ Barred(e) /\ Orderly(e, FALSE, S)
      BY <1>2, <2>3, <2>7, DoneOrderly
    <2>12. FinalSent(e, S)
      BY <1>1, <1>5, <1>6, <2>3, <2>7 DEF FinalSent
    <2>13. FinalSeen(e)
      BY <1>9, <2>3, <2>9 DEF FinalSeen
    <2>14. Answered(e, FALSE)
      BY <1>5, <2>3, <2>6 DEF Answered
    <2>15. Moves(e, FALSE, S)
      BY <2>3, <2>6, <2>10, <2>11, <2>12, <2>13, <2>14 DEF Moves
    <2> QED  BY <2>15, MxKept
  <1>12. CASE obs[e].writer = "ok" /\ connected
    <2>1. /\ obs' = [obs EXCEPT ![e] = o] /\ frames' = Posted(frames, e, q)
          /\ stage' = [stage EXCEPT ![e] = "final"] /\ UNCHANGED <<proc, connected, raised, reason>>
          /\ fin' = [fin EXCEPT ![e].sent = TRUE]
      BY <1>7, <1>8, <1>12 DEF FinSendFinal, FinContinues, Post, termVars
    <2>2. /\ obs'[e] = o /\ stage'[e] = "final" /\ fin'[e].sent /\ fin'[e].seen = fin[e].seen
          /\ fin'[e].own = fin[e].own
          /\ \A d \in Ends : d # e => obs'[d] = obs[d] /\ stage'[d] = stage[d] /\ fin'[d] = fin[d]
      BY <1>2, <2>1
    <2>3. Turn(e, FALSE, q) /\ frames'[e] = frames[e]
      <3>1. Turn(e, FALSE, Reaches(q)) /\ frames'[e] = frames[e]
        BY <1>2, <1>9, <2>1, WriteTurn
      <3> QED  BY <1>12, <3>1 DEF Reaches
    <2>4. /\ Lone(q, "checkpoint", o.s.sent) /\ None(q, "ack")
          /\ \A i \in 1..Len(q) : q[i].kind # "notice" /\ i = 1
      BY <1>9 DEF Lone, None, Frame
    <2>5. Exchanging(e, FALSE, q)
      BY <1>1, <1>9, <2>2, <2>4 DEF Exchanging, Sending
    <2>6. Others(e) /\ Forward(e) /\ Barred(e)
      BY <1>1, <1>2, <1>9, <2>1, <2>2 DEF Others, Forward, Barred
    <2>7. FinalSent(e, q)
      BY <1>1, <1>5, <1>6, <1>9, <2>2 DEF FinalSent
    <2>8. FinalSeen(e)
      BY <1>9, <2>2 DEF FinalSeen
    <2>9. Answered(e, FALSE)
      BY <1>5, <1>12, <2>2, <2>3 DEF Answered
    <2>10. Orderly(e, FALSE, q)
      <3>1. CASE e = Controller
        <4>1. OrderlyC(q)
          BY <1>1, <1>2, <1>12, <2>1, <2>2, <2>4, <3>1 DEF OrderlyC
        <4> QED  BY <3>1, <4>1 DEF Orderly
      <3>2. CASE e = Host
        <4>1. OrderlyH(FALSE, q)
          BY <1>2, <2>1, <2>2, <3>2 DEF OrderlyH
        <4> QED  BY <3>2, <4>1, EndFacts DEF Orderly
      <3> QED  BY <3>1, <3>2, EndFacts
    <2>11. raised' \cap Spurious = {}
      BY <1>2, <2>1
    <2>12. Moves(e, FALSE, q)
      BY <2>3, <2>5, <2>6, <2>7, <2>8, <2>9, <2>10, <2>11 DEF Moves
    <2> QED  BY <2>12, MxKept
  <1> QED  BY <1>11, <1>12

\* An end that is not confirmed has no manifest to read.
LEMMA ManifestWaits ==
    ASSUME TsInv, MxInv, NEW e \in Ends, stage[e] = "final", ~FinalDue(e), ~Confirmed(e), frames[e] # <<>>
    PROVE  Head(frames[e]).kind \notin {"manifest", "signature"}
  <1> HIDE DEF AllFrames
  <1>1. SUFFICES ASSUME Head(frames[e]).kind \in {"manifest", "signature"}
                 PROVE  FALSE
    OBVIOUS
  <1>2. PICK p \in Ends : p = Peer(e) /\ Peer(p) = e
    BY EndFacts
  <1>3. fin[p].seen /\ fin[p].sent /\ ~obs[p].awaiting /\ fin[e].sent
    BY <1>1, <1>2, PairSent
  <1>4. TsTypes /\ Finals(e) /\ Finals(p) /\ Exchange(p) /\ AckFirst(e) /\ stage[e] \in Closing
    BY DEF TsInv, MxInv, Closing
  <1>5. fin[e].seen
    <2>1. obs[e].s.received.sequence = obs[p].s.sent.sequence
      BY <1>2, <1>3, <1>4 DEF Exchange, Agreed
    <2>2. Snapshot(obs[e].s) = Snapshot(obs[p].s)
      BY <1>2, <1>3, <1>4 DEF Finals
    <2> QED  BY <1>2, <1>3, <1>4, <2>1, <2>2 DEF Finals
  <1>6. obs[e].awaiting
    BY <1>3, <1>5 DEF Confirmed
  <1>7. Head(frames[e]) \in Pairs(frames[e]) /\ Incoming(e) = frames[e]
    BY <1>1, <1>4, FrameFacts, ClosingMx
  <1>8. AckLeads(frames[e])
    BY <1>2, <1>3, <1>4, <1>6, <1>7 DEF AckFirst
  <1>9. PICK q \in Seq(AllFrames) : q = frames[e]
    BY <1>4, IncomingFacts
  <1>10. 1 \in 1..Len(q) /\ q[1] = Head(q)
    BY <1>9, DropFacts
  <1>11. PICK i \in 1..Len(q) : \A j \in 1..Len(q) : q[j].kind \in {"manifest", "signature"} => i < j
    BY <1>8, <1>9 DEF AckLeads
  <1>12. i < 1
    BY <1>1, <1>9, <1>10, <1>11
  <1> QED  BY <1>12

\* The checkpoint loop.
LEMMA FinReadFrameMx ==
    ASSUME TsInv, MxInv, ObsAdvance, NEW e \in Ends, FinReadFrame(e), UNCHANGED termVars
    PROVE  MxInv'
  <1> HIDE DEF AllFrames
  <1>1. /\ stage[e] = "final" /\ ~FinalDue(e) /\ ~Confirmed(e) /\ frames[e] # <<>> /\ stage[e] \in Closing
    BY DEF FinReadFrame, Closing
  <1>2. PICK f : f = Head(frames[e])
    OBVIOUS
  <1>3. obs[e] \in Observers
    BY <1>1, ClosingMx
  <1>4. f.kind \notin {"manifest", "signature"}
    BY <1>1, <1>2, ManifestWaits
  <1>5. CASE f.kind \in {"checkpoint", "ack"}
    <2>1. PICK exact \in BOOLEAN : exact = (f.kind = "checkpoint" /\ f.body.snapshot = Snapshot(obs[e].s))
      OBVIOUS
    <2>2. /\ FinSettle(e, f)
          /\ fin' = [fin EXCEPT ![e].seen = @ \/ (exact /\ FrameError(obs[e], f) = "none")]
      BY <1>2, <1>5, <2>1 DEF FinReadFrame
    <2> QED  BY <1>1, <1>2, <1>5, <2>1, <2>2, SettleFinal
  <1>6. CASE f.kind \in {"notice", "error"}
    <2>1. CASE f = Frame("notice", reason[e])
      <3>1. FinContinues(e, obs[e], Taken(e), "final") /\ UNCHANGED <<reason, fin>>
        BY <1>2, <1>6, <2>1 DEF FinReadFrame
      <3>2. Head(frames[e]).kind # "ack" /\ "final" \in {stage[e], "footer"}
        BY <1>1, <1>2, <1>6
      <3>3. /\ \A d \in Ends : d # e => fin'[d] = fin[d]
            /\ fin'[e].sent = fin[e].sent /\ fin'[e].seen = fin[e].seen /\ fin'[e].own = fin[e].own
        BY <3>1
      <3>4. UNCHANGED reason
        BY <3>1
      <3> QED  BY <1>1, <3>1, <3>2, <3>3, <3>4, ReadLate
    <2>2. CASE f # Frame("notice", reason[e])
      <3>1. FinFails(e, "UnexpectedFrame", obs[e], Taken(e)) /\ "UnexpectedFrame" \notin Spurious
        BY <1>2, <1>6, <2>2 DEF FinReadFrame, Spurious
      <3> QED  BY <1>1, <1>3, <3>1, FinFailsMx
    <2> QED  BY <2>1, <2>2
  <1> QED  BY <1>2, <1>4, <1>5, <1>6 DEF FinReadFrame

\* build_and_send_manifest.
LEMMA FinManifestMx ==
    ASSUME TsInv, MxInv, ObsAdvance, NEW e \in Ends, FinManifest(e), UNCHANGED termVars
    PROVE  MxInv'
  <1> HIDE DEF AllFrames
  <1>1. /\ stage[e] = "final" /\ Confirmed(e) /\ stage[e] \in Closing /\ stage[e] \notin {"receiver", "notice"}
        /\ stage[e] \in Late /\ stage[e] \in Past /\ Behind(e)
    BY DEF FinManifest, Closing, Late, Past, Behind
  <1>2. /\ CloseOrder /\ TsTypes /\ stage[e] # "done" /\ proc[e] = NoFrame
        /\ stage \in [Ends -> Stages] /\ obs \in [Ends -> Observers] /\ obs[e] \in Observers
        /\ fin \in [Ends -> [sent : BOOLEAN, seen : BOOLEAN, own : Manifests, peer : Manifests]]
        /\ raised \cap Spurious = {} /\ (e = Host => Told)
    BY <1>1, ClosingMx
  <1>3. CASE ~(obs[e].writer = "ok" /\ connected)
    <2>1. PICK error \in {"RecordWriteFailed", "Substream"} : FinFails(e, error, obs[e], frames)
      BY <1>3 DEF FinManifest
    <2>2. error \notin Spurious
      BY DEF Spurious
    <2> QED  BY <1>1, <1>2, <2>1, <2>2, FinFailsMx
  <1>4. CASE obs[e].writer = "ok" /\ connected
    <2>1. PICK m : m = Manifest(obs[e].s, ending[e])
      OBVIOUS
    <2>2. m \in Manifests
      <3>1. ending \in [Ends -> Endings]
        BY <1>2 DEF TsTypes
      <3>2. obs[e].s \in Sessions
        BY <1>2 DEF Observers
      <3> QED  BY <2>1, <3>1, <3>2, SnapshotFacts
    <2>3. PICK a : a = Frame("manifest", m)
      OBVIOUS
    <2>4. PICK b : b = Frame("signature", m)
      OBVIOUS
    <2>5. a \in AllFrames /\ b \in AllFrames /\ a.kind = "manifest" /\ b.kind = "signature"
      <3> HIDE DEF Manifests, Checkpoints, Reasons
      <3> QED  BY <2>2, <2>3, <2>4 DEF Frame, AllFrames
    <2>6. PICK S \in Seq(AllFrames) : S = <<a, b>>
      <3>1. a \in AllFrames /\ b \in AllFrames
        BY <2>5
      <3>2. <<a, b>> \in Seq(AllFrames)
        BY <3>1
      <3> QED  BY <3>2
    <2>7. /\ obs' = [obs EXCEPT ![e] = obs[e]] /\ frames' = Posted(frames, e, S)
          /\ stage' = [stage EXCEPT ![e] = "manifest"] /\ UNCHANGED <<proc, connected, raised, reason>>
          /\ fin' = [fin EXCEPT ![e].own = m]
      BY <1>4, <2>1, <2>3, <2>4, <2>6 DEF FinManifest, FinContinues, Post, termVars
    <2>8. /\ obs'[e] = obs[e] /\ stage'[e] = "manifest" /\ fin'[e].sent = fin[e].sent
          /\ fin'[e].seen = fin[e].seen
          /\ \A d \in Ends : d # e => obs'[d] = obs[d] /\ stage'[d] = stage[d] /\ fin'[d] = fin[d]
      BY <1>2, <2>7
    <2>9. Turn(e, FALSE, S) /\ frames'[e] = frames[e]
      <3>1. Turn(e, FALSE, Reaches(S)) /\ frames'[e] = frames[e]
        BY <1>2, <2>7, WriteTurn
      <3> QED  BY <1>4, <3>1 DEF Reaches
    <2>10. \A i \in 1..Len(S) : S[i].kind \in {"manifest", "signature"}
      BY <2>5, <2>6
    <2>11. None(S, "checkpoint") /\ None(S, "ack") /\ \A i \in 1..Len(S) : ~Closed(S[i]) /\ S[i].kind # "notice"
      BY <2>10 DEF None, Closed
    <2>12. Exchanging(e, FALSE, S)
      BY <2>8, <2>11 DEF Exchanging, Silent, Cp
    <2>13. Others(e) /\ Forward(e) /\ Barred(e)
      <3>1. stage'[e] \in Late /\ stage'[e] \in Past
        BY <2>8 DEF Late, Past
      <3> QED  BY <1>1, <1>2, <2>7, <2>8, <3>1 DEF Others, Forward, Barred
    <2>14. FinalSent(e, S) /\ FinalSeen(e)
      BY <1>1, <2>8, <2>11 DEF FinalSent, FinalSeen, Confirmed
    <2>15. Answered(e, FALSE)
      BY <1>4, <2>8, <2>9 DEF Answered
    <2>16. Orderly(e, FALSE, S)
      <3>1. CASE e = Controller
        <4>1. OrderlyC(S)
          BY <1>1, <1>2, <2>7, <2>8, <2>11, <3>1 DEF OrderlyC
        <4> QED  BY <3>1, <4>1 DEF Orderly
      <3>2. CASE e = Host
        <4>1. OrderlyH(FALSE, S)
          BY <1>2, <2>7, <2>8, <2>11, <3>2 DEF OrderlyH
        <4> QED  BY <3>2, <4>1, EndFacts DEF Orderly
      <3> QED  BY <3>1, <3>2, EndFacts
    <2>17. raised' \cap Spurious = {}
      BY <1>2, <2>7
    <2>18. Moves(e, FALSE, S)
      BY <2>9, <2>12, <2>13, <2>14, <2>15, <2>16, <2>17 DEF Moves
    <2> QED  BY <2>18, MxKept
  <1> QED  BY <1>3, <1>4

\* read_peer_manifest_pair.
LEMMA FinReadPairMx ==
    ASSUME TsInv, MxInv, ObsAdvance, NEW e \in Ends, FinReadPair(e), UNCHANGED termVars
    PROVE  MxInv'
  <1> HIDE DEF AllFrames
  <1>1. stage[e] = "manifest" /\ frames[e] # <<>> /\ stage[e] \in Closing /\ stage[e] \in {"final", "manifest"}
    BY DEF FinReadPair, Closing
  <1>2. PICK f : f = Head(frames[e])
    OBVIOUS
  <1>3. /\ obs[e] \in Observers
        /\ fin \in [Ends -> [sent : BOOLEAN, seen : BOOLEAN, own : Manifests, peer : Manifests]]
    BY <1>1, ClosingMx
  <1>4. CASE f.kind \in {"checkpoint", "ack"}
    <2>1. FinSettle(e, f) /\ UNCHANGED fin
      BY <1>2, <1>4 DEF FinReadPair
    <2> QED  BY <1>1, <1>2, <1>4, <2>1, SettleManifest
  <1>5. ASSUME NEW next, next \in {"manifest", "footer"}, FinContinues(e, obs[e], Taken(e), next),
               f.kind \notin {"checkpoint", "ack"}, UNCHANGED reason,
               UNCHANGED fin \/ \E m : fin' = [fin EXCEPT ![e].peer = m]
        PROVE  MxInv'
    <2>1. /\ \A d \in Ends : d # e => fin'[d] = fin[d]
          /\ fin'[e].sent = fin[e].sent /\ fin'[e].seen = fin[e].seen /\ fin'[e].own = fin[e].own
      BY <1>3, <1>5
    <2>2. Head(frames[e]).kind # "ack" /\ next \in {stage[e], "footer"}
      BY <1>1, <1>2, <1>5
    <2> QED  BY <1>1, <1>5, <2>1, <2>2, ReadLate
  <1>6. ASSUME NEW error, error \in {"RecordWriteFailed", "ManifestMismatch", "UnexpectedFrame"},
               FinFails(e, error, obs[e], Taken(e))
        PROVE  MxInv'
    <2>1. error \notin Spurious
      BY <1>6 DEF Spurious
    <2> QED  BY <1>1, <1>3, <1>6, <2>1, FinFailsMx
  <1>7. CASE f.kind = "manifest"
    <2>1. /\ FinContinues(e, obs[e], Taken(e), "manifest") /\ UNCHANGED reason
          /\ fin' = [fin EXCEPT ![e].peer = f.body]
      BY <1>2, <1>7 DEF FinReadPair
    <2> QED  BY <1>5, <1>7, <2>1
  <1>8. CASE f.kind = "signature"
    <2>1. \/ FinContinues(e, obs[e], Taken(e), "footer") /\ UNCHANGED <<reason, fin>>
          \/ FinFails(e, "RecordWriteFailed", obs[e], Taken(e))
          \/ FinFails(e, "ManifestMismatch", obs[e], Taken(e))
      BY <1>2, <1>8 DEF FinReadPair
    <2> QED  BY <1>5, <1>6, <1>8, <2>1
  <1>9. CASE f.kind \in {"notice", "error"}
    <2>1. \/ FinContinues(e, obs[e], Taken(e), "manifest") /\ UNCHANGED <<reason, fin>>
          \/ FinFails(e, "UnexpectedFrame", obs[e], Taken(e))
      BY <1>2, <1>9 DEF FinReadPair
    <2> QED  BY <1>5, <1>6, <1>9, <2>1
  <1> QED  BY <1>2, <1>4, <1>7, <1>8, <1>9 DEF FinReadPair

\* The footer and the ledger commit.
LEMMA FinFooterMx ==
    ASSUME TsInv, MxInv, ObsAdvance, NEW e \in Ends, FinFooter(e), UNCHANGED termVars
    PROVE  MxInv'
  <1> HIDE DEF AllFrames
  <1>1. stage[e] = "footer" /\ stage[e] \in Closing
    BY DEF FinFooter, Closing
  <1>2. /\ TsTypes /\ stage[e] # "done" /\ proc[e] = NoFrame /\ obs[e] \in Observers
        /\ obs \in [Ends -> Observers] /\ frames \in [Ends -> Seq(AllFrames)] /\ raised \cap Spurious = {}
    BY <1>1, ClosingMx
  <1>3. CASE obs[e].writer # "ok"
    <2>1. FinFails(e, "RecordWriteFailed", obs[e], frames) /\ "RecordWriteFailed" \notin Spurious
      BY <1>3 DEF FinFooter, Spurious
    <2> QED  BY <1>1, <1>2, <2>1, FinFailsMx
  <1>a. PICK o : o = Sealed(obs[e])
    OBVIOUS
  <1>b. Cp(o) = Cp(obs[e])
    BY <1>2, <1>a, CpKept
  <1>5. CASE obs[e].writer = "ok" /\ ~(connected \/ ~Bound(e))
    <2>1. FinFails(e, "Endpoint", o, frames) /\ "Endpoint" \notin Spurious
      BY <1>5, <1>a DEF FinFooter, Spurious
    <2>2. o \in Observers
      <3>1. PICK x : x = obs[e]
        OBVIOUS
      <3>2. PICK n : n = FinishLedgerCommit(x.s)
        OBVIOUS
      <3>3. x \in Observers /\ x.s \in Sessions
        BY <1>2, <3>1 DEF Observers
      <3>4. n \in Sessions
        <4> HIDE DEF Directions, Histories, Checkpoints
        <4> QED  BY <3>2, <3>3 DEF FinishLedgerCommit, Sessions, Phases
      <3>5. o = [x EXCEPT !.s = n, !.writer = "finished"]
        BY <1>a, <3>1, <3>2 DEF Sealed
      <3> HIDE DEF Sessions
      <3> QED  BY <3>3, <3>4, <3>5 DEF Observers
    <2> QED  BY <1>1, <1>b, <2>1, <2>2, FinFailsMx
  <1>4. CASE obs[e].writer = "ok" /\ (connected \/ ~Bound(e))
    <2>2. Cp(o) = Cp(obs[e])
      BY <1>b
    <2>3. /\ obs' = [obs EXCEPT ![e] = o] /\ stage' = [stage EXCEPT ![e] = "done"]
          /\ UNCHANGED <<frames, fin, proc, connected, reason, raised>>
      BY <1>2, <1>4, <1>a DEF FinFooter, FinContinues, termVars
    <2>4. <<>> \in Seq(AllFrames) /\ Failure(<<>>) /\ frames' = Posted(frames, e, <<>>)
      BY <1>2, <2>3, FailureFacts, PostedTo
    <2>5. PICK q \in Seq(AllFrames) : q = <<>>
      BY <2>4
    <2>6. Failure(q) /\ frames' = Posted(frames, e, q) /\ raised' \cap Spurious = {}
      BY <1>2, <2>3, <2>4, <2>5
    <2>7. UNCHANGED <<fin, proc, connected, reason>>
      BY <2>3
    <2> QED  BY <1>2, <2>2, <2>3, <2>6, <2>7, DoneMx
  <1> QED  BY <1>3, <1>4, <1>5

\* Every step of finalize.
LEMMA FinalizeMx ==
    ASSUME TsInv, MxInv, ObsAdvance, NEW e \in Ends, Finalize(e), UNCHANGED termVars
    PROVE  MxInv'
  <1>1. ASSUME FinTimeout(e) \/ FinEndpointLost(e)
        PROVE  MxInv'
    <2>1. stage[e] \in Closing
      BY <1>1 DEF FinTimeout, FinEndpointLost, Awaits, Closing
    <2>2. PICK error \in {"FailedClosed", "Endpoint"} : FinFails(e, error, obs[e], frames)
      BY <1>1 DEF FinTimeout, FinEndpointLost
    <2>3. error \notin Spurious /\ obs[e] \in Observers
      BY <2>1, ClosingMx DEF Spurious
    <2> QED  BY <2>1, <2>2, <2>3, FinFailsMx
  <1> QED  BY <1>1, FinSendNoticeMx, FinReceiveNoticeMx, FinBarrierMx, FinSendFinalMx, FinReadFrameMx,
              FinManifestMx, FinReadPairMx, FinFooterMx DEF Finalize

-----------------------------------------------------------------------------
(* No mismatch between honest ends *)

\* A fault that has struck stays on record.
LEMMA FaultsStay ==
    ASSUME TsInv, Next
    PROVE  did.faults \subseteq did'.faults
  <1> DEFINE OnRecord == did.faults \subseteq did'.faults
  <1>1. did \in Deeds
    BY DEF TsInv, TsTypes
  <1>2. UNCHANGED did => OnRecord
    OBVIOUS
  <1>3. \A f : Fault(f) => OnRecord
    BY <1>1 DEF Fault, Deeds
  <1>4. \A x : /\ did' = [did EXCEPT !.typed = x] => OnRecord
               /\ did' = [did EXCEPT !.sentInput = x] => OnRecord
               /\ did' = [did EXCEPT !.pty = x] => OnRecord
               /\ did' = [did EXCEPT !.produced = x] => OnRecord
               /\ did' = [did EXCEPT !.sentOutput = x] => OnRecord
               /\ did' = [did EXCEPT !.shown = x] => OnRecord
               /\ did' = [did EXCEPT !.resizes = x] => OnRecord
               /\ did' = [did EXCEPT !.sentResizes = x] => OnRecord
               /\ did' = [did EXCEPT !.sentExit = x] => OnRecord
    BY <1>1 DEF Deeds
  <1> SUFFICES OnRecord
    OBVIOUS
  <1> HIDE DEF OnRecord
  <1>5. CASE Starting
    BY <1>2, <1>4, <1>5 DEF Starting, CReadInput, CDetectResize, HPtyOutput, HPtyExit, CReadOutput,
          CReadExit, HReadInput, HReadResize
  <1>6. CASE Recording
    BY <1>2, <1>6 DEF Recording, CRecordInput, CRecordResize, CRecordOutput, CRecordExit,
          HRecordInput, HRecordResize, HRecordOutput, HRecordExit, HRecordComplete, OwnerRecords
  <1>7. CASE Doing
    <2>1. CASE CSendInput \/ CSendResize \/ HSendOutput
      BY <1>2, <1>4, <2>1 DEF CSendInput, CSendResize, HSendOutput, OwnerSends
    <2>2. CASE CDisplay \/ HWritePty \/ HSendExit
      BY <1>2, <1>4, <2>2 DEF CDisplay, HWritePty, HSendExit
    <2>3. CASE HApplyResize \/ HAwaitComplete \/ HCloseControl \/ HControlEof \/ HAwaitTimeout
      BY <1>2, <2>3 DEF HApplyResize, HAwaitComplete, HCloseControl, HControlEof, HExited, HAwaitTimeout
    <2> QED  BY <1>7, <2>1, <2>2, <2>3 DEF Doing
  <1>8. CASE Breaking
    BY <1>2, <1>3, <1>8 DEF Breaking, CReadOutputEof, CDrain, Stall, CComplete, CCancel, CLost,
          CCompletionTimeout, CDeadline, HLost, HSignal, HDeadline
  <1>9. CASE Delivering
    BY <1>2, <1>3, <1>9 DEF Delivering, PeerLeaves, LinkFails, ForeignCheckpoint, WriterFails, AuditRead
  <1>10. CASE Auditing
    BY <1>2, <1>10 DEF Auditing, CFailClosed, AuditSend, AuditEof, AuditProcess
  <1>11. CASE Ending
    BY <1>2, <1>3, <1>11 DEF Ending, CClosed, CRecordComplete, CSendComplete, CHostClosed,
          CCompleteCancelled, CCompleteFails, HClosed, termVars
  <1>12. CASE \E e \in Ends : Finalize(e) /\ UNCHANGED termVars
    BY <1>2, <1>12 DEF termVars
  <1> QED  BY <1>5, <1>6, <1>7, <1>8, <1>9, <1>10, <1>11, <1>12, NextGroups

\* Every step of the two programs keeps the exchange, unless a foreign peer
\* skips a sequence.
LEMMA NextMx ==
    ASSUME TsInv, MismatchInv, Next
    PROVE  MismatchInv'
  <1>1. ObsAdvance
    BY NextKeeps DEF Single
  <1>2. did.faults \subseteq did'.faults
    BY FaultsStay
  <1>3. CASE "foreign" \in did.faults
    BY <1>2, <1>3 DEF MismatchInv
  <1>4. CASE MxInv
    <2>1. CASE ForeignCheckpoint
      <3>1. did \in Deeds
        BY DEF TsInv, TsTypes
      <3>2. "foreign" \in did'.faults
        BY <2>1, <3>1 DEF ForeignCheckpoint, Fault, Deeds
      <3> QED  BY <3>2 DEF MismatchInv
    <2>2. CASE Delivering /\ ~ForeignCheckpoint
      BY <1>1, <1>4, <2>2, DeliveringMx DEF MismatchInv
    <2>3. CASE \E e \in Ends : Finalize(e) /\ UNCHANGED termVars
      BY <1>1, <1>4, <2>3, FinalizeMx DEF MismatchInv
    <2>4. CASE Starting
      BY <1>4, <2>4, StartingMx DEF MismatchInv
    <2>5. CASE Recording
      BY <1>1, <1>4, <2>5, RecordingMx DEF MismatchInv
    <2>6. CASE Doing
      BY <1>4, <2>6, DoingMx DEF MismatchInv
    <2>7. CASE Breaking
      BY <1>4, <2>7, BreakingMx DEF MismatchInv
    <2>8. CASE Auditing
      BY <1>1, <1>4, <2>8, AuditingMx DEF MismatchInv
    <2>9. CASE Ending
      BY <1>1, <1>4, <2>9, EndingMx DEF MismatchInv
    <2> QED  BY <2>1, <2>2, <2>3, <2>4, <2>5, <2>6, <2>7, <2>8, <2>9, NextGroups
  <1> QED  BY <1>3, <1>4 DEF MismatchInv

\* A stuttering step.
LEMMA StutterMx ==
    ASSUME TsInv, MismatchInv, UNCHANGED vars
    PROVE  MismatchInv'
  <1>1. UNCHANGED <<obs, frames, connected, proc, stage, reason, fin, raised, did>>
    BY DEF vars, finVars, termVars
  <1>2. ASSUME MxInv
        PROVE  MxInv'
    BY <1>1, <1>2, LossKeeps DEF TsInv
  <1> QED  BY <1>1, <1>2 DEF MismatchInv

\* The session starts with nothing exchanged.
LEMMA InitMx ==
    ASSUME Init
    PROVE  MxInv
  <1>1. /\ Controller \in Ends /\ Host \in Ends /\ Controller # Host
        /\ \A e \in Ends : Peer(e) \in Ends
    BY EndFacts
  <1>2. /\ \A e \in Ends : obs[e] = NewObserver /\ stage[e] = "active" /\ fin[e] = NotFinal
        /\ \A e \in Ends : frames[e] = <<>> /\ proc[e] = NoFrame /\ reason[e] = "none"
        /\ raised = {}
    BY DEF Init
  <1>3. ASSUME NEW e \in Ends
        PROVE  Incoming(e) = <<>> /\ Len(Incoming(e)) = 0
    BY <1>2 DEF Incoming
  <1>4. \A k : None(<<>>, k)
    BY DEF None
  <1>5. /\ NewObserver.awaiting = FALSE /\ NewObserver.s.next = 1 /\ NewObserver.s.control = <<>>
        /\ NewObserver.s.sent = NoCheckpoint /\ NewObserver.s.received = NoCheckpoint
        /\ NoCheckpoint.sequence = 0 /\ NewObserver.s.phase = "Active"
    BY DEF NewObserver, NewSession, NoCheckpoint
  <1>6. /\ NotFinal.sent = FALSE /\ NotFinal.seen = FALSE /\ NotFinal.own = NoManifest
    BY DEF NotFinal
  <1> HIDE DEF NewObserver, NotFinal, NoCheckpoint, NoManifest
  <1>7. ASSUME NEW e \in Ends
        PROVE  Exchange(e)
    BY <1>1, <1>2, <1>3, <1>4, <1>5 DEF Exchange, Agreed
  <1>8. ASSUME NEW e \in Ends
        PROVE  Finals(e)
    <2>1. ~Shut(<<>>)
      BY DEF Shut
    <2>2. /\ ~Shut(obs[e].s.control) /\ ~Behind(e) /\ ~fin[e].sent /\ ~fin[e].seen /\ ~fin[Peer(e)].sent
          /\ fin[e].own = NoManifest /\ None(Incoming(Peer(e)), "checkpoint")
      BY <1>1, <1>2, <1>3, <1>4, <1>5, <1>6, <2>1 DEF Behind
    <2> QED  BY <2>2 DEF Finals
  <1>9. ASSUME NEW e \in Ends
        PROVE  AckFirst(e)
    BY <1>1, <1>2, <1>6 DEF AckFirst
  <1>10. Roles /\ HostFollows /\ NoticeLeads
    <2>1. Roles
      BY <1>1, <1>2 DEF Roles
    <2>2. HostFollows
      BY <1>1, <1>2, <1>3 DEF HostFollows, Behind
    <2>3. NoticeLeads
      BY <1>1, <1>2, <1>3 DEF NoticeLeads
    <2> QED  BY <2>1, <2>2, <2>3
  <1> QED  BY <1>2, <1>7, <1>8, <1>9, <1>10 DEF MxInv, CloseOrder

\* No honest pair of endpoints raises a checkpoint mismatch against itself or
\* takes a manifest before the final checkpoint (observer.rs and
\* handle_frame of session.rs), however running checkpoints, acknowledgements,
\* the close notice and both finals cross on the substream, whichever fault but
\* the foreign peer strikes, and for every bound of the model.
THEOREM TerminalNoMismatch == Spec => []NoSpuriousMismatch
  <1>1. Init => MismatchInv
    BY InitMx DEF MismatchInv
  <1>2. TsInv /\ MismatchInv /\ [Next]_vars => MismatchInv'
    BY NextMx, StutterMx
  <1>3. MismatchInv => NoSpuriousMismatch
    BY DEF MismatchInv, MxInv, Spurious, NoSpuriousMismatch
  <1> QED  BY <1>1, <1>2, <1>3, TerminalInvariant, PTL DEF Spec
=============================================================================
