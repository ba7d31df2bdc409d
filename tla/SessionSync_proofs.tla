------------------------- MODULE SessionSync_proofs -------------------------
(***************************************************************************)
(* What SessionSync promises, for any number of sessions, tabs and events, *)
(* any channel capacity, any ring size and every bound: the truth of what  *)
(* a tab shows (Inv), whom the hub routes to (Routed), watermarks that     *)
(* never run backwards (Steady), and viewers that catch up (Followed).     *)
(***************************************************************************)
EXTENDS SessionSync, SequenceTheorems, FiniteSetTheorems, TLAPS

-----------------------------------------------------------------------------
(* Sequences *)

\* A function on an initial segment of the naturals is a sequence.
LEMMA FunIsSeq ==
    ASSUME NEW S, NEW n \in Nat, NEW f \in [1..n -> S]
    PROVE  f \in Seq(S) /\ Len(f) = n
BY SeqDef

\* The length of a concatenation, its entries, and those of a prefix.
LEMMA ConcatLength ==
    ASSUME NEW S, NEW p \in Seq(S), NEW q \in Seq(S)
    PROVE  Len(p \o q) = Len(p) + Len(q) /\ Len(p) \in Nat /\ Len(q) \in Nat
OBVIOUS

LEMMA ConcatEntries ==
    ASSUME NEW M, NEW q \in Seq(M), NEW r \in Seq(M)
    PROVE  Entries(q \o r) \subseteq Entries(q) \cup Entries(r)
<1> SUFFICES ASSUME NEW i \in 1..Len(q \o r)
             PROVE  (q \o r)[i] \in Entries(q) \cup Entries(r)
  BY DEF Entries
<1>1. Len(q \o r) = Len(q) + Len(r) /\ Len(q) \in Nat /\ Len(r) \in Nat
  OBVIOUS
<1>2. CASE i <= Len(q)
  BY <1>1, <1>2 DEF Entries
<1>3. CASE ~(i <= Len(q))
  <2>1. i - Len(q) \in 1..Len(r) /\ (q \o r)[i] = r[i - Len(q)]
    BY <1>1, <1>3
  <2> QED BY <2>1 DEF Entries
<1> QED BY <1>2, <1>3

LEMMA SubSeqEntries ==
    ASSUME NEW M, NEW q \in Seq(M), NEW a \in Nat \ {0}, NEW b \in 0..Len(q)
    PROVE  /\ SubSeq(q, a, b) \in Seq(M)
           /\ Entries(SubSeq(q, a, b)) \subseteq Entries(q)
<1>1. \A i \in a..b : q[i] \in M
  OBVIOUS
<1>2. /\ SubSeq(q, a, b) \in Seq(M)
      /\ Len(SubSeq(q, a, b)) = IF a <= b THEN b - a + 1 ELSE 0
      /\ \A i \in 1..b - a + 1 : SubSeq(q, a, b)[i] = q[a + i - 1]
  BY <1>1, SubSeqProperties
<1>3. ASSUME NEW i \in 1..Len(SubSeq(q, a, b))
      PROVE  SubSeq(q, a, b)[i] \in Entries(q)
  <2>1. i \in 1..b - a + 1 /\ a + i - 1 \in 1..Len(q)
    BY <1>2
  <2> QED BY <1>2, <2>1 DEF Entries
<1> QED BY <1>2, <1>3 DEF Entries

\* try_send keeps the channel a sequence of messages and adds only what was
\* offered to it (send_to_client).
LEMMA TrySend ==
    ASSUME NEW M, NEW q \in Seq(M), NEW r \in Seq(M)
    PROVE  /\ try_send(q, r) \in Seq(M)
           /\ Entries(try_send(q, r)) \subseteq Entries(q) \cup Entries(r)
<1> DEFINE all == q \o r
<1>1. all \in Seq(M) /\ Entries(all) \subseteq Entries(q) \cup Entries(r)
  BY ConcatEntries
<1>2. try_send(q, r) = IF Len(all) <= ChanCap THEN all ELSE SubSeq(all, 1, ChanCap)
  BY DEF try_send
<1> HIDE DEF all
<1>3. CASE Len(all) <= ChanCap
  BY <1>1, <1>2, <1>3
<1>4. CASE ~(Len(all) <= ChanCap)
  <2>1. ChanCap \in 0..Len(all)
    BY <1>1, <1>4, CapAssumption
  <2>2. /\ SubSeq(all, 1, ChanCap) \in Seq(M)
        /\ Entries(SubSeq(all, 1, ChanCap)) \subseteq Entries(all)
    BY <1>1, <2>1, SubSeqEntries
  <2> QED BY <1>1, <1>2, <1>4, <2>2
<1> QED BY <1>3, <1>4

\* Push keeps every channel a sequence of messages and adds only msg.
LEMMA PushFrames ==
    ASSUME NEW M, chan \in [Client -> Seq(M)], NEW to, NEW msg \in M
    PROVE  /\ Push(to, msg) \in [Client -> Seq(M)]
           /\ \A c \in Client : Entries(Push(to, msg)[c]) \subseteq Entries(chan[c]) \cup {msg}
<1> DEFINE one == <<msg>>
<1>1. one \in Seq(M) /\ Entries(one) = {msg}
  BY DEF Entries
<1> HIDE DEF one
<1>2. \A c \in Client : Push(to, msg)[c] = IF c \in to THEN try_send(chan[c], one) ELSE chan[c]
  BY DEF Push, one
<1>3. ASSUME NEW c \in Client
      PROVE  /\ Push(to, msg)[c] \in Seq(M)
             /\ Entries(Push(to, msg)[c]) \subseteq Entries(chan[c]) \cup {msg}
  BY <1>1, <1>2, TrySend
<1> QED BY <1>3 DEF Push

-----------------------------------------------------------------------------
(* Types of the helpers *)

LEMMA EventsOfFrames ==
    ASSUME NEW fs \in Seq(Frame)
    PROVE  /\ EventsOf(fs) \in Seq(Event)
           /\ Len(EventsOf(fs)) = Len(fs)
           /\ \A i \in 1..Len(fs) : EventsOf(fs)[i] = fs[i].ev
<1>1. EventsOf(fs) \in [1..Len(fs) -> Event]
  <2>1. \A i \in 1..Len(fs) : fs[i] \in Frame
    OBVIOUS
  <2>2. \A i \in 1..Len(fs) : fs[i].ev \in Event
    BY <2>1 DEF Frame
  <2> QED BY <2>2 DEF EventsOf
<1>2. Len(fs) \in Nat
  OBVIOUS
<1>3. EventsOf(fs) \in Seq(Event) /\ Len(EventsOf(fs)) = Len(fs)
  BY <1>1, <1>2, FunIsSeq
<1> QED BY <1>3 DEF EventsOf

LEMMA EventsOfCut ==
    ASSUME NEW fs \in Seq(Frame), NEW k \in 0..Len(fs)
    PROVE  EventsOf(SubSeq(fs, 1, k)) \o EventsOf(SubSeq(fs, k + 1, Len(fs))) = EventsOf(fs)
<1> DEFINE es == EventsOf(fs)
<1>1. es \in Seq(Event) /\ Len(es) = Len(fs) /\ \A i \in 1..Len(fs) : es[i] = fs[i].ev
  BY EventsOfFrames
<1>2. ASSUME NEW a \in 1..Len(fs) + 1, NEW b \in 0..Len(fs), a <= b + 1
      PROVE  EventsOf(SubSeq(fs, a, b)) = SubSeq(es, a, b)
  <2> DEFINE cut == SubSeq(fs, a, b)
             sub == SubSeq(es, a, b)
  <2>1. /\ cut \in Seq(Frame) /\ Len(cut) = b - a + 1
        /\ \A i \in 1..b - a + 1 : cut[i] = fs[a + i - 1]
    <3>1. \A i \in a..b : fs[i] \in Frame
      BY <1>2
    <3> QED BY <3>1, <1>2, SubSeqProperties
  <2>2. /\ sub \in Seq(Event) /\ Len(sub) = b - a + 1
        /\ \A i \in 1..b - a + 1 : sub[i] = es[a + i - 1]
    <3>1. \A i \in a..b : es[i] \in Event
      BY <1>1, <1>2
    <3> HIDE DEF es
    <3> QED BY <3>1, <1>2, SubSeqProperties
  <2> HIDE DEF cut, sub, es
  <2>3. /\ EventsOf(cut) \in Seq(Event) /\ Len(EventsOf(cut)) = b - a + 1
        /\ \A i \in 1..b - a + 1 : EventsOf(cut)[i] = cut[i].ev
    BY <2>1, EventsOfFrames
  <2>4. ASSUME NEW i \in 1..b - a + 1 PROVE EventsOf(cut)[i] = sub[i]
    <3>1. a + i - 1 \in 1..Len(fs)
      BY <1>2
    <3> QED BY <1>1, <2>1, <2>2, <2>3, <3>1
  <2>5. EventsOf(cut) = sub
    BY <2>2, <2>3, <2>4, SeqEqual
  <2> QED BY <2>5 DEF cut, sub
<1>3. EventsOf(SubSeq(fs, 1, k)) = SubSeq(es, 1, k)
  BY <1>2
<1>4. EventsOf(SubSeq(fs, k + 1, Len(fs))) = SubSeq(es, k + 1, Len(fs))
  BY <1>2
<1> HIDE DEF es
<1>5. SubSeq(es, 1, k) \o SubSeq(es, k + 1, Len(fs)) = SubSeq(es, 1, Len(fs))
  <2>1. 1 \in 1..Len(es) + 1 /\ k \in 1 - 1 .. Len(es) /\ Len(fs) \in k..Len(es)
    BY <1>1
  <2> QED BY <1>1, <2>1, ConcatAdjacentSubSeq
<1>6. SubSeq(es, 1, Len(fs)) = es
  BY <1>1, SubSeqFull
<1> QED BY <1>3, <1>4, <1>5, <1>6 DEF es

LEMMA EventsOfAppend ==
    ASSUME NEW fs \in Seq(Frame), NEW f \in Frame
    PROVE  EventsOf(Append(fs, f)) = Append(EventsOf(fs), f.ev)
<1> DEFINE lhs == EventsOf(Append(fs, f))
           rhs == Append(EventsOf(fs), f.ev)
<1>1. /\ Append(fs, f) \in Seq(Frame) /\ Len(Append(fs, f)) = Len(fs) + 1
      /\ \A i \in 1..Len(fs) : Append(fs, f)[i] = fs[i]
      /\ Append(fs, f)[Len(fs) + 1] = f
  OBVIOUS
<1>2. /\ EventsOf(fs) \in Seq(Event) /\ Len(EventsOf(fs)) = Len(fs)
      /\ \A i \in 1..Len(fs) : EventsOf(fs)[i] = fs[i].ev
  BY EventsOfFrames
<1>3. /\ lhs \in Seq(Event) /\ Len(lhs) = Len(fs) + 1
      /\ \A i \in 1..Len(fs) + 1 : lhs[i] = Append(fs, f)[i].ev
  BY <1>1, EventsOfFrames
<1>4. f.ev \in Event
  BY DEF Frame
<1>5. /\ rhs \in Seq(Event) /\ Len(rhs) = Len(fs) + 1
      /\ \A i \in 1..Len(fs) : rhs[i] = fs[i].ev
      /\ rhs[Len(fs) + 1] = f.ev
  BY <1>2, <1>4
<1> HIDE DEF lhs, rhs
<1>6. ASSUME NEW i \in 1..Len(fs) + 1 PROVE lhs[i] = rhs[i]
  BY <1>1, <1>3, <1>5
<1>7. lhs = rhs
  BY <1>3, <1>5, <1>6, SeqEqual
<1> QED BY <1>7 DEF lhs, rhs

LEMMA ConcatAppend ==
    ASSUME NEW S, NEW a \in Seq(S), NEW b \in Seq(S), NEW e \in S
    PROVE  a \o Append(b, e) = Append(a \o b, e)
OBVIOUS

LEMMA BuildSeedType ==
    ASSUME NEW j \in Journal
    PROVE  build_seed(j) \in Seq(Event)
BY EventsOfFrames DEF build_seed, Journal

LEMMA SeedMsgType ==
    ASSUME NEW js \in [Session -> Journal \cup {None}], NEW s \in Session \cup {None}
    PROVE  seed_msg(js, s) \in SeedMsg
<1>1. CASE s # None /\ js[s] # None
  <2>1. js[s] \in Journal
    BY <1>1
  <2>2. build_seed(js[s]) \in Seq(Event)
    BY <2>1, BuildSeedType
  <2>3. js[s].epoch \in Nat /\ js[s].seq \in Nat
    BY <2>1 DEF Journal
  <2> QED BY <1>1, <2>2, <2>3 DEF seed_msg, SeedMsg
<1>2. CASE ~(s # None /\ js[s] # None)
  BY <1>2 DEF seed_msg, SeedMsg
<1> QED BY <1>1, <1>2

LEMMA CreateJournalType ==
    ASSUME NEW e \in Nat, NEW seed \in Seeds
    PROVE  create_journal(e, seed) \in Journal
BY SeedsAssumption DEF create_journal, Journal

\* The ring after the new frame has joined it, cut at any point.
LEMMA RingCut ==
    ASSUME NEW j \in Journal, NEW ev \in Event, NEW k \in 0..Len(j.tail) + 1
    PROVE  LET ring == Append(j.tail, [seq |-> j.seq + 1, ev |-> ev])
           IN  /\ ring \in Seq(Frame)
               /\ Len(ring) = Len(j.tail) + 1
               /\ SubSeq(ring, 1, k) \in Seq(Frame)
               /\ Len(SubSeq(ring, 1, k)) = k
               /\ \A i \in 1..k : SubSeq(ring, 1, k)[i] = ring[i]
               /\ SubSeq(ring, k + 1, Len(ring)) \in Seq(Frame)
               /\ Len(SubSeq(ring, k + 1, Len(ring))) = Len(ring) - k
               /\ \A i \in 1..Len(ring) - k :
                     SubSeq(ring, k + 1, Len(ring))[i] = ring[k + i]
<1> DEFINE ring == Append(j.tail, [seq |-> j.seq + 1, ev |-> ev])
<1>1. j.tail \in Seq(Frame) /\ [seq |-> j.seq + 1, ev |-> ev] \in Frame
  BY DEF Journal, Frame
<1>2. ring \in Seq(Frame) /\ Len(ring) = Len(j.tail) + 1
  BY <1>1
<1> HIDE DEF ring
<1>3. k \in 0..Len(ring) /\ Len(ring) \in Nat
  BY <1>1, <1>2
<1>4. \A i \in 1..Len(ring) : ring[i] \in Frame
  BY <1>2
<1>5. /\ SubSeq(ring, 1, k) \in Seq(Frame)
      /\ Len(SubSeq(ring, 1, k)) = k
      /\ \A i \in 1..k : SubSeq(ring, 1, k)[i] = ring[i]
  BY <1>2, <1>3, <1>4
<1>6. /\ SubSeq(ring, k + 1, Len(ring)) \in Seq(Frame)
      /\ Len(SubSeq(ring, k + 1, Len(ring))) = Len(ring) - k
      /\ \A i \in 1..Len(ring) - k : SubSeq(ring, k + 1, Len(ring))[i] = ring[k + i]
  BY <1>2, <1>3, <1>4
<1> QED BY <1>2, <1>5, <1>6 DEF ring

\* append_event: one more stamp, and the journal still stands for everything it
\* stood for plus the new event, wherever the ring is cut.
LEMMA AppendEvent ==
    ASSUME NEW j \in Journal, NEW ev \in Event, NEW k \in 0..Len(j.tail) + 1
    PROVE  LET n == append_event(j, ev, k)
           IN  /\ n \in Journal
               /\ n.epoch = j.epoch
               /\ n.seq = j.seq + 1
               /\ build_seed(n) = Append(build_seed(j), ev)
               /\ Len(n.tail) = Len(j.tail) + 1 - k
               /\ \A i \in 1..Len(n.tail) :
                     n.tail[i] = Append(j.tail, [seq |-> j.seq + 1, ev |-> ev])[k + i]
<1> DEFINE ring == Append(j.tail, [seq |-> j.seq + 1, ev |-> ev])
           left == SubSeq(ring, 1, k)
           stay == SubSeq(ring, k + 1, Len(ring))
           n == append_event(j, ev, k)
<1>1. j.tail \in Seq(Frame) /\ j.compacted \in Seq(Event) /\ j.seq \in Nat /\ j.epoch \in Nat
  BY DEF Journal
<1>2. /\ ring \in Seq(Frame) /\ Len(ring) = Len(j.tail) + 1
      /\ left \in Seq(Frame) /\ Len(left) = k /\ \A i \in 1..k : left[i] = ring[i]
      /\ stay \in Seq(Frame) /\ Len(stay) = Len(ring) - k
      /\ \A i \in 1..Len(ring) - k : stay[i] = ring[k + i]
  BY RingCut
<1>3. /\ \A i \in 1..Len(j.tail) : ring[i] = j.tail[i]
      /\ ring[Len(j.tail) + 1].ev = ev
  BY <1>1
<1>4. /\ n.epoch = j.epoch /\ n.seq = j.seq + 1
      /\ n.compacted = j.compacted \o EventsOf(left) /\ n.tail = stay
      /\ n = [epoch |-> j.epoch, seq |-> j.seq + 1,
              compacted |-> j.compacted \o EventsOf(left), tail |-> stay]
  <2> HIDE DEF left, stay
  <2>1. n = [j EXCEPT !.seq = @ + 1, !.compacted = @ \o EventsOf(left), !.tail = stay]
    BY DEF append_event, left, stay
  <2> HIDE DEF n, ring
  <2> QED BY <2>1 DEF Journal
<1> HIDE DEF ring, left, stay, n
<1>5. /\ EventsOf(left) \in Seq(Event) /\ Len(EventsOf(left)) = k
      /\ \A i \in 1..k : EventsOf(left)[i] = left[i].ev
      /\ EventsOf(stay) \in Seq(Event) /\ Len(EventsOf(stay)) = Len(ring) - k
      /\ \A i \in 1..Len(ring) - k : EventsOf(stay)[i] = stay[i].ev
      /\ EventsOf(j.tail) \in Seq(Event) /\ Len(EventsOf(j.tail)) = Len(j.tail)
      /\ \A i \in 1..Len(j.tail) : EventsOf(j.tail)[i] = j.tail[i].ev
  BY <1>1, <1>2, EventsOfFrames
<1>6. n \in Journal
  BY <1>1, <1>2, <1>4, <1>5 DEF Journal
<1>7. build_seed(n) = Append(build_seed(j), ev)
  <2>0. k \in 0..Len(ring) /\ ring \in Seq(Frame)
    BY <1>1, <1>2
  <2>1. EventsOf(left) \o EventsOf(stay) = EventsOf(ring)
    BY <2>0, EventsOfCut DEF left, stay
  <2>2. EventsOf(ring) = Append(EventsOf(j.tail), ev)
    <3> DEFINE f == [seq |-> j.seq + 1, ev |-> ev]
    <3>1. f \in Frame /\ f.ev = ev
      BY <1>1 DEF Frame
    <3> HIDE DEF f
    <3>2. EventsOf(Append(j.tail, f)) = Append(EventsOf(j.tail), f.ev)
      BY <1>1, <3>1, EventsOfAppend
    <3> QED BY <3>1, <3>2 DEF ring, f
  <2> DEFINE cs == j.compacted
             el == EventsOf(left)
             st == EventsOf(stay)
             et == EventsOf(j.tail)
  <2>3. cs \in Seq(Event) /\ el \in Seq(Event) /\ st \in Seq(Event) /\ et \in Seq(Event)
    BY <1>1, <1>5
  <2>4. (cs \o el) \o st = cs \o (el \o st)
    <3> HIDE DEF cs, el, st
    <3> QED BY <2>3, ConcatAssociative, SMTT(30)
  <2>5. cs \o Append(et, ev) = Append(cs \o et, ev)
    <3> HIDE DEF cs, et
    <3> QED BY <2>3, ConcatAppend
  <2> QED BY <1>4, <2>1, <2>2, <2>4, <2>5 DEF build_seed
<1>8. Len(n.tail) = Len(j.tail) + 1 - k /\ \A i \in 1..Len(n.tail) : n.tail[i] = ring[k + i]
  BY <1>2, <1>4
<1> QED BY <1>4, <1>6, <1>7, <1>8 DEF ring, n

\* What a resume replays are frames of the ring, under the journal's epoch.
LEMMA ReplayFrames ==
    ASSUME NEW j \in Journal, NEW seq \in Nat
    PROVE  /\ Replay(j, seq) \in Seq(EventMsg)
           /\ \A m \in Entries(Replay(j, seq)) :
                 \E i \in 1..Len(j.tail) :
                    m = [type |-> "event", epoch |-> j.epoch,
                         seq |-> j.tail[i].seq, ev |-> j.tail[i].ev]
<1> DEFINE H == {i \in 1..Len(j.tail) : j.tail[i].seq <= seq}
           have == Cardinality(H)
           missed == SubSeq(j.tail, have + 1, Len(j.tail))
           msg(f) == [type |-> "event", epoch |-> j.epoch, seq |-> f.seq, ev |-> f.ev]
<1>1. j.tail \in Seq(Frame) /\ j.epoch \in Nat /\ Len(j.tail) \in Nat
  BY DEF Journal
<1>4. Replay(j, seq) = [i \in 1..Len(missed) |-> msg(missed[i])]
  BY Zenon DEF Replay
<1>2. have \in Nat
  <2>1. IsFiniteSet(1..Len(j.tail))
    BY <1>1, FS_Interval
  <2>2. IsFiniteSet(H)
    BY <2>1, FS_Subset
  <2> QED BY <2>2, FS_CardinalityType
<1> HIDE DEF have
<1>3. missed \in Seq(Frame) /\ Entries(missed) \subseteq Entries(j.tail)
  <2>1. have + 1 \in Nat \ {0} /\ Len(j.tail) \in 0..Len(j.tail)
    BY <1>1, <1>2
  <2> QED BY <1>1, <2>1, SubSeqEntries
<1> HIDE DEF missed
<1>5. ASSUME NEW i \in 1..Len(missed)
      PROVE  msg(missed[i]) \in EventMsg
  <2>1. missed[i] \in Frame
    BY <1>3
  <2>2. missed[i].seq \in Nat /\ missed[i].ev \in Event
    BY <2>1 DEF Frame
  <2> QED BY <1>1, <2>2 DEF EventMsg
<1>6. Len(missed) \in Nat
  BY <1>3
<1>7. Replay(j, seq) \in Seq(EventMsg) /\ Len(Replay(j, seq)) = Len(missed)
  <2>1. Replay(j, seq) \in [1..Len(missed) -> EventMsg]
    BY <1>4, <1>5
  <2> QED BY <2>1, <1>6, FunIsSeq
<1>8. ASSUME NEW m \in Entries(Replay(j, seq))
      PROVE  \E i \in 1..Len(j.tail) : m = msg(j.tail[i])
  <2>1. PICK k \in 1..Len(missed) : m = msg(missed[k])
    BY <1>4, <1>7 DEF Entries
  <2>2. missed[k] \in Entries(j.tail)
    BY <1>3 DEF Entries
  <2>3. PICK i \in 1..Len(j.tail) : missed[k] = j.tail[i]
    BY <2>2 DEF Entries
  <2> QED BY <2>1, <2>3
<1> QED BY <1>7, <1>8

-----------------------------------------------------------------------------
(* Type correctness *)

LEMMA MsgTypes ==
    /\ HelloMsg \subseteq ServerMsg /\ SeedMsg \subseteq ServerMsg
    /\ EventMsg \subseteq ServerMsg /\ ListMsg \subseteq ServerMsg
    /\ \A m \in ServerMsg : /\ m.type = "seed" => m \in SeedMsg
                            /\ m.type = "event" => m \in EventMsg
                            /\ m.type = "sessionList" => m \in ListMsg
BY DEF ServerMsg, HelloMsg, SeedMsg, EventMsg, ListMsg

LEMMA OpTypes ==
    /\ \A o \in Op : /\ o.kind = "switch" => o \in SwitchOp
                     /\ o.kind = "connectList" =>
                           o.client \in Client \cup {None} /\ o.active \in Session \cup {None}
    /\ SwitchOp \subseteq Op
    /\ [kind |-> "switchList"] \in Op
    /\ \A c \in Client, a \in Session \cup {None} :
          [kind |-> "connectList", client |-> c, active |-> a] \in Op
BY DEF Op, SwitchOp, ListOp

\* Pushing a server message keeps the channels well typed.
LEMMA PushType ==
    ASSUME chan \in [Client -> Seq(ServerMsg)], NEW to, NEW msg \in ServerMsg
    PROVE  Push(to, msg) \in [Client -> Seq(ServerMsg)]
BY PushFrames

\* Starting an epoch keeps the hub's state well typed.
LEMMA StartEpochType ==
    ASSUME TypeOK, NEW s \in Session, NEW seed \in Seeds, StartEpoch(s, seed)
    PROVE  /\ epochCounter' \in Nat
           /\ journals' \in [Session -> Journal \cup {None}]
           /\ hist' \in Seq(Epoch)
<1>1. epochCounter + 1 \in Nat
  BY DEF TypeOK
<1>2. create_journal(epochCounter + 1, seed) \in Journal
  BY <1>1, CreateJournalType
<1>3. [sid |-> s, base |-> Len(seed), events |-> seed] \in Epoch
  BY SeedsAssumption DEF Epoch
<1> QED BY <1>1, <1>2, <1>3 DEF TypeOK, StartEpoch

LEMMA TypeInit == Init => TypeOK
<1> SUFFICES ASSUME Init PROVE TypeOK
  OBVIOUS
<1>1. EmptyStore \in Store
  BY DEF EmptyStore, Store
<1>2. CASE DefaultFocus = None
  BY <1>1, <1>2 DEF Init, TypeOK
<1>3. CASE DefaultFocus # None
  <2>1. DefaultFocus \in Session
    BY <1>3, DefaultAssumption
  <2>2. PICK seed \in Seeds :
          /\ journals = [s \in Session |->
                IF s = DefaultFocus THEN create_journal(1, seed) ELSE None]
          /\ hist = <<[sid |-> DefaultFocus, base |-> Len(seed), events |-> seed]>>
    BY <1>3 DEF Init
  <2>3. create_journal(1, seed) \in Journal
    BY CreateJournalType
  <2>4. [sid |-> DefaultFocus, base |-> Len(seed), events |-> seed] \in Epoch
    BY <2>1, SeedsAssumption DEF Epoch
  <2>5. hist \in Seq(Epoch)
    BY <2>2, <2>4
  <2>6. journals \in [Session -> Journal \cup {None}]
    BY <2>2, <2>3
  <2> QED BY <1>1, <1>3, <2>5, <2>6 DEF Init, TypeOK
<1> QED BY <1>2, <1>3

\* Driver events keep the types.
LEMMA TypeDriver ==
    ASSUME TypeOK, NEW s \in Session,
           IngestNow(s) \/ SessionReset(s) \/ SessionClosed(s)
    PROVE  TypeOK'
<1>1. CASE IngestNow(s)
  <2>1. PICK ev \in Event, k \in Evictions(journals[s]) :
          LET j == append_event(journals[s], ev, k)
          IN  /\ journals' = [journals EXCEPT ![s] = j]
              /\ hist' = [hist EXCEPT ![j.epoch].events = Append(@, ev)]
              /\ chan' = Push(clients_focused(s), [type |-> "event",
                              epoch |-> j.epoch, seq |-> j.seq, ev |-> ev])
    BY <1>1 DEF IngestNow
  <2> DEFINE j == append_event(journals[s], ev, k)
             m == [type |-> "event", epoch |-> j.epoch, seq |-> j.seq, ev |-> ev]
  <2>2. journals[s] \in Journal /\ k \in 0..Len(journals[s].tail) + 1
    BY <1>1 DEF IngestNow, HasJournal, TypeOK, Evictions
  <2>3. j \in Journal
    BY <2>2, AppendEvent
  <2>4. journals' = [journals EXCEPT ![s] = j]
        /\ hist' = [hist EXCEPT ![j.epoch].events = Append(@, ev)]
        /\ chan' = Push(clients_focused(s), m)
    BY <2>1
  <2> HIDE DEF j
  <2>5. m \in ServerMsg
    BY <2>3, MsgTypes DEF EventMsg, Journal
  <2> HIDE DEF m
  <2>6. chan' \in [Client -> Seq(ServerMsg)]
    BY <2>4, <2>5, PushType DEF TypeOK
  <2>7. journals' \in [Session -> Journal \cup {None}]
    BY <2>3, <2>4 DEF TypeOK
  <2>8. hist' \in Seq(Epoch)
    <3>1. CASE j.epoch \in 1..Len(hist)
      <4>1. hist \in Seq(Epoch) /\ hist[j.epoch] \in Epoch
        BY <3>1 DEF TypeOK
      <4>2. [hist[j.epoch] EXCEPT !.events = Append(@, ev)] \in Epoch
        <5> DEFINE h == hist[j.epoch]
        <5>1. h \in Epoch /\ h.events \in Seq(Event)
          BY <4>1 DEF Epoch
        <5> HIDE DEF h
        <5>2. Append(h.events, ev) \in Seq(Event)
          BY <5>1
        <5>3. [h EXCEPT !.events = Append(h.events, ev)] \in Epoch
          BY <5>1, <5>2 DEF Epoch
        <5> QED BY <5>3 DEF h
      <4>3. hist' = [hist EXCEPT ![j.epoch] = [hist[j.epoch] EXCEPT !.events = Append(@, ev)]]
        BY <2>4
      <4> QED BY <3>1, <4>1, <4>2, <4>3, ExceptSeq
    <3>2. CASE j.epoch \notin 1..Len(hist)
      <4>1. hist \in Seq(Epoch) /\ DOMAIN hist = 1..Len(hist)
        BY DEF TypeOK
      <4>2. hist' = hist
        BY <2>4, <3>2, <4>1
      <4> QED BY <4>1, <4>2
    <3> QED BY <3>1, <3>2
  <2> QED BY <1>1, <2>6, <2>7, <2>8 DEF IngestNow, TypeOK, opVars, bounds
<1>2. CASE SessionReset(s)
  <2>1. PICK meta \in Seeds : StartEpoch(s, meta)
    BY <1>2 DEF SessionReset
  <2>2. /\ epochCounter' \in Nat
        /\ journals' \in [Session -> Journal \cup {None}]
        /\ hist' \in Seq(Epoch)
    BY <2>1, StartEpochType
  <2>3. seed_msg(journals', s) \in ServerMsg
    BY <2>2, SeedMsgType, MsgTypes
  <2>4. chan' \in [Client -> Seq(ServerMsg)]
    BY <1>2, <2>3, PushType DEF SessionReset, TypeOK
  <2> QED BY <1>2, <2>2, <2>4 DEF SessionReset, TypeOK, opVars, bounds
<1>3. CASE SessionClosed(s)
  BY <1>3 DEF SessionClosed, TypeOK, opVars, bounds, netVars
<1> QED BY <1>1, <1>2, <1>3

\* What a fresh connection is greeted with.
LEMMA GreetingType ==
    ASSUME TypeOK, NEW c \in Client
    PROVE  /\ Greeting(store[c]) \in Seq(ServerMsg)
           /\ GreetFocus(store[c]) \in Session \cup {None}
<1> DEFINE st == store[c]
<1>1. st \in Store
  BY DEF TypeOK
<1> HIDE DEF st
<1>2. st.sid \in Session \cup {None} /\ st.seq \in Nat
  BY <1>1 DEF Store
<1>3. journals \in [Session -> Journal \cup {None}]
  BY DEF TypeOK
<1>4. CASE Resumable(st)
  <2>1. st.sid \in Session /\ journals[st.sid] \in Journal
    BY <1>2, <1>3, <1>4 DEF Resumable, HasToken, HasJournal
  <2>2. Replay(journals[st.sid], st.seq) \in Seq(EventMsg)
    BY <1>2, <2>1, ReplayFrames
  <2>3. Replay(journals[st.sid], st.seq) \in Seq(ServerMsg)
    BY <2>2, MsgTypes, SeqMonotonic
  <2> QED BY <1>4, <2>1, <2>3 DEF Greeting, GreetFocus, st
<1>5. CASE ~Resumable(st)
  <2>1. seed_msg(journals, st.sid) \in ServerMsg
    BY <1>2, <1>3, SeedMsgType, MsgTypes
  <2>2. seed_msg(journals, DefaultFocus) \in ServerMsg
    BY <1>3, SeedMsgType, MsgTypes, DefaultAssumption
  <2>3. <<seed_msg(journals, st.sid)>> \in Seq(ServerMsg)
    BY <2>1
  <2>4. <<seed_msg(journals, DefaultFocus)>> \in Seq(ServerMsg)
    BY <2>2
  <2> QED BY <1>5, <2>3, <2>4, DefaultAssumption DEF Greeting, GreetFocus, st
<1> QED BY <1>4, <1>5

\* An orphaned operation is still an operation.
LEMMA OrphanType ==
    ASSUME NEW o \in Op, NEW gone
    PROVE  Orphan(o, gone) \in Op
BY DEF Orphan, Op, SwitchOp, ListOp

LEMMA TypeConnection ==
    ASSUME TypeOK, NEW c \in Client, Connect(c) \/ Disconnect(c)
    PROVE  TypeOK'
<1>1. CASE Connect(c)
  <2> DEFINE hello == <<[type |-> "hello"]>>
             greet == Greeting(store[c])
  <2>1. greet \in Seq(ServerMsg) /\ GreetFocus(store[c]) \in Session \cup {None}
    BY GreetingType
  <2>2. hello \in Seq(ServerMsg)
    <3>1. [type |-> "hello"] \in ServerMsg
      BY MsgTypes DEF HelloMsg
    <3> QED BY <3>1
  <2>3. chan' = [chan EXCEPT ![c] = try_send(hello, greet)]
    BY <1>1 DEF Connect
  <2> HIDE DEF hello, greet
  <2>4. try_send(hello, greet) \in Seq(ServerMsg)
    BY <2>1, <2>2, TrySend
  <2>5. chan' \in [Client -> Seq(ServerMsg)]
    BY <2>3, <2>4 DEF TypeOK
  <2>6. opq' \in Seq(Op)
    <3> DEFINE o == [kind |-> "connectList", client |-> c, active |-> GreetFocus(store[c])]
    <3>1. o \in Op
      BY <2>1, OpTypes
    <3>2. opq' = Append(opq, o)
      BY <1>1 DEF Connect, enqueue
    <3> HIDE DEF o
    <3> QED BY <3>1, <3>2 DEF TypeOK
  <2> QED BY <1>1, <2>1, <2>5, <2>6 DEF Connect, TypeOK, hubVars, bounds
<1>2. CASE Disconnect(c)
  <2>1. opq' \in Seq(Op)
    <3>1. opq \in Seq(Op) /\ Len(opq) \in Nat /\ \A i \in 1..Len(opq) : opq[i] \in Op
      BY DEF TypeOK
    <3>2. opq' = [i \in 1..Len(opq) |-> Orphan(opq[i], {c})]
      BY <1>2 DEF Disconnect
    <3>3. opq' \in [1..Len(opq) -> Op]
      BY <3>1, <3>2, OrphanType
    <3> QED BY <3>1, <3>3, FunIsSeq
  <2>2. cur' \in Switch \cup {None}
    <3>1. cur' = IF cur # None /\ cur.client = c THEN [cur EXCEPT !.client = None] ELSE cur
      BY <1>2 DEF Disconnect
    <3>2. cur \in Switch \cup {None}
      BY DEF TypeOK
    <3> QED BY <3>1, <3>2 DEF Switch
  <2>3. chan' \in [Client -> Seq(ServerMsg)] /\ up' \in [Client -> Seq(ClientMsg)]
    BY <1>2 DEF Disconnect, TypeOK
  <2>4. focus' \in [Client -> Session \cup {None}] /\ clients' \in SUBSET Client /\ drops' \in Nat
    BY <1>2 DEF Disconnect, TypeOK
  <2> QED BY <1>2, <2>1, <2>2, <2>3, <2>4 DEF Disconnect, TypeOK, hubVars
<1> QED BY <1>1, <1>2

LEMMA TypeRestart ==
    ASSUME TypeOK, Restart
    PROVE  TypeOK'
<1>1. /\ epochCounter' \in Nat
      /\ journals' \in [Session -> Journal \cup {None}]
      /\ hist' \in Seq(Epoch)
  <2>1. CASE DefaultFocus = None
    BY <2>1 DEF Restart, TypeOK
  <2>2. CASE DefaultFocus # None
    <3>1. DefaultFocus \in Session
      BY <2>2, DefaultAssumption
    <3>2. epochCounter' = epochCounter + 1 /\ epochCounter' \in Nat
      BY <2>2 DEF Restart, TypeOK
    <3>3. PICK seed \in Seeds :
            /\ journals' = [s \in Session |->
                  IF s = DefaultFocus THEN create_journal(epochCounter', seed) ELSE None]
            /\ hist' = Append(hist, [sid |-> DefaultFocus, base |-> Len(seed),
                                     events |-> seed])
      BY <2>2 DEF Restart
    <3>4. create_journal(epochCounter', seed) \in Journal
      BY <3>2, CreateJournalType
    <3>5. [sid |-> DefaultFocus, base |-> Len(seed), events |-> seed] \in Epoch
      BY <3>1, SeedsAssumption DEF Epoch
    <3>6. journals' \in [Session -> Journal \cup {None}]
      BY <3>3, <3>4
    <3>7. hist' \in Seq(Epoch)
      BY <3>3, <3>5 DEF TypeOK
    <3> QED BY <3>2, <3>6, <3>7
  <2> QED BY <2>1, <2>2
<1>2. /\ clients' \in SUBSET Client /\ focus' \in [Client -> Session \cup {None}]
      /\ chan' \in [Client -> Seq(ServerMsg)] /\ up' \in [Client -> Seq(ClientMsg)]
      /\ opq' \in Seq(Op) /\ cur' \in Switch \cup {None} /\ drops' \in Nat
  BY DEF Restart, TypeOK
<1> QED BY <1>1, <1>2 DEF Restart, TypeOK

\* Sending keeps the upstream queues well typed.
LEMMA SendType ==
    ASSUME TypeOK, NEW c \in Client, NEW m \in ClientMsg, send(c, m)
    PROVE  up' \in [Client -> Seq(ClientMsg)]
BY DEF send, TypeOK

\* The message a tab takes off its channel.
LEMMA ReceivesType ==
    ASSUME TypeOK, NEW c \in Client, NEW type, Receives(c, type)
    PROVE  /\ Head(chan[c]) \in ServerMsg
           /\ Head(chan[c]) \in Entries(chan[c])
           /\ chan' \in [Client -> Seq(ServerMsg)]
           /\ \A d \in Client : Entries(chan'[d]) \subseteq Entries(chan[d])
<1>1. chan[c] \in Seq(ServerMsg) /\ chan[c] # <<>>
  BY DEF TypeOK, Receives
<1>2. Head(chan[c]) \in ServerMsg /\ Tail(chan[c]) \in Seq(ServerMsg)
  BY <1>1
<1>3. Head(chan[c]) \in Entries(chan[c])
  BY <1>1 DEF Entries
<1>4. Entries(Tail(chan[c])) \subseteq Entries(chan[c])
  <2>1. \A i \in 1..Len(Tail(chan[c])) :
          i + 1 \in 1..Len(chan[c]) /\ Tail(chan[c])[i] = chan[c][i + 1]
    BY <1>1
  <2> QED BY <2>1 DEF Entries
<1>5. chan' = [chan EXCEPT ![c] = Tail(@)]
  BY DEF Receives
<1> QED BY <1>2, <1>3, <1>4, <1>5 DEF TypeOK

LEMMA TypeTab ==
    ASSUME TypeOK, NEW c \in Client, TabReceives(c)
    PROVE  TypeOK'
<1> DEFINE m == Head(chan[c])
<1>1. CASE OnHello(c)
  <2>1. chan' \in [Client -> Seq(ServerMsg)]
    BY <1>1, ReceivesType DEF OnHello
  <2>2. store' \in [Client -> Store]
    <3>1. Shown(store[c]) \in Session \cup {None}
      BY DEF Shown, TypeOK, Store
    <3> DEFINE st == store[c]
               r == [st EXCEPT !.booted = TRUE,
                               !.restore = IF st.booted THEN Shown(st) ELSE @]
    <3>2. st \in Store
      BY DEF TypeOK
    <3>3. store' = [store EXCEPT ![c] = r]
      BY <1>1 DEF OnHello
    <3> HIDE DEF st
    <3>4. r \in Store
      BY <3>1, <3>2 DEF Store, st
    <3> HIDE DEF r
    <3> QED BY <3>3, <3>4 DEF TypeOK
  <2> QED BY <1>1, <2>1, <2>2 DEF OnHello, Receives, TypeOK, hubVars, opVars, bounds
<1>2. CASE OnSeed(c)
  <2>1. chan' \in [Client -> Seq(ServerMsg)] /\ m \in SeedMsg
    BY <1>2, ReceivesType, MsgTypes DEF OnSeed, Receives
  <2>2. store' \in [Client -> Store]
    <3>1. /\ m.sid \in Session \cup {None} /\ m.epoch \in Nat /\ m.seq \in Nat
          /\ m.events \in Seq(Event)
      BY <2>1 DEF SeedMsg
    <3>2. store' = [store EXCEPT ![c].sid = m.sid, ![c].epoch = m.epoch, ![c].seq = m.seq,
                                 ![c].view = m.events, ![c].requested = FALSE]
      BY <1>2 DEF OnSeed
    <3> DEFINE st == store[c]
               r == [st EXCEPT !.sid = m.sid, !.epoch = m.epoch, !.seq = m.seq,
                               !.view = m.events, !.requested = FALSE]
    <3>3. st \in Store
      BY DEF TypeOK
    <3> HIDE DEF m
    <3>4. store' = [store EXCEPT ![c] = r]
      BY <3>2
    <3> HIDE DEF st
    <3>5. r \in Store
      BY <3>1, <3>3 DEF Store
    <3> HIDE DEF r
    <3> QED BY <3>4, <3>5 DEF TypeOK
  <2> QED BY <1>2, <2>1, <2>2 DEF OnSeed, Receives, TypeOK, hubVars, opVars, bounds
<1>3. CASE OnEvent(c)
  <2>1. chan' \in [Client -> Seq(ServerMsg)] /\ m \in EventMsg
    BY <1>3, ReceivesType, MsgTypes DEF OnEvent, Receives
  <2>2. m.seq \in Nat /\ m.ev \in Event
    BY <2>1 DEF EventMsg
  <2>3. store' \in [Client -> Store] /\ up' \in [Client -> Seq(ClientMsg)]
    <3>1. CASE UNCHANGED <<store, up>>
      BY <3>1 DEF TypeOK
    <3>2. CASE /\ store' = [store EXCEPT ![c].seq = m.seq, ![c].view = Append(@, m.ev),
                                         ![c].requested = FALSE]
               /\ UNCHANGED up
      <4> HIDE DEF m
      <4>1. store[c].view \in Seq(Event) /\ Append(store[c].view, m.ev) \in Seq(Event)
        BY <2>2 DEF TypeOK, Store
      <4> DEFINE st == store[c]
                 r == [st EXCEPT !.seq = m.seq, !.view = Append(@, m.ev), !.requested = FALSE]
      <4>2. st \in Store
        BY DEF TypeOK
      <4>3. store' = [store EXCEPT ![c] = r]
        BY <3>2
      <4>4. Append(st.view, m.ev) \in Seq(Event)
        BY <4>1
      <4> HIDE DEF st
      <4>5. r \in Store
        BY <2>2, <4>2, <4>4 DEF Store
      <4> HIDE DEF r
      <4>6. store' \in [Client -> Store]
        BY <4>3, <4>5 DEF TypeOK
      <4> QED BY <3>2, <4>6 DEF TypeOK
    <3>3. CASE /\ store' = [store EXCEPT ![c].requested = TRUE]
               /\ (UNCHANGED up) \/ send(c, [type |-> "requestSeed"])
      <4>1. store' \in [Client -> Store]
        <5>1. PICK r : r = [store[c] EXCEPT !.requested = TRUE]
          OBVIOUS
        <5>2. store[c] \in Store /\ store \in [Client -> Store]
          BY DEF TypeOK
        <5>3. r \in Store
          BY <5>1, <5>2 DEF Store
        <5>4. store' = [store EXCEPT ![c] = r]
          BY <3>3, <5>1
        <5> QED BY <5>2, <5>3, <5>4
      <4>2. [type |-> "requestSeed"] \in ClientMsg
        BY DEF ClientMsg
      <4>3. up' \in [Client -> Seq(ClientMsg)]
        BY <3>3, <4>2, SendType DEF TypeOK
      <4> QED BY <4>1, <4>3
    <3> QED BY <1>3, <3>1, <3>2, <3>3 DEF OnEvent
  <2> QED BY <1>3, <2>1, <2>3 DEF OnEvent, Receives, TypeOK, hubVars, opVars, bounds
<1>4. CASE OnSessionList(c)
  <2>1. chan' \in [Client -> Seq(ServerMsg)] /\ m \in ListMsg
    BY <1>4, ReceivesType, MsgTypes DEF OnSessionList, Receives
  <2>2. m.active \in Session \cup {None}
    BY <2>1 DEF ListMsg
  <2>3. store' \in [Client -> Store]
    <3>1. store' = [store EXCEPT ![c].active = m.active, ![c].restore = None]
      BY <1>4 DEF OnSessionList
    <3> DEFINE st == store[c]
               r == [st EXCEPT !.active = m.active, !.restore = None]
    <3>2. st \in Store
      BY DEF TypeOK
    <3> HIDE DEF m
    <3>3. store' = [store EXCEPT ![c] = r]
      BY <3>1
    <3> HIDE DEF st
    <3>4. r \in Store
      BY <2>2, <3>2 DEF Store
    <3> HIDE DEF r
    <3> QED BY <3>3, <3>4 DEF TypeOK
  <2>4. up' \in [Client -> Seq(ClientMsg)]
    <3>1. CASE UNCHANGED up
      BY <3>1 DEF TypeOK
    <3>2. CASE /\ store[c].restore # None
               /\ send(c, [type |-> "openSession", sid |-> store[c].restore])
      <4>1. store[c].restore \in Session
        BY <3>2 DEF TypeOK, Store
      <4>2. [type |-> "openSession", sid |-> store[c].restore] \in ClientMsg
        BY <4>1 DEF ClientMsg
      <4> QED BY <3>2, <4>2, SendType
    <3> QED BY <1>4, <3>1, <3>2 DEF OnSessionList
  <2> QED BY <1>4, <2>1, <2>3, <2>4 DEF OnSessionList, Receives, TypeOK, hubVars, opVars, bounds
<1> QED BY <1>1, <1>2, <1>3, <1>4 DEF TabReceives

LEMMA TypeUser ==
    ASSUME TypeOK, NEW c \in Client, NEW s \in Session, UserOpen(c, s) \/ UserReload(c, s)
    PROVE  TypeOK'
<1>1. /\ [type |-> "openSession", sid |-> s] \in ClientMsg
      /\ [type |-> "reloadSession", sid |-> s] \in ClientMsg
  BY DEF ClientMsg
<1>2. up' \in [Client -> Seq(ClientMsg)]
  BY <1>1, SendType DEF UserOpen, UserReload
<1>3. CASE UserOpen(c, s)
  BY <1>2, <1>3 DEF UserOpen, TypeOK, hubVars, opVars
<1>4. CASE UserReload(c, s)
  BY <1>2, <1>4 DEF UserReload, TypeOK, hubVars, opVars
<1> QED BY <1>3, <1>4

LEMMA TypeHub ==
    ASSUME TypeOK, NEW c \in Client, HubHandles(c)
    PROVE  TypeOK'
<1>1. up[c] \in Seq(ClientMsg) /\ up[c] # <<>> /\ up' = [up EXCEPT ![c] = Tail(@)]
  BY DEF HubHandles, HandleRequestSeed, HandleSwitch, Handles, TypeOK
<1>2. Head(up[c]) \in ClientMsg /\ up' \in [Client -> Seq(ClientMsg)]
  BY <1>1 DEF TypeOK
<1>3. CASE HandleRequestSeed(c)
  <2>1. seed_msg(journals, focus[c]) \in ServerMsg
    BY SeedMsgType, MsgTypes DEF TypeOK
  <2>2. chan' \in [Client -> Seq(ServerMsg)]
    BY <1>3, <2>1, PushType DEF HandleRequestSeed, TypeOK
  <2> QED BY <1>2, <1>3, <2>2 DEF HandleRequestSeed, Handles, TypeOK, hubVars, bounds
<1>4. CASE HandleSwitch(c)
  <2> DEFINE m == Head(up[c])
             o == [kind |-> "switch", client |-> c, sid |-> m.sid,
                   reseed |-> m.type = "reloadSession"]
  <2>1. m.sid \in Session
    BY <1>2, <1>4 DEF HandleSwitch, Handles, ClientMsg
  <2>2. o \in Op
    BY <2>1, OpTypes DEF SwitchOp
  <2>3. opq' = Append(opq, o)
    BY <1>4 DEF HandleSwitch, enqueue
  <2> HIDE DEF o
  <2>4. opq' \in Seq(Op)
    BY <2>2, <2>3 DEF TypeOK
  <2> QED BY <1>2, <1>4, <2>4 DEF HandleSwitch, Handles, TypeOK, hubVars, bounds
<1> QED BY <1>3, <1>4 DEF HubHandles

\* The switch in progress, by phase.
LEMMA SwitchTypes ==
    ASSUME cur \in Switch \cup {None}, cur # None
    PROVE  /\ cur.client \in Client \cup {None}
           /\ cur.phase \in {"fetching", "switched"} =>
                 /\ cur.sid \in Session /\ cur.reseed \in BOOLEAN
                 /\ cur = [phase |-> cur.phase, client |-> cur.client,
                           sid |-> cur.sid, reseed |-> cur.reseed]
           /\ cur.phase = "reseeding" => cur.msg \in SeedMsg
BY DEF Switch

LEMMA TypeApplier ==
    ASSUME TypeOK, Applier
    PROVE  TypeOK'
<1> USE DEF hubVars, netVars, opVars, bounds
<1>1. CASE StartSwitch
  <2> DEFINE o == Head(opq)
  <2>1. o \in Op /\ Tail(opq) \in Seq(Op)
    BY <1>1 DEF StartSwitch, TypeOK
  <2>2. o \in SwitchOp
    BY <1>1, <2>1, OpTypes DEF StartSwitch
  <2> HIDE DEF o
  <2>3. [phase |-> "fetching", client |-> o.client, sid |-> o.sid, reseed |-> o.reseed] \in Switch
    BY <2>2 DEF SwitchOp, Switch
  <2>4. cur' \in Switch /\ opq' \in Seq(Op)
    BY <1>1, <2>1, <2>3 DEF StartSwitch, o
  <2> QED BY <1>1, <2>4 DEF StartSwitch, TypeOK
<1>2. CASE FailSwitch
  BY <1>2 DEF FailSwitch, TypeOK
<1>3. CASE FinishSwitch
  <2>1. cur \in Switch \cup {None} /\ cur # None /\ cur.phase = "fetching"
    BY <1>3 DEF FinishSwitch, TypeOK
  <2>2. /\ cur.client \in Client \cup {None} /\ cur.sid \in Session /\ cur.reseed \in BOOLEAN
        /\ cur = [phase |-> cur.phase, client |-> cur.client, sid |-> cur.sid,
                  reseed |-> cur.reseed]
    BY <2>1, SwitchTypes
  <2>3. /\ epochCounter' \in Nat
        /\ journals' \in [Session -> Journal \cup {None}]
        /\ hist' \in Seq(Epoch)
    <3>1. CASE \E seed \in Seeds : StartEpoch(cur.sid, seed)
      BY <2>2, <3>1, StartEpochType
    <3>2. CASE UNCHANGED hubVars
      BY <3>2 DEF TypeOK
    <3> QED BY <1>3, <3>1, <3>2 DEF FinishSwitch
  <2>4. seed_msg(journals', cur.sid) \in ServerMsg
    BY <2>2, <2>3, SeedMsgType, MsgTypes
  <2>5. focus' \in [Client -> Session \cup {None}] /\ chan' \in [Client -> Seq(ServerMsg)]
    <3>1. CASE cur.client = None
      BY <1>3, <3>1 DEF FinishSwitch, TypeOK
    <3>2. CASE cur.client # None
      <4>1. /\ focus' = [focus EXCEPT ![cur.client] = cur.sid]
            /\ chan' = Push({cur.client}, seed_msg(journals', cur.sid))
        BY <1>3, <3>2 DEF FinishSwitch
      <4>2. chan' \in [Client -> Seq(ServerMsg)]
        BY <2>4, <4>1, PushType DEF TypeOK
      <4> QED BY <2>2, <4>1, <4>2 DEF TypeOK
    <3> QED BY <3>1, <3>2
  <2>6. cur' \in Switch \cup {None} /\ opq' \in Seq(Op)
    <3>1. CASE cur.reseed
      <4>1. cur' = [cur EXCEPT !.phase = "switched"] /\ opq' = opq
        BY <1>3, <3>1 DEF FinishSwitch
      <4>2. cur' = [phase |-> "switched", client |-> cur.client, sid |-> cur.sid,
                    reseed |-> cur.reseed]
        BY <2>2, <4>1
      <4>3. cur' \in Switch
        BY <2>2, <4>2 DEF Switch
      <4> QED BY <4>1, <4>3 DEF TypeOK
    <3>2. CASE ~cur.reseed
      <4>1. cur' = None /\ opq' = Append(opq, [kind |-> "switchList"])
        BY <1>3, <3>2 DEF FinishSwitch, enqueue
      <4> QED BY <4>1, OpTypes DEF TypeOK
    <3> QED BY <2>2, <3>1, <3>2
  <2> QED BY <1>3, <2>3, <2>5, <2>6 DEF FinishSwitch, TypeOK
<1>4. CASE BuildReseed
  <2>1. cur.client \in Client \cup {None} /\ cur.sid \in Session
    BY <1>4, SwitchTypes DEF BuildReseed, TypeOK
  <2>2. seed_msg(journals, cur.sid) \in SeedMsg
    BY <2>1, SeedMsgType DEF TypeOK
  <2>3. [phase |-> "reseeding", client |-> cur.client, msg |-> seed_msg(journals, cur.sid)]
          \in Switch
    BY <2>1, <2>2 DEF Switch
  <2> QED BY <1>4, <2>3 DEF BuildReseed, TypeOK
<1>5. CASE SendReseed
  <2>1. cur.msg \in ServerMsg
    BY <1>5, SwitchTypes, MsgTypes DEF SendReseed, TypeOK
  <2>2. chan' \in [Client -> Seq(ServerMsg)]
    BY <1>5, <2>1, PushType DEF SendReseed, TypeOK
  <2>3. opq' \in Seq(Op)
    BY <1>5, OpTypes DEF SendReseed, enqueue, TypeOK
  <2> QED BY <1>5, <2>2, <2>3 DEF SendReseed, TypeOK
<1>6. CASE RunConnectList
  <2> DEFINE o == Head(opq)
  <2>1. o \in Op /\ Tail(opq) \in Seq(Op)
    BY <1>6 DEF RunConnectList, TypeOK
  <2>2. o.client \in Client \cup {None} /\ o.active \in Session \cup {None}
    BY <1>6, <2>1, OpTypes DEF RunConnectList
  <2>3. list_msg(o.active) \in ServerMsg
    BY <2>2, MsgTypes DEF list_msg, ListMsg
  <2>4. Push({o.client}, list_msg(o.active)) \in [Client -> Seq(ServerMsg)]
    BY <2>3, PushType DEF TypeOK
  <2>5. chan' \in [Client -> Seq(ServerMsg)]
    BY <1>6, <2>4 DEF RunConnectList, TypeOK
  <2>6. opq' \in Seq(Op)
    BY <1>6, <2>1 DEF RunConnectList
  <2> QED BY <1>6, <2>5, <2>6 DEF RunConnectList, TypeOK
<1>7. CASE RunSwitchList
  <2>1. ASSUME NEW c \in Client
        PROVE  try_send(chan[c], <<list_msg(focus[c])>>) \in Seq(ServerMsg)
    <3> DEFINE one == <<list_msg(focus[c])>>
    <3>1. list_msg(focus[c]) \in ServerMsg
      BY MsgTypes DEF list_msg, ListMsg, TypeOK
    <3>2. one \in Seq(ServerMsg) /\ chan[c] \in Seq(ServerMsg)
      BY <3>1 DEF TypeOK
    <3> HIDE DEF one
    <3>3. try_send(chan[c], one) \in Seq(ServerMsg)
      BY <3>2, TrySend
    <3> QED BY <3>3 DEF one
  <2>2. chan' \in [Client -> Seq(ServerMsg)]
    BY <1>7, <2>1 DEF RunSwitchList, TypeOK
  <2>3. opq' \in Seq(Op)
    BY <1>7 DEF RunSwitchList, TypeOK
  <2> QED BY <1>7, <2>2, <2>3 DEF RunSwitchList, TypeOK
<1> QED BY <1>1, <1>2, <1>3, <1>4, <1>5, <1>6, <1>7 DEF Applier

LEMMA TypeStep == TypeOK /\ [Next]_vars => TypeOK'
<1> SUFFICES ASSUME TypeOK, [Next]_vars PROVE TypeOK'
  OBVIOUS
<1>1. CASE UNCHANGED vars
  BY <1>1 DEF vars, TypeOK, hubVars, netVars, opVars, bounds
<1>2. CASE Next
  BY <1>2, TypeDriver, TypeConnection, TypeRestart, TypeTab, TypeUser, TypeHub, TypeApplier
     DEF Next
<1> QED BY <1>1, <1>2

\* Every reachable state is well typed, for all values of the constants.
THEOREM TypeCorrect == Spec => []TypeOK
<1>1. Init => TypeOK
  BY TypeInit
<1>2. TypeOK /\ [Next]_vars => TypeOK'
  BY TypeStep
<1> QED BY <1>1, <1>2, PTL DEF Spec

-----------------------------------------------------------------------------
(* What a tab shows *)

\* Epochs are numbered in the order they were created, and each still begins
\* with its seed.
HistOK ==
    /\ Len(hist) = epochCounter
    /\ \A e \in 1..Len(hist) : hist[e].base <= Len(hist[e].events)

\* The inductive invariant.  ViewIsPrefix alone is not inductive: a tab folds
\* what its channel holds, and the channel what the journals produce.
Inv == TypeOK /\ HistOK /\ JournalsTruthful /\ InFlightTruthful /\ ViewIsPrefix

\* A history grows: epochs are only added, and each only at its end.
Grows(h, g) ==
    /\ Len(h) <= Len(g)
    /\ \A e \in 1..Len(h) :
          /\ g[e].sid = h[e].sid
          /\ g[e].base = h[e].base
          /\ Len(h[e].events) <= Len(g[e].events)
          /\ \A i \in 1..Len(h[e].events) : g[e].events[i] = h[e].events[i]

\* What was truthful stays truthful as the history grows.
LEMMA TruthfulGrows ==
    ASSUME NEW h \in Seq(Epoch), NEW g \in Seq(Epoch), Grows(h, g),
           NEW s, NEW e, NEW seq, NEW events \in Seq(Event), Truthful(h, s, e, seq, events)
    PROVE  Truthful(g, s, e, seq, events)
<1>1. CASE e = 0 /\ seq = 0 /\ events = <<>>
  BY <1>1 DEF Truthful
<1>2. CASE /\ e \in 1..Len(h) /\ h[e].sid = s /\ Len(events) = h[e].base + seq
           /\ Len(events) <= Len(h[e].events)
           /\ \A i \in 1..Len(events) : events[i] = h[e].events[i]
  <2>1. Len(h) \in Nat /\ Len(g) \in Nat /\ Len(events) \in Nat
    OBVIOUS
  <2>2. Len(h[e].events) \in Nat
    <3>1. h[e] \in Epoch
      BY <1>2
    <3> QED BY <3>1 DEF Epoch
  <2>3. e \in 1..Len(g) /\ g[e].sid = s /\ Len(events) = g[e].base + seq
    BY <1>2, <2>1 DEF Grows
  <2>4. Len(g[e].events) \in Nat
    <3>1. g[e] \in Epoch
      BY <2>3
    <3> QED BY <3>1 DEF Epoch
  <2>5. Len(events) <= Len(g[e].events)
    BY <1>2, <2>1, <2>2, <2>4 DEF Grows
  <2>6. \A i \in 1..Len(events) : events[i] = g[e].events[i]
    BY <1>2, <2>1, <2>2 DEF Grows
  <2> QED BY <2>3, <2>5, <2>6 DEF Truthful
<1> QED BY <1>1, <1>2 DEF Truthful

LEMMA MsgTruthfulGrows ==
    ASSUME NEW h \in Seq(Epoch), NEW g \in Seq(Epoch), Grows(h, g),
           NEW m \in ServerMsg, MsgTruthful(h, m)
    PROVE  MsgTruthful(g, m)
<1>1. CASE m.type = "seed"
  <2>1. m.events \in Seq(Event)
    BY <1>1, MsgTypes DEF SeedMsg
  <2>2. Truthful(g, m.sid, m.epoch, m.seq, m.events)
    BY <1>1, <2>1, TruthfulGrows DEF MsgTruthful
  <2> QED BY <1>1, <2>2 DEF MsgTruthful
<1>2. CASE m.type = "event"
  <2> DEFINE H == h[m.epoch]
             G == g[m.epoch]
  <2>1. /\ m.epoch \in 1..Len(h)
        /\ m.seq \in 1..Len(H.events) - H.base
        /\ m.ev = H.events[H.base + m.seq]
    BY <1>2 DEF MsgTruthful
  <2>2. m.epoch \in 1..Len(g)
    <3>1. Len(h) \in Nat /\ Len(g) \in Nat /\ Len(h) <= Len(g)
      BY DEF Grows
    <3> QED BY <2>1, <3>1
  <2>3. H \in Epoch /\ G \in Epoch
    BY <2>1, <2>2
  <2>4. /\ G.base = H.base /\ Len(H.events) <= Len(G.events)
        /\ \A i \in 1..Len(H.events) : G.events[i] = H.events[i]
    BY <2>1 DEF Grows
  <2> HIDE DEF H, G
  <2>5. H.base \in Nat /\ H.events \in Seq(Event) /\ G.events \in Seq(Event)
    BY <2>3 DEF Epoch
  <2>6. H.base + m.seq \in 1..Len(H.events) /\ m.seq \in 1..Len(G.events) - G.base
    <3> DEFINE x == Len(H.events)
               y == Len(G.events)
               z == H.base
               w == m.seq
    <3>1. x \in Nat /\ y \in Nat /\ z \in Nat /\ w \in 1..x - z /\ x <= y
      BY <2>1, <2>4, <2>5
    <3> HIDE DEF x, y, z, w
    <3>2. z + w \in 1..x /\ w \in 1..y - z
      BY <3>1
    <3> QED BY <2>4, <3>2 DEF x, y, z, w
  <2>7. m.ev = G.events[G.base + m.seq]
    BY <2>1, <2>4, <2>6
  <2> QED BY <1>2, <2>2, <2>6, <2>7 DEF MsgTruthful, G
<1>3. CASE m.type # "seed" /\ m.type # "event"
  BY <1>3 DEF MsgTruthful
<1> QED BY <1>1, <1>2, <1>3

\* A journal's seed is a truthful message.
LEMMA SeedTruthful ==
    ASSUME NEW h \in Seq(Epoch), NEW js \in [Session -> Journal \cup {None}],
           \A s \in Session : js[s] # None => JournalTruthful(h, s, js[s]),
           NEW s \in Session \cup {None}
    PROVE  MsgTruthful(h, seed_msg(js, s))
<1>1. CASE s # None /\ js[s] # None
  <2> DEFINE j == js[s]
  <2>1. j \in Journal /\ JournalTruthful(h, s, j)
    BY <1>1
  <2>2. seed_msg(js, s) = [type |-> "seed", sid |-> s, epoch |-> j.epoch, seq |-> j.seq,
                           events |-> build_seed(j)]
    BY <1>1 DEF seed_msg
  <2> HIDE DEF j
  <2>3. build_seed(j) \in Seq(Event)
    BY <2>1, BuildSeedType
  <2>4. Truthful(h, s, j.epoch, j.seq, build_seed(j))
    BY <2>1, <2>3 DEF Truthful, JournalTruthful
  <2> QED BY <2>2, <2>4 DEF MsgTruthful
<1>2. CASE ~(s # None /\ js[s] # None)
  BY <1>2 DEF seed_msg, MsgTruthful, Truthful
<1> QED BY <1>1, <1>2

\* So is every frame of its ring.
LEMMA FrameTruthful ==
    ASSUME NEW h \in Seq(Epoch), NEW s, NEW j \in Journal, JournalTruthful(h, s, j),
           NEW i \in 1..Len(j.tail)
    PROVE  MsgTruthful(h, [type |-> "event", epoch |-> j.epoch,
                           seq |-> j.tail[i].seq, ev |-> j.tail[i].ev])
<1> DEFINE H == h[j.epoch]
           q == j.tail[i].seq
           n == Len(j.compacted)
<1>1. j.tail \in Seq(Frame) /\ j.compacted \in Seq(Event) /\ j.seq \in Nat
  BY DEF Journal
<1>2. H \in Epoch
  BY DEF JournalTruthful
<1>3. H.base \in Nat /\ H.events \in Seq(Event)
  BY <1>2 DEF Epoch
<1>4. /\ H.events = j.compacted \o EventsOf(j.tail) /\ H.base + j.seq = Len(H.events)
      /\ Len(j.tail) <= j.seq /\ q = j.seq - Len(j.tail) + i
  BY DEF JournalTruthful, build_seed
<1>5. /\ EventsOf(j.tail) \in Seq(Event) /\ Len(EventsOf(j.tail)) = Len(j.tail)
      /\ EventsOf(j.tail)[i] = j.tail[i].ev
  BY <1>1, EventsOfFrames
<1> DEFINE es == EventsOf(j.tail)
           cs == j.compacted
           k == Len(j.tail)
           b == H.base
<1>6. Len(H.events) = n + k /\ n \in Nat /\ k \in Nat
  <2>1. cs \in Seq(Event) /\ es \in Seq(Event) /\ Len(es) = k
    BY <1>1, <1>5
  <2>2. Len(cs \o es) = Len(cs) + Len(es) /\ Len(cs) \in Nat /\ Len(es) \in Nat
    <3> HIDE DEF cs, es
    <3> QED BY <2>1, ConcatLength
  <2> QED BY <1>4, <2>1, <2>2
<1> HIDE DEF H, q
<1>7. q \in 1..Len(H.events) - H.base /\ H.base + q = n + i
  <2> DEFINE z == j.seq
  <2>1. /\ b + z = n + k /\ k <= z /\ q = z - k + i
        /\ b \in Nat /\ z \in Nat /\ n \in Nat /\ k \in Nat /\ i \in 1..k
    BY <1>1, <1>3, <1>4, <1>6
  <2> HIDE DEF n, k, b, z
  <2>2. q \in 1..(n + k) - b /\ b + q = n + i
    BY <2>1
  <2> QED BY <1>6, <2>2 DEF b, n, k
<1>8. H.events[n + i] = j.tail[i].ev
  <2>1. cs \in Seq(Event) /\ es \in Seq(Event) /\ Len(es) = k /\ es[i] = j.tail[i].ev
        /\ H.events = cs \o es /\ n = Len(cs) /\ i \in 1..k /\ k \in Nat
    BY <1>1, <1>4, <1>5, <1>6
  <2> HIDE DEF n, k, cs, es
  <2>2. (cs \o es)[n + i] = es[i]
    BY <2>1
  <2> QED BY <2>1, <2>2
<1> DEFINE m == [type |-> "event", epoch |-> j.epoch, seq |-> q, ev |-> j.tail[i].ev]
<1>9. m.type = "event" /\ m.epoch = j.epoch /\ m.seq = q /\ m.ev = H.events[H.base + q]
  BY <1>7, <1>8
<1>10. j.epoch \in 1..Len(h)
  BY DEF JournalTruthful
<1> HIDE DEF m
<1>11. MsgTruthful(h, m)
  BY <1>7, <1>9, <1>10 DEF MsgTruthful, H
<1> QED BY <1>11 DEF m, q

\* A journal's truth only depends on its own epoch.
LEMMA JournalKept ==
    ASSUME NEW h \in Seq(Epoch), NEW g \in Seq(Epoch), NEW s, NEW j,
           JournalTruthful(h, s, j), Len(h) <= Len(g), g[j.epoch] = h[j.epoch]
    PROVE  JournalTruthful(g, s, j)
<1>1. j.epoch \in 1..Len(g)
  <2>1. Len(h) \in Nat /\ Len(g) \in Nat /\ j.epoch \in 1..Len(h)
    BY DEF JournalTruthful
  <2> QED BY <2>1
<1> QED BY <1>1 DEF JournalTruthful

\* A journal started from a seed, under a new epoch at the end of the history.
LEMMA FreshJournal ==
    ASSUME NEW h \in Seq(Epoch), NEW s \in Session, NEW seed \in Seeds, NEW g,
           g = Append(h, [sid |-> s, base |-> Len(seed), events |-> seed])
    PROVE  /\ g \in Seq(Epoch)
           /\ Len(g) = Len(h) + 1
           /\ \A e \in 1..Len(h) : g[e] = h[e]
           /\ g[Len(h) + 1].base <= Len(g[Len(h) + 1].events)
           /\ Grows(h, g)
           /\ JournalTruthful(g, s, create_journal(Len(h) + 1, seed))
<1> DEFINE E == [sid |-> s, base |-> Len(seed), events |-> seed]
           j == create_journal(Len(h) + 1, seed)
<1>1. seed \in Seq(Event) /\ Len(seed) \in Nat /\ Len(h) \in Nat
  BY SeedsAssumption
<1>2. E \in Epoch /\ E.sid = s /\ E.base = Len(seed) /\ E.events = seed
  BY <1>1 DEF Epoch
<1> HIDE DEF E
<1>3. /\ g \in Seq(Epoch) /\ Len(g) = Len(h) + 1 /\ \A e \in 1..Len(h) : g[e] = h[e]
      /\ g[Len(h) + 1] = E
  BY <1>2 DEF E
<1>4. Grows(h, g)
  <2>1. \A e \in 1..Len(h) : h[e] \in Epoch
    OBVIOUS
  <2>2. \A e \in 1..Len(h) : Len(h[e].events) \in Nat
    BY <2>1 DEF Epoch
  <2> QED BY <1>1, <1>3, <2>2 DEF Grows
<1>5. /\ j.epoch = Len(h) + 1 /\ j.seq = 0 /\ j.compacted = seed /\ j.tail = <<>>
  BY DEF create_journal
<1>6. EventsOf(<<>>) = <<>>
  <2>1. <<>> \in Seq(Frame) /\ Len(<<>>) = 0
    OBVIOUS
  <2>2. EventsOf(<<>>) \in Seq(Event) /\ Len(EventsOf(<<>>)) = 0
    BY <2>1, EventsOfFrames
  <2> QED BY <2>2
<1>7. build_seed(j) = seed
  BY <1>1, <1>5, <1>6, ConcatEmptySeq DEF build_seed
<1> HIDE DEF j
<1>8. JournalTruthful(g, s, j)
  BY <1>1, <1>2, <1>3, <1>5, <1>7 DEF JournalTruthful
<1> QED BY <1>1, <1>2, <1>3, <1>4, <1>8 DEF j

LEMMA StartEpochTruth ==
    ASSUME Inv, NEW s \in Session, NEW seed \in Seeds, StartEpoch(s, seed)
    PROVE  Grows(hist, hist') /\ HistOK' /\ JournalsTruthful'
<1>1. hist \in Seq(Epoch) /\ Len(hist) = epochCounter
  BY DEF Inv, TypeOK, HistOK
<1>2. hist' = Append(hist, [sid |-> s, base |-> Len(seed), events |-> seed])
  BY DEF StartEpoch
<1>3. /\ hist' \in Seq(Epoch) /\ Len(hist') = Len(hist) + 1
      /\ \A e \in 1..Len(hist) : hist'[e] = hist[e]
      /\ hist'[Len(hist) + 1].base <= Len(hist'[Len(hist) + 1].events)
      /\ Grows(hist, hist')
      /\ JournalTruthful(hist', s, create_journal(Len(hist) + 1, seed))
  BY <1>1, <1>2, FreshJournal
<1>4. HistOK'
  <2>1. Len(hist') = epochCounter'
    BY <1>1, <1>3 DEF StartEpoch
  <2>2. \A e \in 1..Len(hist') : e \in 1..Len(hist) \/ e = Len(hist) + 1
    BY <1>1, <1>3
  <2>3. \A e \in 1..Len(hist') : hist'[e].base <= Len(hist'[e].events)
    BY <1>3, <2>2 DEF Inv, HistOK
  <2> QED BY <2>1, <2>3 DEF HistOK
<1>5. JournalsTruthful'
  <2> SUFFICES ASSUME NEW x \in Session, journals'[x] # None
               PROVE  JournalTruthful(hist', x, journals'[x])
    BY DEF JournalsTruthful, HasJournal
  <2>1. CASE x = s
    <3>1. journals'[s] = create_journal(Len(hist) + 1, seed)
      BY <1>1 DEF StartEpoch, Inv, TypeOK
    <3> QED BY <1>3, <2>1, <3>1
  <2>2. CASE x # s
    <3>1. journals'[x] = journals[x]
      BY <2>2 DEF StartEpoch, Inv, TypeOK
    <3>2. JournalTruthful(hist, x, journals[x])
      BY <3>1 DEF Inv, JournalsTruthful, HasJournal
    <3>3. hist'[journals[x].epoch] = hist[journals[x].epoch]
      BY <1>3, <3>2 DEF JournalTruthful
    <3>4. Len(hist) <= Len(hist')
      BY <1>1, <1>3
    <3>5. JournalTruthful(hist', x, journals[x])
      BY <1>1, <1>3, <3>2, <3>3, <3>4, JournalKept
    <3> QED BY <3>1, <3>5
  <2> QED BY <2>1, <2>2
<1> QED BY <1>3, <1>4, <1>5

\* Nothing changes in the hub.
LEMMA HubKept ==
    ASSUME Inv, UNCHANGED hubVars
    PROVE  Grows(hist, hist') /\ HistOK' /\ JournalsTruthful'
<1>1. hist' = hist /\ journals' = journals /\ epochCounter' = epochCounter
  BY DEF hubVars
<1>2. \A e \in 1..Len(hist) : Len(hist[e].events) \in Nat
  BY DEF Inv, TypeOK, Epoch
<1>3. Grows(hist, hist')
  BY <1>1, <1>2 DEF Grows, Inv, TypeOK
<1> QED BY <1>1, <1>3 DEF Inv, HistOK, JournalsTruthful, HasJournal

\* Messages in flight stay truthful if every message added is.
LEMMA InFlightKept ==
    ASSUME Inv, TypeOK', Grows(hist, hist'),
           \A c \in Client : \A m \in Entries(chan'[c]) :
              m \in Entries(chan[c]) \/ MsgTruthful(hist', m),
           cur' # None /\ cur'.phase = "reseeding" =>
              \/ MsgTruthful(hist', cur'.msg)
              \/ cur # None /\ cur.phase = "reseeding" /\ cur'.msg = cur.msg
    PROVE  InFlightTruthful'
<1>1. hist \in Seq(Epoch) /\ hist' \in Seq(Epoch)
  BY DEF Inv, TypeOK
<1>2. ASSUME NEW c \in Client, NEW m \in Entries(chan'[c])
      PROVE  MsgTruthful(hist', m)
  <2>1. CASE m \in Entries(chan[c])
    <3>1. MsgTruthful(hist, m)
      BY <2>1 DEF Inv, InFlightTruthful
    <3>2. m \in ServerMsg
      BY <2>1 DEF Inv, TypeOK, Entries
    <3> QED BY <1>1, <3>1, <3>2, MsgTruthfulGrows
  <2> QED BY <2>1
<1>3. ASSUME cur # None, cur.phase = "reseeding"
      PROVE  MsgTruthful(hist', cur.msg)
  <2>1. MsgTruthful(hist, cur.msg) /\ cur.msg \in ServerMsg
    BY <1>3, SwitchTypes, MsgTypes DEF Inv, InFlightTruthful, TypeOK
  <2> QED BY <1>1, <2>1, MsgTruthfulGrows
<1> QED BY <1>2, <1>3 DEF InFlightTruthful

\* What the tabs show stays truthful while the history grows.
LEMMA ViewsKept ==
    ASSUME Inv, TypeOK', Grows(hist, hist'), store' = store
    PROVE  ViewIsPrefix'
<1>1. hist \in Seq(Epoch) /\ hist' \in Seq(Epoch)
  BY DEF Inv, TypeOK
<1>2. ASSUME NEW c \in Client
      PROVE  Truthful(hist', store[c].sid, store[c].epoch, store[c].seq, store[c].view)
  <2>1. store[c].view \in Seq(Event)
    BY DEF Inv, TypeOK, Store
  <2>2. Truthful(hist, store[c].sid, store[c].epoch, store[c].seq, store[c].view)
    BY DEF Inv, ViewIsPrefix
  <2> QED BY <1>1, <2>1, <2>2, TruthfulGrows
<1> QED BY <1>2 DEF ViewIsPrefix

-----------------------------------------------------------------------------
(* The inductive step, one lemma per group of actions *)

LEMMA InvInit == Init => Inv
<1> SUFFICES ASSUME Init PROVE Inv
  OBVIOUS
<1>1. TypeOK
  BY TypeInit
<1>2. HistOK /\ JournalsTruthful
  <2>1. CASE DefaultFocus = None
    BY <2>1 DEF Init, HistOK, JournalsTruthful, HasJournal
  <2>2. CASE DefaultFocus # None
    <3>1. DefaultFocus \in Session
      BY <2>2, DefaultAssumption
    <3>2. PICK seed \in Seeds :
            /\ journals = [s \in Session |->
                  IF s = DefaultFocus THEN create_journal(1, seed) ELSE None]
            /\ hist = <<[sid |-> DefaultFocus, base |-> Len(seed), events |-> seed]>>
      BY <2>2 DEF Init
    <3> DEFINE E == [sid |-> DefaultFocus, base |-> Len(seed), events |-> seed]
               h == <<>>
    <3>3. h \in Seq(Epoch) /\ Len(h) = 0 /\ hist = Append(h, E)
      BY <3>2
    <3> HIDE DEF h
    <3>4. /\ Len(hist) = Len(h) + 1
          /\ hist[Len(h) + 1].base <= Len(hist[Len(h) + 1].events)
          /\ JournalTruthful(hist, DefaultFocus, create_journal(Len(h) + 1, seed))
      BY <3>1, <3>3, FreshJournal
    <3>5. Len(h) + 1 = 1
      BY <3>3
    <3>6. /\ Len(hist) = 1 /\ hist[1].base <= Len(hist[1].events)
          /\ JournalTruthful(hist, DefaultFocus, create_journal(1, seed))
      BY <3>4, <3>5
    <3>7. HistOK
      BY <2>2, <3>6 DEF Init, HistOK
    <3>8. JournalsTruthful
      BY <3>2, <3>6 DEF JournalsTruthful, HasJournal
    <3> QED BY <3>7, <3>8
  <2> QED BY <2>1, <2>2
<1>3. InFlightTruthful
  BY DEF Init, InFlightTruthful, Entries
<1>4. ViewIsPrefix
  BY DEF Init, ViewIsPrefix, EmptyStore, Truthful
<1> QED BY <1>1, <1>2, <1>3, <1>4 DEF Inv

\* A stamped event: its epoch grows by it, its journal keeps up, and the frame
\* sent to the viewers carries it.
LEMMA InvIngest ==
    ASSUME Inv, TypeOK', NEW s \in Session, IngestNow(s)
    PROVE  Inv' /\ Grows(hist, hist')
<1>1. PICK ev \in Event, k \in Evictions(journals[s]) :
        LET j == append_event(journals[s], ev, k)
        IN  /\ journals' = [journals EXCEPT ![s] = j]
            /\ hist' = [hist EXCEPT ![j.epoch].events = Append(@, ev)]
            /\ chan' = Push(clients_focused(s), [type |-> "event",
                            epoch |-> j.epoch, seq |-> j.seq, ev |-> ev])
  BY DEF IngestNow
<1> DEFINE j == journals[s]
           n == append_event(j, ev, k)
           msg == [type |-> "event", epoch |-> n.epoch, seq |-> n.seq, ev |-> ev]
<1>2. j \in Journal /\ k \in 0..Len(j.tail) + 1 /\ JournalTruthful(hist, s, j)
  BY DEF IngestNow, HasJournal, Inv, TypeOK, Evictions, JournalsTruthful
<1>3. /\ n \in Journal /\ n.epoch = j.epoch /\ n.seq = j.seq + 1
      /\ build_seed(n) = Append(build_seed(j), ev)
      /\ Len(n.tail) = Len(j.tail) + 1 - k
      /\ \A i \in 1..Len(n.tail) :
            n.tail[i] = Append(j.tail, [seq |-> j.seq + 1, ev |-> ev])[k + i]
  BY <1>2, AppendEvent
<1>4. /\ journals' = [journals EXCEPT ![s] = n]
      /\ hist' = [hist EXCEPT ![n.epoch].events = Append(@, ev)]
      /\ chan' = Push(clients_focused(s), msg)
  BY <1>1
<1> DEFINE e == j.epoch
           O == hist[e]
           N == hist'[e]
<1> HIDE DEF n
<1>5. /\ hist \in Seq(Epoch) /\ hist' \in Seq(Epoch) /\ Len(hist') = Len(hist)
      /\ e \in 1..Len(hist)
      /\ \A x \in 1..Len(hist) : x # e => hist'[x] = hist[x]
      /\ N = [O EXCEPT !.events = Append(@, ev)]
  <2>1. hist \in Seq(Epoch) /\ hist' \in Seq(Epoch) /\ e \in 1..Len(hist)
    BY <1>2 DEF Inv, TypeOK, JournalTruthful
  <2>2. hist' = [hist EXCEPT ![e].events = Append(@, ev)]
    BY <1>3, <1>4
  <2>3. DOMAIN hist = 1..Len(hist) /\ DOMAIN hist' = 1..Len(hist') /\ DOMAIN hist' = DOMAIN hist
    BY <2>1, <2>2
  <2>4. Len(hist') = Len(hist)
    <3> DEFINE a == Len(hist)
               b == Len(hist')
    <3>1. a \in Nat /\ b \in Nat /\ 1..a = 1..b
      <4>1. a \in Nat /\ b \in Nat
        BY <2>1
      <4>2. 1..a = 1..b
        BY <2>3, Zenon
      <4> QED BY <4>1, <4>2
    <3> HIDE DEF a, b
    <3>2. a <= b
      <4>1. a = 0 \/ a \in 1..a
        BY <3>1
      <4> QED BY <3>1, <4>1
    <3>3. b <= a
      <4>1. b = 0 \/ b \in 1..b
        BY <3>1
      <4> QED BY <3>1, <4>1
    <3>4. a = b
      BY <3>1, <3>2, <3>3
    <3> QED BY <3>4 DEF a, b
  <2> HIDE DEF e
  <2> QED BY <2>1, <2>2, <2>3, <2>4
<1>6. O \in Epoch /\ O.events \in Seq(Event) /\ O.base \in Nat
  <2> HIDE DEF e
  <2>1. O \in Epoch
    BY <1>5
  <2> HIDE DEF O
  <2> QED BY <2>1 DEF Epoch
<1> HIDE DEF O, N
<1>7. N.sid = O.sid /\ N.base = O.base /\ N.events = Append(O.events, ev)
  BY <1>5, <1>6 DEF Epoch
<1>8. /\ O.sid = s /\ build_seed(j) = O.events /\ O.base + j.seq = Len(O.events)
      /\ Len(j.tail) <= j.seq
      /\ \A i \in 1..Len(j.tail) : j.tail[i].seq = j.seq - Len(j.tail) + i
  BY <1>2 DEF JournalTruthful, O
<1>9. /\ N.events \in Seq(Event) /\ Len(N.events) = Len(O.events) + 1
      /\ \A i \in 1..Len(O.events) : N.events[i] = O.events[i]
      /\ N.events[Len(O.events) + 1] = ev
  BY <1>6, <1>7
<1>10. Grows(hist, hist')
  <2> SUFFICES ASSUME NEW x \in 1..Len(hist)
               PROVE  /\ hist'[x].sid = hist[x].sid
                      /\ hist'[x].base = hist[x].base
                      /\ Len(hist[x].events) <= Len(hist'[x].events)
                      /\ \A i \in 1..Len(hist[x].events) :
                            hist'[x].events[i] = hist[x].events[i]
    BY <1>5 DEF Grows
  <2>1. CASE x = e
    <3>1. Len(O.events) \in Nat /\ Len(O.events) <= Len(O.events) + 1
      BY <1>6
    <3>2. N.sid = O.sid /\ N.base = O.base /\ Len(O.events) <= Len(N.events)
      BY <1>7, <1>9, <3>1
    <3>3. hist'[x] = N /\ hist[x] = O
      BY <2>1 DEF O, N
    <3> QED BY <1>9, <3>2, <3>3
  <2>2. CASE x # e
    <3>1. hist'[x] = hist[x] /\ hist[x] \in Epoch
      BY <1>5, <2>2
    <3>2. Len(hist[x].events) \in Nat
      BY <3>1 DEF Epoch
    <3> QED BY <3>1, <3>2
  <2> QED BY <2>1, <2>2
<1>11. HistOK'
  <2>1. Len(hist') = epochCounter'
    BY <1>5 DEF Inv, HistOK, IngestNow
  <2>2. ASSUME NEW x \in 1..Len(hist')
        PROVE  hist'[x].base <= Len(hist'[x].events)
    <3>1. x \in 1..Len(hist) /\ hist[x].base <= Len(hist[x].events)
      BY <1>5 DEF Inv, HistOK
    <3>2. CASE x = e
      <4>1. O.base <= Len(O.events)
        BY <3>1, <3>2 DEF O
      <4> QED BY <1>6, <1>7, <1>9, <3>2, <4>1, SMTT(30) DEF N
    <3>3. CASE x # e
      BY <1>5, <3>1, <3>3
    <3> QED BY <3>2, <3>3
  <2> QED BY <2>1, <2>2 DEF HistOK
<1>12. JournalTruthful(hist', s, n)
  <2>1. j.tail \in Seq(Frame) /\ j.seq \in Nat /\ Len(j.tail) \in Nat
    BY <1>2 DEF Journal
  <2>2. n.epoch \in 1..Len(hist') /\ hist'[n.epoch] = N
    BY <1>3, <1>5 DEF N
  <2>3. build_seed(n) = N.events /\ N.sid = s
    BY <1>3, <1>7, <1>8
  <2>4. N.base + n.seq = Len(N.events)
    <3> DEFINE b == O.base
               q == j.seq
               l == Len(O.events)
    <3>1. b \in Nat /\ q \in Nat /\ l \in Nat /\ b + q = l
      BY <1>6, <1>8, <2>1
    <3> HIDE DEF b, q, l
    <3>2. b + (q + 1) = l + 1
      BY <3>1
    <3> QED BY <1>3, <1>7, <1>9, <3>2 DEF b, q, l
  <2>5. Len(n.tail) <= n.seq
    BY <1>2, <1>3, <1>8, <2>1
  <2>6. ASSUME NEW i \in 1..Len(n.tail)
        PROVE  n.tail[i].seq = n.seq - Len(n.tail) + i
    <3> DEFINE f == [seq |-> j.seq + 1, ev |-> ev]
               t == j.tail
    <3>1. t \in Seq(Frame) /\ f \in Frame /\ f.seq = j.seq + 1
      BY <2>1 DEF Frame
    <3> HIDE DEF f, t
    <3>2. /\ \A x \in 1..Len(t) : Append(t, f)[x] = t[x]
          /\ Append(t, f)[Len(t) + 1] = f
      BY <3>1
    <3>3. n.tail[i] = Append(t, f)[k + i]
      BY <1>3 DEF f, t
    <3>4. k + i \in 1..Len(t) + 1 /\ Len(t) \in Nat
      BY <1>2, <1>3, <2>1 DEF t
    <3>5. CASE k + i = Len(t) + 1
      <4>1. n.tail[i].seq = j.seq + 1
        BY <3>1, <3>2, <3>3, <3>5
      <4>2. j.seq + 1 = n.seq - Len(n.tail) + i
        <5> DEFINE q == j.seq
                   l == Len(j.tail)
        <5>1. q \in Nat /\ l \in Nat /\ k \in Nat /\ i \in Nat /\ k + i = l + 1
          BY <1>2, <2>1, <3>4, <3>5 DEF t
        <5> HIDE DEF q, l
        <5>2. q + 1 = (q + 1) - (l + 1 - k) + i
          BY <5>1
        <5> QED BY <1>3, <5>2 DEF q, l
      <4> QED BY <4>1, <4>2
    <3>6. CASE k + i # Len(t) + 1
      <4>1. k + i \in 1..Len(t)
        BY <3>4, <3>6
      <4>2. n.tail[i].seq = j.seq - Len(t) + (k + i)
        BY <1>8, <3>2, <3>3, <4>1 DEF t
      <4>3. j.seq - Len(t) + (k + i) = n.seq - Len(n.tail) + i
        <5> DEFINE q == j.seq
                   l == Len(j.tail)
        <5>1. q \in Nat /\ l \in Nat /\ k \in Nat /\ i \in Nat
          BY <1>2, <2>1
        <5> HIDE DEF q, l
        <5>2. q - l + (k + i) = (q + 1) - (l + 1 - k) + i
          BY <5>1
        <5> QED BY <1>3, <5>2 DEF q, l, t
      <4> QED BY <4>2, <4>3
    <3> QED BY <3>5, <3>6
  <2> QED BY <2>2, <2>3, <2>4, <2>5, <2>6 DEF JournalTruthful
<1>13. JournalsTruthful'
  <2> SUFFICES ASSUME NEW x \in Session, journals'[x] # None
               PROVE  JournalTruthful(hist', x, journals'[x])
    BY DEF JournalsTruthful, HasJournal
  <2>1. CASE x = s
    <3>1. journals'[s] = n
      BY <1>4 DEF Inv, TypeOK
    <3> QED BY <1>12, <2>1, <3>1
  <2>2. CASE x # s
    <3>1. journals'[x] = journals[x]
      BY <1>4, <2>2 DEF Inv, TypeOK
    <3>2. JournalTruthful(hist, x, journals[x])
      BY <3>1 DEF Inv, JournalsTruthful, HasJournal
    <3>3. journals[x].epoch # e
      BY <1>8, <2>2, <3>2 DEF JournalTruthful, O
    <3>4. hist'[journals[x].epoch] = hist[journals[x].epoch]
      BY <1>5, <3>2, <3>3 DEF JournalTruthful
    <3>5. Len(hist) <= Len(hist')
      BY <1>5
    <3>6. JournalTruthful(hist', x, journals[x])
      BY <1>5, <3>2, <3>4, <3>5, JournalKept
    <3> QED BY <3>1, <3>6
  <2> QED BY <2>1, <2>2
<1>14. MsgTruthful(hist', msg) /\ msg \in ServerMsg
  <2>1. n.seq \in 1..Len(N.events) - N.base /\ N.base + n.seq = Len(O.events) + 1
    <3> DEFINE b == O.base
               q == j.seq
               l == Len(O.events)
    <3>1. b \in Nat /\ q \in Nat /\ l \in Nat /\ b + q = l
      BY <1>2, <1>6, <1>8 DEF Journal
    <3> HIDE DEF b, q, l
    <3>2. q + 1 \in 1..(l + 1) - b /\ b + (q + 1) = l + 1
      BY <3>1
    <3> QED BY <1>3, <1>7, <1>9, <3>2 DEF b, q, l
  <2>2. msg.type = "event" /\ msg.epoch = e /\ msg.seq = n.seq /\ msg.ev = ev
    BY <1>3
  <2>3. msg \in ServerMsg
    BY <1>3, MsgTypes DEF EventMsg, Journal
  <2> HIDE DEF msg
  <2>4. MsgTruthful(hist', msg)
    BY <1>5, <1>9, <2>1, <2>2 DEF MsgTruthful, N
  <2> QED BY <2>3, <2>4
<1> HIDE DEF msg
<1>15. InFlightTruthful'
  <2>1. \A c \in Client : Entries(chan'[c]) \subseteq Entries(chan[c]) \cup {msg}
    BY <1>4, <1>14, PushFrames DEF Inv, TypeOK
  <2>2. cur' = cur
    BY DEF IngestNow, opVars
  <2> QED BY <1>10, <1>14, <2>1, <2>2, InFlightKept
<1>16. ViewIsPrefix'
  BY <1>10, ViewsKept DEF IngestNow
<1> QED BY <1>10, <1>11, <1>13, <1>15, <1>16 DEF Inv

\* A step that only adds one truthful message to some channels and leaves the
\* tabs and the switch in progress alone.
LEMMA InvPush ==
    ASSUME Inv, TypeOK', Grows(hist, hist'), HistOK', JournalsTruthful', store' = store,
           NEW to, NEW msg \in ServerMsg, MsgTruthful(hist', msg), chan' = Push(to, msg),
           cur' = None \/ cur' = cur \/ cur'.phase # "reseeding"
    PROVE  Inv'
<1>1. \A c \in Client : Entries(chan'[c]) \subseteq Entries(chan[c]) \cup {msg}
  BY PushFrames DEF Inv, TypeOK
<1>2. InFlightTruthful'
  BY <1>1, InFlightKept
<1>3. ViewIsPrefix'
  BY ViewsKept
<1> QED BY <1>2, <1>3 DEF Inv

\* A step that sends nothing.
LEMMA InvSilent ==
    ASSUME Inv, TypeOK', Grows(hist, hist'), HistOK', JournalsTruthful', store' = store,
           \A c \in Client : Entries(chan'[c]) \subseteq Entries(chan[c]),
           \/ cur' = None \/ cur' = cur \/ cur'.phase # "reseeding"
           \/ cur # None /\ cur.phase = "reseeding" /\ cur'.msg = cur.msg
    PROVE  Inv'
<1>1. InFlightTruthful'
  BY InFlightKept
<1>2. ViewIsPrefix'
  BY ViewsKept
<1> QED BY <1>1, <1>2 DEF Inv

\* A seed built from the journals the step leaves behind is truthful.
LEMMA NewSeed ==
    ASSUME TypeOK', JournalsTruthful', NEW s \in Session \cup {None}
    PROVE  seed_msg(journals', s) \in ServerMsg /\ MsgTruthful(hist', seed_msg(journals', s))
<1>1. /\ hist' \in Seq(Epoch) /\ journals' \in [Session -> Journal \cup {None}]
      /\ \A x \in Session : journals'[x] # None => JournalTruthful(hist', x, journals'[x])
  BY DEF TypeOK, JournalsTruthful, HasJournal
<1>2. MsgTruthful(hist', seed_msg(journals', s))
  BY <1>1, SeedTruthful
<1>3. seed_msg(journals', s) \in ServerMsg
  BY <1>1, SeedMsgType, MsgTypes
<1> QED BY <1>2, <1>3

LEMMA InvDriver ==
    ASSUME Inv, TypeOK', NEW s \in Session,
           IngestNow(s) \/ SessionReset(s) \/ SessionClosed(s)
    PROVE  Inv'
<1>1. CASE IngestNow(s)
  BY <1>1, InvIngest
<1>2. CASE SessionReset(s)
  <2>1. PICK meta \in Seeds : StartEpoch(s, meta)
    BY <1>2 DEF SessionReset
  <2>2. Grows(hist, hist') /\ HistOK' /\ JournalsTruthful'
    BY <2>1, StartEpochTruth
  <2> DEFINE msg == seed_msg(journals', s)
  <2>3. msg \in ServerMsg /\ MsgTruthful(hist', msg)
    BY <2>2, NewSeed
  <2>4. chan' = Push(clients_focused(s), msg) /\ store' = store /\ cur' = cur
    BY <1>2 DEF SessionReset, opVars
  <2> HIDE DEF msg
  <2> QED BY <2>2, <2>3, <2>4, InvPush
<1>3. CASE SessionClosed(s)
  <2>1. /\ hist' = hist /\ epochCounter' = epochCounter /\ chan' = chan /\ cur' = cur
        /\ store' = store /\ journals' = [journals EXCEPT ![s] = None]
    BY <1>3 DEF SessionClosed, netVars, opVars
  <2>2. Grows(hist, hist') /\ HistOK'
    <3>1. \A e \in 1..Len(hist) : Len(hist[e].events) \in Nat
      BY SMTT(30) DEF Inv, TypeOK, Epoch
    <3> QED BY <2>1, <3>1 DEF Grows, Inv, TypeOK, HistOK
  <2>3. JournalsTruthful'
    <3>1. \A x \in Session : journals'[x] = None \/ journals'[x] = journals[x]
      BY <2>1 DEF Inv, TypeOK
    <3> QED BY <2>1, <3>1 DEF Inv, JournalsTruthful, HasJournal
  <2> QED BY <2>1, <2>2, <2>3, InvSilent
<1> QED BY <1>1, <1>2, <1>3

\* Every message of a greeting is truthful: the replayed frames and both seeds.
LEMMA GreetingTruthful ==
    ASSUME Inv, NEW c \in Client
    PROVE  \A m \in Entries(Greeting(store[c])) : MsgTruthful(hist, m)
<1> DEFINE st == store[c]
<1>1. st.sid \in Session \cup {None} /\ st.seq \in Nat
  BY DEF Inv, TypeOK, Store
<1>2. /\ hist \in Seq(Epoch) /\ journals \in [Session -> Journal \cup {None}]
      /\ \A x \in Session : journals[x] # None => JournalTruthful(hist, x, journals[x])
  BY DEF Inv, TypeOK, JournalsTruthful, HasJournal
<1> HIDE DEF st
<1>3. CASE Resumable(st)
  <2> DEFINE j == journals[st.sid]
  <2>1. st.sid \in Session /\ j \in Journal /\ JournalTruthful(hist, st.sid, j)
    BY <1>1, <1>2, <1>3 DEF Resumable, HasToken, HasJournal
  <2>2. Greeting(st) = Replay(j, st.seq)
    BY <1>3 DEF Greeting
  <2> HIDE DEF j
  <2>3. ASSUME NEW m \in Entries(Replay(j, st.seq)) PROVE MsgTruthful(hist, m)
    <3>1. PICK i \in 1..Len(j.tail) : m = [type |-> "event", epoch |-> j.epoch,
                                           seq |-> j.tail[i].seq, ev |-> j.tail[i].ev]
      BY <1>1, <2>1, ReplayFrames
    <3> QED BY <1>2, <2>1, <3>1, FrameTruthful
  <2> QED BY <2>2, <2>3 DEF st
<1>4. CASE ~Resumable(st)
  <2>1. MsgTruthful(hist, seed_msg(journals, st.sid))
    BY <1>1, <1>2, SeedTruthful
  <2>2. MsgTruthful(hist, seed_msg(journals, DefaultFocus))
    BY <1>2, SeedTruthful, DefaultAssumption
  <2>3. \/ Greeting(st) = <<seed_msg(journals, st.sid)>>
        \/ Greeting(st) = <<seed_msg(journals, DefaultFocus)>>
    BY <1>4 DEF Greeting
  <2>4. ASSUME NEW x PROVE Entries(<<x>>) = {x}
    BY DEF Entries
  <2>5. \/ Entries(Greeting(st)) = {seed_msg(journals, st.sid)}
        \/ Entries(Greeting(st)) = {seed_msg(journals, DefaultFocus)}
    BY <2>3, <2>4
  <2> QED BY <2>1, <2>2, <2>5 DEF st
<1> QED BY <1>3, <1>4

LEMMA InvConnection ==
    ASSUME Inv, TypeOK', NEW c \in Client, Connect(c) \/ Disconnect(c)
    PROVE  Inv'
<1>1. UNCHANGED hubVars /\ store' = store
  BY DEF Connect, Disconnect
<1>2. Grows(hist, hist') /\ HistOK' /\ JournalsTruthful' /\ hist' = hist
  BY <1>1, HubKept DEF hubVars
<1>3. CASE Connect(c)
  <2> DEFINE hello == <<[type |-> "hello"]>>
             greet == Greeting(store[c])
  <2>1. greet \in Seq(ServerMsg) /\ \A m \in Entries(greet) : MsgTruthful(hist', m)
    BY <1>2, GreetingType, GreetingTruthful DEF Inv
  <2>2. hello \in Seq(ServerMsg) /\ \A m \in Entries(hello) : MsgTruthful(hist', m)
    <3>1. [type |-> "hello"] \in ServerMsg
      BY MsgTypes DEF HelloMsg
    <3>2. \A m \in Entries(hello) : m = [type |-> "hello"]
      BY DEF Entries
    <3> QED BY <3>1, <3>2 DEF MsgTruthful
  <2>3. chan' = [chan EXCEPT ![c] = try_send(hello, greet)] /\ cur' = cur
    BY <1>3 DEF Connect
  <2> HIDE DEF hello, greet
  <2>4. \A m \in Entries(try_send(hello, greet)) : MsgTruthful(hist', m)
    <3>1. Entries(try_send(hello, greet)) \subseteq Entries(hello) \cup Entries(greet)
      BY <2>1, <2>2, TrySend
    <3> QED BY <2>1, <2>2, <3>1
  <2>5. \A d \in Client : chan'[d] = IF d = c THEN try_send(hello, greet) ELSE chan[d]
    BY <2>3 DEF Inv, TypeOK
  <2>6. InFlightTruthful'
    BY <1>2, <2>3, <2>4, <2>5, InFlightKept
  <2>7. ViewIsPrefix'
    BY <1>1, <1>2, ViewsKept
  <2> QED BY <1>2, <2>6, <2>7 DEF Inv
<1>4. CASE Disconnect(c)
  <2>1. \A d \in Client : Entries(chan'[d]) \subseteq Entries(chan[d])
    <3>1. \A d \in Client : chan'[d] = <<>> \/ chan'[d] = chan[d]
      BY <1>4 DEF Disconnect, Inv, TypeOK
    <3>2. Entries(<<>>) = {}
      BY DEF Entries
    <3> QED BY <3>1, <3>2
  <2>2. \/ cur' = None \/ cur' = cur \/ cur'.phase # "reseeding"
        \/ cur # None /\ cur.phase = "reseeding" /\ cur'.msg = cur.msg
    <3>1. CASE ~(cur # None /\ cur.client = c)
      BY <1>4, <3>1 DEF Disconnect
    <3>2. CASE cur # None /\ cur.client = c
      <4>1. cur \in Switch /\ cur' = [cur EXCEPT !.client = None]
        BY <1>4, <3>2 DEF Disconnect, Inv, TypeOK
      <4> QED BY <3>2, <4>1 DEF Switch
    <3> QED BY <3>1, <3>2
  <2> QED BY <1>1, <1>2, <2>1, <2>2, InvSilent
<1> QED BY <1>3, <1>4

LEMMA InvRestart ==
    ASSUME Inv, TypeOK', Restart
    PROVE  Inv'
<1>1. store' = store /\ cur' = None /\ chan' = [c \in Client |-> <<>>]
  BY DEF Restart
<1>2. \A c \in Client : Entries(chan'[c]) \subseteq Entries(chan[c])
  BY <1>1 DEF Entries
<1>3. hist \in Seq(Epoch) /\ Len(hist) = epochCounter
  BY DEF Inv, TypeOK, HistOK
<1>4. Grows(hist, hist') /\ HistOK' /\ JournalsTruthful'
  <2>1. CASE DefaultFocus = None
    <3>1. hist' = hist /\ epochCounter' = epochCounter /\ journals' = [s \in Session |-> None]
      BY <2>1 DEF Restart
    <3>2. Grows(hist, hist') /\ HistOK'
      <4>1. \A e \in 1..Len(hist) : Len(hist[e].events) \in Nat
        BY SMTT(30) DEF Inv, TypeOK, Epoch
      <4> QED BY <3>1, <4>1 DEF Grows, Inv, TypeOK, HistOK
    <3> QED BY <3>1, <3>2 DEF JournalsTruthful, HasJournal
  <2>2. CASE DefaultFocus # None
    <3>1. DefaultFocus \in Session
      BY <2>2, DefaultAssumption
    <3>2. epochCounter' = epochCounter + 1
      BY <2>2 DEF Restart
    <3>3. PICK seed \in Seeds :
            /\ journals' = [s \in Session |->
                  IF s = DefaultFocus THEN create_journal(epochCounter', seed) ELSE None]
            /\ hist' = Append(hist, [sid |-> DefaultFocus, base |-> Len(seed),
                                     events |-> seed])
      BY <2>2 DEF Restart
    <3>4. /\ Len(hist') = Len(hist) + 1
          /\ \A e \in 1..Len(hist) : hist'[e] = hist[e]
          /\ hist'[Len(hist) + 1].base <= Len(hist'[Len(hist) + 1].events)
          /\ Grows(hist, hist')
          /\ JournalTruthful(hist', DefaultFocus, create_journal(Len(hist) + 1, seed))
      BY <1>3, <3>1, <3>3, FreshJournal
    <3>5. HistOK'
      <4>1. Len(hist') = epochCounter'
        BY <1>3, <3>2, <3>4
      <4>2. \A e \in 1..Len(hist') : e \in 1..Len(hist) \/ e = Len(hist) + 1
        BY <1>3, <3>4
      <4>3. \A e \in 1..Len(hist') : hist'[e].base <= Len(hist'[e].events)
        BY <3>4, <4>2 DEF Inv, HistOK
      <4> QED BY <4>1, <4>3 DEF HistOK
    <3>6. JournalsTruthful'
      BY <1>3, <3>2, <3>3, <3>4 DEF JournalsTruthful, HasJournal
    <3> QED BY <3>4, <3>5, <3>6
  <2> QED BY <2>1, <2>2
<1> QED BY <1>1, <1>2, <1>4, InvSilent

\* A tab that receives a message: it adopts a truthful seed, or folds the event
\* its epoch stamped next, or keeps what it shows.
LEMMA InvTab ==
    ASSUME Inv, TypeOK', NEW c \in Client, TabReceives(c)
    PROVE  Inv'
<1> DEFINE m == Head(chan[c])
           st == store[c]
           nst == store'[c]
<1>1. PICK type : Receives(c, type)
  BY DEF TabReceives, OnHello, OnSeed, OnEvent, OnSessionList
<1>2. /\ m \in ServerMsg /\ MsgTruthful(hist, m)
      /\ \A d \in Client : Entries(chan'[d]) \subseteq Entries(chan[d])
  BY <1>1, ReceivesType DEF Inv, InFlightTruthful
<1>3. UNCHANGED hubVars /\ cur' = cur
  BY <1>1 DEF Receives, opVars
<1>4. Grows(hist, hist') /\ HistOK' /\ JournalsTruthful' /\ hist' = hist
  BY <1>3, HubKept DEF hubVars
<1>5. InFlightTruthful'
  BY <1>2, <1>3, <1>4, InFlightKept
<1>6. Truthful(hist, nst.sid, nst.epoch, nst.seq, nst.view)
  <2>1. /\ st \in Store /\ nst \in Store
        /\ Truthful(hist, st.sid, st.epoch, st.seq, st.view)
    BY DEF Inv, TypeOK, ViewIsPrefix
  <2>2. CASE /\ nst.sid = st.sid /\ nst.epoch = st.epoch
             /\ nst.seq = st.seq /\ nst.view = st.view
    BY <2>1, <2>2
  <2>3. CASE OnHello(c)
    <3>1. /\ nst.sid = st.sid /\ nst.epoch = st.epoch
          /\ nst.seq = st.seq /\ nst.view = st.view
      BY <2>3 DEF OnHello, Inv, TypeOK, Store
    <3> QED BY <2>2, <3>1
  <2>4. CASE OnSeed(c)
    <3>1. store' = [store EXCEPT ![c].sid = m.sid, ![c].epoch = m.epoch, ![c].seq = m.seq,
                                 ![c].view = m.events, ![c].requested = FALSE]
      BY <2>4 DEF OnSeed
    <3>2. m.type = "seed"
      BY <2>4 DEF OnSeed, Receives
    <3> HIDE DEF m
    <3>3. /\ nst.sid = m.sid /\ nst.epoch = m.epoch /\ nst.seq = m.seq /\ nst.view = m.events
      BY <3>1 DEF Inv, TypeOK, Store
    <3>4. Truthful(hist, m.sid, m.epoch, m.seq, m.events)
      BY <1>2, <3>2 DEF MsgTruthful
    <3> QED BY <3>3, <3>4
  <2>5. CASE OnEvent(c)
    <3>1. m.type = "event"
      BY <2>5 DEF OnEvent, Receives
    <3>2. CASE UNCHANGED <<store, up>>
      BY <2>2, <3>2
    <3>3. CASE store' = [store EXCEPT ![c].requested = TRUE]
      <4>1. /\ nst.sid = st.sid /\ nst.epoch = st.epoch
            /\ nst.seq = st.seq /\ nst.view = st.view
        BY <3>3 DEF Inv, TypeOK, Store
      <4> QED BY <2>2, <4>1
    <3>4. CASE /\ m.epoch = st.epoch /\ m.seq = st.seq + 1
               /\ store' = [store EXCEPT ![c].seq = m.seq, ![c].view = Append(@, m.ev),
                                         ![c].requested = FALSE]
      <4> DEFINE H == hist[m.epoch]
      <4>1. /\ m.epoch \in 1..Len(hist) /\ m.seq \in 1..Len(H.events) - H.base
            /\ m.ev = H.events[H.base + m.seq]
        BY <1>2, <3>1 DEF MsgTruthful
      <4>2. m.ev \in Event
        BY <1>2, <3>1, MsgTypes DEF EventMsg
      <4> HIDE DEF m
      <4>3. /\ nst.sid = st.sid /\ nst.epoch = st.epoch /\ nst.seq = m.seq
            /\ nst.view = Append(st.view, m.ev)
        BY <3>4 DEF Inv, TypeOK, Store
      <4>4. H \in Epoch
        BY <4>1 DEF Inv, TypeOK
      <4> HIDE DEF H, st, nst
      <4>5. /\ H.base \in Nat /\ H.events \in Seq(Event)
            /\ st.view \in Seq(Event) /\ st.seq \in Nat
        BY <2>1, <4>4 DEF Epoch, Store
      <4>6. m.epoch # 0
        BY <4>1
      <4>7. /\ H.sid = st.sid /\ Len(st.view) = H.base + st.seq
            /\ \A i \in 1..Len(st.view) : st.view[i] = H.events[i]
        BY <2>1, <3>4, <4>6 DEF Truthful, H
      <4>8. /\ Len(Append(st.view, m.ev)) = Len(st.view) + 1
            /\ \A i \in 1..Len(st.view) : Append(st.view, m.ev)[i] = st.view[i]
            /\ Append(st.view, m.ev)[Len(st.view) + 1] = m.ev
        BY <4>2, <4>5
      <4>9. Len(st.view) + 1 = H.base + m.seq /\ Len(st.view) + 1 <= Len(H.events)
        <5> DEFINE b == H.base
                   q == st.seq
                   v == Len(st.view)
                   l == Len(H.events)
        <5>1. /\ b \in Nat /\ q \in Nat /\ v \in Nat /\ l \in Nat /\ v = b + q
              /\ q + 1 \in 1..l - b
          BY <3>4, <4>1, <4>5, <4>7
        <5> HIDE DEF b, q, v, l
        <5>2. v + 1 = b + (q + 1) /\ v + 1 <= l
          BY <5>1
        <5> QED BY <3>4, <5>2 DEF b, q, v, l
      <4>10. \A i \in 1..Len(st.view) + 1 : Append(st.view, m.ev)[i] = H.events[i]
        <5> TAKE i \in 1..Len(st.view) + 1
        <5>1. i \in 1..Len(st.view) \/ i = Len(st.view) + 1
          BY <4>5
        <5> QED BY <4>1, <4>7, <4>8, <4>9, <5>1
      <4>11. Truthful(hist, st.sid, st.epoch, m.seq, Append(st.view, m.ev))
        BY <3>4, <4>1, <4>7, <4>8, <4>9, <4>10 DEF Truthful, H
      <4> QED BY <4>3, <4>11
    <3> QED BY <2>5, <3>2, <3>3, <3>4 DEF OnEvent
  <2>6. CASE OnSessionList(c)
    <3>1. /\ nst.sid = st.sid /\ nst.epoch = st.epoch
          /\ nst.seq = st.seq /\ nst.view = st.view
      BY <2>6 DEF OnSessionList, Inv, TypeOK, Store
    <3> QED BY <2>2, <3>1
  <2> QED BY <2>3, <2>4, <2>5, <2>6 DEF TabReceives
<1>7. ViewIsPrefix'
  <2>1. \A d \in Client : d # c => store'[d] = store[d]
    BY DEF TabReceives, OnHello, OnSeed, OnEvent, OnSessionList, Inv, TypeOK
  <2> QED BY <1>4, <1>6, <2>1 DEF Inv, ViewIsPrefix
<1> QED BY <1>4, <1>5, <1>7 DEF Inv

\* What users and the message handlers do only moves requests, and answers a
\* requestSeed with a truthful seed.
LEMMA InvHub ==
    ASSUME Inv, TypeOK', NEW c \in Client,
           HubHandles(c) \/ \E s \in Session : UserOpen(c, s) \/ UserReload(c, s)
    PROVE  Inv'
<1>1. UNCHANGED hubVars /\ store' = store /\ cur' = cur
  BY DEF HubHandles, HandleRequestSeed, HandleSwitch, Handles, UserOpen, UserReload, opVars
<1>2. Grows(hist, hist') /\ HistOK' /\ JournalsTruthful' /\ journals' = journals
  BY <1>1, HubKept DEF hubVars
<1>3. CASE HandleRequestSeed(c)
  <2> DEFINE msg == seed_msg(journals', focus[c])
  <2>1. focus[c] \in Session \cup {None}
    BY DEF Inv, TypeOK
  <2>2. msg \in ServerMsg /\ MsgTruthful(hist', msg)
    BY <1>2, <2>1, NewSeed
  <2>3. chan' = Push({c}, msg)
    BY <1>2, <1>3 DEF HandleRequestSeed
  <2> HIDE DEF msg
  <2> QED BY <1>1, <1>2, <2>2, <2>3, InvPush
<1>4. CASE chan' = chan
  BY <1>1, <1>2, <1>4, InvSilent
<1> QED BY <1>3, <1>4 DEF HubHandles, HandleSwitch, UserOpen, UserReload

LEMMA InvApplier ==
    ASSUME Inv, TypeOK', Applier
    PROVE  Inv'
<1>1. CASE StartSwitch \/ FailSwitch
  <2>1. UNCHANGED hubVars /\ store' = store /\ chan' = chan
    BY <1>1 DEF StartSwitch, FailSwitch, netVars
  <2>2. Grows(hist, hist') /\ HistOK' /\ JournalsTruthful'
    BY <2>1, HubKept
  <2>3. cur' = None \/ cur'.phase # "reseeding"
    BY <1>1 DEF StartSwitch, FailSwitch
  <2> QED BY <2>1, <2>2, <2>3, InvSilent
<1>2. CASE FinishSwitch
  <2>1. cur \in Switch /\ cur # None /\ cur.phase = "fetching"
    BY <1>2 DEF FinishSwitch, Inv, TypeOK
  <2>2. cur.client \in Client \cup {None} /\ cur.sid \in Session
    BY <2>1, SwitchTypes
  <2>3. Grows(hist, hist') /\ HistOK' /\ JournalsTruthful'
    <3>1. CASE \E seed \in Seeds : StartEpoch(cur.sid, seed)
      BY <2>2, <3>1, StartEpochTruth
    <3>2. CASE UNCHANGED hubVars
      BY <3>2, HubKept
    <3> QED BY <1>2, <3>1, <3>2 DEF FinishSwitch
  <2>4. cur' = None \/ cur'.phase # "reseeding"
    <3>1. cur' = None \/ cur' = [cur EXCEPT !.phase = "switched"]
      BY <1>2 DEF FinishSwitch
    <3>2. [cur EXCEPT !.phase = "switched"].phase = "switched"
      BY <2>1 DEF Switch
    <3> QED BY <3>1, <3>2
  <2>5. store' = store
    BY <1>2 DEF FinishSwitch
  <2>6. CASE cur.client = None
    <3>1. chan' = chan
      BY <1>2, <2>6 DEF FinishSwitch
    <3> QED BY <2>3, <2>4, <2>5, <3>1, InvSilent
  <2>7. CASE cur.client # None
    <3> DEFINE msg == seed_msg(journals', cur.sid)
    <3>1. chan' = Push({cur.client}, msg)
      BY <1>2, <2>7 DEF FinishSwitch
    <3>2. msg \in ServerMsg /\ MsgTruthful(hist', msg)
      BY <2>2, <2>3, NewSeed
    <3> HIDE DEF msg
    <3> QED BY <2>3, <2>4, <2>5, <3>1, <3>2, InvPush
  <2> QED BY <2>6, <2>7
<1>3. CASE BuildReseed
  <2>1. UNCHANGED hubVars /\ store' = store /\ chan' = chan
    BY <1>3 DEF BuildReseed, netVars
  <2>2. Grows(hist, hist') /\ HistOK' /\ JournalsTruthful' /\ journals' = journals
    BY <2>1, HubKept DEF hubVars
  <2>3. cur.sid \in Session
    BY <1>3, SwitchTypes DEF BuildReseed, Inv, TypeOK
  <2>4. MsgTruthful(hist', cur'.msg)
    <3>1. cur'.msg = seed_msg(journals', cur.sid)
      BY <1>3, <2>2 DEF BuildReseed
    <3> QED BY <2>2, <2>3, <3>1, NewSeed
  <2>5. InFlightTruthful'
    BY <2>1, <2>2, <2>4, InFlightKept
  <2>6. ViewIsPrefix'
    BY <2>1, <2>2, ViewsKept
  <2> QED BY <2>2, <2>5, <2>6 DEF Inv
<1>4. CASE SendReseed
  <2> DEFINE msg == cur.msg
             to == clients_focused(cur.msg.sid) \ {cur.client}
  <2>1. UNCHANGED hubVars /\ store' = store /\ cur' = None /\ chan' = Push(to, msg)
    BY <1>4 DEF SendReseed
  <2>2. Grows(hist, hist') /\ HistOK' /\ JournalsTruthful' /\ hist' = hist
    BY <2>1, HubKept DEF hubVars
  <2>3. msg \in ServerMsg /\ MsgTruthful(hist', msg)
    BY <1>4, <2>2, SwitchTypes, MsgTypes DEF SendReseed, Inv, TypeOK, InFlightTruthful
  <2> HIDE DEF msg, to
  <2> QED BY <2>1, <2>2, <2>3, InvPush
<1>5. CASE RunConnectList \/ RunSwitchList
  <2>1. UNCHANGED hubVars /\ store' = store /\ cur' = cur
    BY <1>5 DEF RunConnectList, RunSwitchList
  <2>2. Grows(hist, hist') /\ HistOK' /\ JournalsTruthful'
    BY <2>1, HubKept
  <2>3. ASSUME NEW a \in Session \cup {None}
        PROVE  list_msg(a) \in ServerMsg /\ MsgTruthful(hist', list_msg(a))
    BY MsgTypes DEF list_msg, ListMsg, MsgTruthful
  <2>4. CASE RunConnectList
    <3> DEFINE o == Head(opq)
    <3>1. o \in Op
      BY <2>4 DEF RunConnectList, Inv, TypeOK
    <3>2. o.active \in Session \cup {None}
      BY <2>4, <3>1, OpTypes DEF RunConnectList
    <3>3. chan' = chan \/ chan' = Push({o.client}, list_msg(o.active))
      BY <2>4 DEF RunConnectList
    <3> HIDE DEF o
    <3>4. CASE chan' = chan
      BY <2>1, <2>2, <3>4, InvSilent
    <3>5. CASE chan' = Push({o.client}, list_msg(o.active))
      BY <2>1, <2>2, <2>3, <3>2, <3>5, InvPush
    <3> QED BY <3>3, <3>4, <3>5
  <2>5. CASE RunSwitchList
    <3>1. ASSUME NEW c \in Client, NEW m \in Entries(chan'[c])
          PROVE  m \in Entries(chan[c]) \/ MsgTruthful(hist', m)
      <4> DEFINE one == <<list_msg(focus[c])>>
      <4>1. focus[c] \in Session \cup {None} /\ chan[c] \in Seq(ServerMsg)
        BY DEF Inv, TypeOK
      <4>2. one \in Seq(ServerMsg) /\ Entries(one) = {list_msg(focus[c])}
        BY <2>3, <4>1 DEF Entries
      <4>3. chan'[c] = chan[c] \/ chan'[c] = try_send(chan[c], one)
        BY <2>5 DEF RunSwitchList
      <4> HIDE DEF one
      <4>4. Entries(try_send(chan[c], one)) \subseteq Entries(chan[c]) \cup {list_msg(focus[c])}
        BY <4>1, <4>2, TrySend
      <4> QED BY <2>3, <3>1, <4>1, <4>3, <4>4
    <3>2. InFlightTruthful'
      BY <2>1, <2>2, <3>1, InFlightKept
    <3>3. ViewIsPrefix'
      BY <2>1, <2>2, ViewsKept
    <3> QED BY <2>2, <3>2, <3>3 DEF Inv
  <2> QED BY <1>5, <2>4, <2>5
<1> QED BY <1>1, <1>2, <1>3, <1>4, <1>5 DEF Applier

LEMMA InvStep == Inv /\ [Next]_vars => Inv'
<1> SUFFICES ASSUME Inv, [Next]_vars PROVE Inv'
  OBVIOUS
<1>1. TypeOK'
  BY TypeStep DEF Inv
<1>2. CASE UNCHANGED vars
  <2>1. UNCHANGED hubVars /\ store' = store /\ chan' = chan /\ cur' = cur
    BY <1>2 DEF vars, netVars, opVars
  <2>2. Grows(hist, hist') /\ HistOK' /\ JournalsTruthful'
    BY <2>1, HubKept
  <2> QED BY <1>1, <2>1, <2>2, InvSilent
<1>3. CASE Next
  BY <1>1, <1>3, InvDriver, InvConnection, InvRestart, InvTab, InvHub, InvApplier DEF Next
<1> QED BY <1>2, <1>3

\* What a tab shows is a transcript the hub really had: for any number of tabs,
\* sessions and events, any channel capacity and ring size, and whatever the
\* driver, the users and the network do.
THEOREM ViewCorrect == Spec => []ViewIsPrefix
<1>1. Init => Inv
  BY InvInit
<1>2. Inv /\ [Next]_vars => Inv'
  BY InvStep
<1>3. Inv => ViewIsPrefix
  BY DEF Inv
<1> QED BY <1>1, <1>2, <1>3, PTL DEF Spec

\* Every live journal stands for its whole epoch, and its ring for the stamps
\* that end at its seq: what tail_covers and build_seed rely on.
THEOREM JournalsCorrect == Spec => []JournalsTruthful
<1>1. Init => Inv
  BY InvInit
<1>2. Inv /\ [Next]_vars => Inv'
  BY InvStep
<1>3. Inv => JournalsTruthful
  BY DEF Inv
<1> QED BY <1>1, <1>2, <1>3, PTL DEF Spec

\* No frame or seed in flight ever lies about the epoch it is stamped with.
THEOREM InFlightCorrect == Spec => []InFlightTruthful
<1>1. Init => Inv
  BY InvInit
<1>2. Inv /\ [Next]_vars => Inv'
  BY InvStep
<1>3. Inv => InFlightTruthful
  BY DEF Inv
<1> QED BY <1>1, <1>2, <1>3, PTL DEF Spec

-----------------------------------------------------------------------------
(* Whom the hub routes to *)

\* Who waits for an operation is connected, and nobody is focused on a session
\* without a journal, the landing session included.
AsksFrom(here, op) == op.client = None \/ op.client \in here

Routed ==
    /\ FocusHasJournal
    /\ \A op \in Entries(opq) : op.kind = "switchList" \/ AsksFrom(clients, op)
    /\ cur # None => AsksFrom(clients, cur)
    /\ DefaultFocus # None => HasJournal(DefaultFocus)

\* The head of a queue, and the entries behind it.
LEMMA QueueEntries ==
    ASSUME NEW S, NEW q \in Seq(S)
    PROVE  /\ q # <<>> => /\ Head(q) \in Entries(q) /\ Tail(q) \in Seq(S)
                          /\ Entries(Tail(q)) \subseteq Entries(q)
           /\ \A x \in S : Entries(Append(q, x)) = Entries(q) \cup {x}
<1>1. ASSUME q # <<>>
      PROVE  /\ Head(q) \in Entries(q) /\ Tail(q) \in Seq(S)
             /\ Entries(Tail(q)) \subseteq Entries(q)
  <2>1. \A i \in 1..Len(Tail(q)) : i + 1 \in 1..Len(q) /\ Tail(q)[i] = q[i + 1]
    BY <1>1
  <2>2. Head(q) = q[1] /\ 1 \in 1..Len(q) /\ Tail(q) \in Seq(S)
    BY <1>1
  <2> QED BY <2>1, <2>2 DEF Entries
<1>2. ASSUME NEW x \in S
      PROVE  Entries(Append(q, x)) = Entries(q) \cup {x}
  <2>1. /\ Len(Append(q, x)) = Len(q) + 1 /\ Len(q) \in Nat
        /\ \A i \in 1..Len(q) : Append(q, x)[i] = q[i]
        /\ Append(q, x)[Len(q) + 1] = x
    OBVIOUS
  <2> DEFINE r == Append(q, x)
  <2> HIDE DEF r
  <2>2. \A i \in 1..Len(q) + 1 : i \in 1..Len(q) \/ i = Len(q) + 1
    BY <2>1
  <2>3. Len(q) + 1 \in 1..Len(q) + 1 /\ \A i \in 1..Len(q) : i \in 1..Len(q) + 1
    BY <2>1
  <2>4. /\ Len(r) = Len(q) + 1 /\ \A i \in 1..Len(q) : r[i] = q[i]
        /\ r[Len(q) + 1] = x
    BY <2>1 DEF r
  <2>5. Entries(r) = Entries(q) \cup {x}
    BY <2>2, <2>3, <2>4 DEF Entries
  <2> QED BY <2>5 DEF r
<1> QED BY <1>1, <1>2

\* A journal once started is there as long as its session is looked at.
LEMMA RoutedInit == Init => Routed
<1> SUFFICES ASSUME Init PROVE Routed
  OBVIOUS
<1>1. FocusHasJournal
  BY DEF Init, FocusHasJournal
<1>2. Entries(opq) = {} /\ cur = None
  BY DEF Init, Entries
<1>3. DefaultFocus # None => HasJournal(DefaultFocus)
  <2> SUFFICES ASSUME DefaultFocus # None PROVE journals[DefaultFocus] # None
    BY DEF HasJournal
  <2>1. PICK seed \in Seeds : journals = [s \in Session |->
          IF s = DefaultFocus THEN create_journal(1, seed) ELSE None]
    BY DEF Init
  <2>2. journals[DefaultFocus] = create_journal(1, seed)
    BY <2>1, DefaultAssumption
  <2>3. create_journal(1, seed) \in Journal
    BY CreateJournalType
  <2> QED BY <2>2, <2>3, NoneAssumption
<1> QED BY <1>1, <1>2, <1>3 DEF Routed

LEMMA StartEpochHas ==
    ASSUME TypeOK, NEW s \in Session, NEW seed \in Seeds, StartEpoch(s, seed)
    PROVE  journals'[s] # None /\ \A x \in Session : HasJournal(x) => journals'[x] # None
<1>1. create_journal(epochCounter + 1, seed) \in Journal
  BY CreateJournalType DEF TypeOK
<1>2. journals' = [journals EXCEPT ![s] = create_journal(epochCounter + 1, seed)]
  BY DEF StartEpoch
<1> QED BY <1>1, <1>2, NoneAssumption DEF TypeOK, HasJournal

LEMMA IngestHas ==
    ASSUME TypeOK, NEW s \in Session, IngestNow(s)
    PROVE  \A x \in Session : HasJournal(x) => journals'[x] # None
<1>1. PICK ev \in Event, k \in Evictions(journals[s]) :
        journals' = [journals EXCEPT ![s] = append_event(journals[s], ev, k)]
  BY DEF IngestNow
<1>2. journals[s] \in Journal /\ k \in 0..Len(journals[s].tail) + 1
  BY DEF IngestNow, HasJournal, TypeOK, Evictions
<1>3. append_event(journals[s], ev, k) \in Journal
  BY <1>2, AppendEvent
<1> QED BY <1>1, <1>3, NoneAssumption DEF TypeOK, HasJournal

\* A step that loses no journal and no client, focuses clients that are there on
\* sessions that have a journal, and queues for clients that are there.
LEMMA RoutedKept ==
    ASSUME TypeOK, Routed, clients' = clients,
           \A x \in Session : HasJournal(x) => journals'[x] # None,
           \A c \in Client : \/ focus'[c] = focus[c] \/ focus'[c] = None
                             \/ c \in clients /\ journals'[focus'[c]] # None,
           \A op \in Entries(opq') : \/ op \in Entries(opq) \/ op.kind = "switchList"
                                     \/ AsksFrom(clients, op),
           cur' = cur \/ cur' = None \/ AsksFrom(clients, cur')
    PROVE  Routed'
<1>1. FocusHasJournal'
  <2> SUFFICES ASSUME NEW c \in Client, focus'[c] # None
               PROVE  c \in clients /\ journals'[focus'[c]] # None
    BY DEF FocusHasJournal, HasJournal
  <2>1. CASE focus'[c] = focus[c]
    <3>1. focus[c] \in Session /\ c \in clients /\ HasJournal(focus[c])
      BY <2>1 DEF Routed, FocusHasJournal, TypeOK
    <3> QED BY <2>1, <3>1
  <2> QED BY <2>1
<1>2. DefaultFocus # None => journals'[DefaultFocus] # None
  BY DefaultAssumption DEF Routed
<1> QED BY <1>1, <1>2 DEF Routed, HasJournal, AsksFrom

LEMMA RoutedDriver ==
    ASSUME TypeOK, Routed, NEW s \in Session, IngestNow(s) \/ SessionReset(s) \/ SessionClosed(s)
    PROVE  Routed'
<1>1. UNCHANGED <<focus, clients, opq, cur>>
  BY DEF IngestNow, SessionReset, SessionClosed, opVars, netVars
<1>2. CASE IngestNow(s)
  <2>1. \A x \in Session : HasJournal(x) => journals'[x] # None
    BY <1>2, IngestHas
  <2> QED BY <1>1, <2>1, RoutedKept
<1>3. CASE SessionReset(s)
  <2>1. \A x \in Session : HasJournal(x) => journals'[x] # None
    BY <1>3, StartEpochHas DEF SessionReset
  <2> QED BY <1>1, <2>1, RoutedKept
<1>4. CASE SessionClosed(s)
  <2>1. s # DefaultFocus /\ \A c \in clients : focus[c] # s
    BY <1>4 DEF SessionClosed, clients_focused
  <2>2. \A x \in Session : x # s => journals'[x] = journals[x]
    BY <1>4 DEF SessionClosed, TypeOK
  <2>3. FocusHasJournal'
    <3> SUFFICES ASSUME NEW c \in Client, focus[c] # None
                 PROVE  c \in clients /\ journals'[focus[c]] # None
      BY <1>1 DEF FocusHasJournal, HasJournal
    <3>1. focus[c] \in Session /\ c \in clients /\ HasJournal(focus[c])
      BY DEF Routed, FocusHasJournal, TypeOK
    <3> QED BY <2>1, <2>2, <3>1 DEF HasJournal
  <2>4. DefaultFocus # None => journals'[DefaultFocus] # None
    BY <2>1, <2>2, DefaultAssumption DEF Routed, HasJournal
  <2> QED BY <1>1, <2>3, <2>4 DEF Routed, HasJournal, AsksFrom
<1> QED BY <1>2, <1>3, <1>4

LEMMA RoutedConnection ==
    ASSUME TypeOK, Routed, NEW c \in Client, Connect(c) \/ Disconnect(c)
    PROVE  Routed'
<1>1. UNCHANGED hubVars /\ journals' = journals
  BY DEF Connect, Disconnect, hubVars
<1>2. opq \in Seq(Op)
  BY DEF TypeOK
<1>3. CASE Connect(c)
  <2> DEFINE o == [kind |-> "connectList", client |-> c, active |-> GreetFocus(store[c])]
  <2>1. /\ clients' = clients \cup {c} /\ focus' = [focus EXCEPT ![c] = GreetFocus(store[c])]
        /\ opq' = Append(opq, o) /\ cur' = cur
    BY <1>3 DEF Connect, enqueue
  <2>2. GreetFocus(store[c]) \in Session \cup {None}
    BY GreetingType
  <2>3. o \in Op /\ o.client = c
    BY <2>2, OpTypes
  <2> HIDE DEF o
  <2>4. Entries(opq') = Entries(opq) \cup {o}
    BY <1>2, <2>1, <2>3, QueueEntries
  <2>5. GreetFocus(store[c]) # None => HasJournal(GreetFocus(store[c]))
    BY DEF GreetFocus, Resumable, Routed
  <2>6. FocusHasJournal'
    <3> SUFFICES ASSUME NEW d \in Client, focus'[d] # None
                 PROVE  d \in clients' /\ journals[focus'[d]] # None
      BY <1>1 DEF FocusHasJournal, HasJournal
    <3>1. CASE d = c
      BY <2>1, <2>5, <3>1 DEF TypeOK, HasJournal
    <3>2. CASE d # c
      BY <2>1, <3>2 DEF TypeOK, HasJournal, Routed, FocusHasJournal
    <3> QED BY <3>1, <3>2
  <2>7. \A op \in Entries(opq') : op.kind = "switchList" \/ AsksFrom(clients', op)
    BY <2>1, <2>3, <2>4 DEF Routed, AsksFrom
  <2>8. cur' # None => AsksFrom(clients', cur')
    BY <2>1 DEF Routed, AsksFrom
  <2> QED BY <1>1, <2>6, <2>7, <2>8 DEF Routed, HasJournal
<1>4. CASE Disconnect(c)
  <2>1. /\ clients' = clients \ {c} /\ focus' = [focus EXCEPT ![c] = None]
        /\ opq' = [i \in 1..Len(opq) |-> Orphan(opq[i], {c})]
        /\ cur' = IF cur # None /\ cur.client = c THEN [cur EXCEPT !.client = None] ELSE cur
    BY <1>4 DEF Disconnect
  <2>2. FocusHasJournal'
    BY <1>1, <2>1 DEF FocusHasJournal, HasJournal, Routed, TypeOK
  <2>3. ASSUME NEW op \in Entries(opq')
        PROVE  op.kind = "switchList" \/ AsksFrom(clients', op)
    <3>1. Len(opq) \in Nat /\ opq' \in [1..Len(opq) -> Op]
      BY <1>2, <2>1, OrphanType
    <3>2. Len(opq') = Len(opq)
      BY <3>1, FunIsSeq
    <3>3. PICK i \in 1..Len(opq) : op = Orphan(opq[i], {c})
      BY <2>1, <3>2 DEF Entries
    <3>4. opq[i] \in Op /\ opq[i] \in Entries(opq)
      BY <1>2, <3>3 DEF Entries
    <3> DEFINE o == opq[i]
    <3>5. o.kind = "switchList" \/ AsksFrom(clients, o)
      BY <3>4 DEF Routed
    <3> HIDE DEF o
    <3>6. op = IF o.kind # "switchList" /\ o.client = c THEN [o EXCEPT !.client = None] ELSE o
      BY <3>3 DEF Orphan, o
    <3>7. CASE o.kind # "switchList" /\ o.client = c
      <4>1. op.client = None
        BY <3>4, <3>6, <3>7 DEF Op, SwitchOp, ListOp, o
      <4> QED BY <4>1 DEF AsksFrom
    <3>8. CASE ~(o.kind # "switchList" /\ o.client = c)
      BY <2>1, <3>5, <3>6, <3>8 DEF AsksFrom
    <3> QED BY <3>7, <3>8
  <2>4. ASSUME cur' # None
        PROVE  AsksFrom(clients', cur')
    <3>1. CASE cur # None /\ cur.client = c
      <4>1. cur \in Switch /\ cur' = [cur EXCEPT !.client = None]
        BY <2>1, <3>1 DEF TypeOK
      <4>2. cur'.client = None
        BY <4>1 DEF Switch
      <4> QED BY <4>2 DEF AsksFrom
    <3>2. CASE ~(cur # None /\ cur.client = c)
      BY <2>1, <2>4, <3>2 DEF Routed, AsksFrom
    <3> QED BY <3>1, <3>2
  <2> QED BY <1>1, <2>2, <2>3, <2>4 DEF Routed, HasJournal
<1> QED BY <1>3, <1>4

LEMMA RoutedRestart ==
    ASSUME TypeOK, Restart
    PROVE  Routed'
<1>1. clients' = {} /\ focus' = [c \in Client |-> None] /\ opq' = <<>> /\ cur' = None
  BY DEF Restart
<1>2. ASSUME DefaultFocus # None PROVE journals'[DefaultFocus] # None
  <2>1. PICK seed \in Seeds : journals' = [s \in Session |->
          IF s = DefaultFocus THEN create_journal(epochCounter', seed) ELSE None]
    BY <1>2 DEF Restart
  <2>2. epochCounter' \in Nat
    BY <1>2 DEF Restart, TypeOK
  <2>3. create_journal(epochCounter', seed) \in Journal
    BY <2>2, CreateJournalType
  <2>4. journals'[DefaultFocus] = create_journal(epochCounter', seed)
    BY <1>2, <2>1, DefaultAssumption
  <2> QED BY <2>3, <2>4, NoneAssumption
<1>3. Entries(opq') = {}
  BY <1>1 DEF Entries
<1>4. FocusHasJournal'
  BY <1>1 DEF FocusHasJournal
<1> QED BY <1>1, <1>2, <1>3, <1>4 DEF Routed, HasJournal

LEMMA RoutedClients ==
    ASSUME TypeOK, Routed, NEW c \in Client,
           TabReceives(c) \/ HubHandles(c) \/ \E s \in Session : UserOpen(c, s) \/ UserReload(c, s)
    PROVE  Routed'
<1>1. UNCHANGED <<hubVars, focus, clients, cur>>
  BY DEF TabReceives, OnHello, OnSeed, OnEvent, OnSessionList, Receives, HubHandles,
         HandleRequestSeed, HandleSwitch, Handles, UserOpen, UserReload, opVars
<1>2. /\ journals' = journals /\ focus' = focus /\ clients' = clients /\ cur' = cur
      /\ \A x \in Session : HasJournal(x) => journals'[x] # None
  BY <1>1 DEF hubVars, HasJournal
<1>3. CASE opq' = opq
  BY <1>2, <1>3, RoutedKept
<1>4. CASE HandleSwitch(c)
  <2>1. PICK o : /\ o = [kind |-> "switch", client |-> c, sid |-> Head(up[c]).sid,
                         reseed |-> Head(up[c]).type = "reloadSession"]
                 /\ opq' = Append(opq, o)
    BY <1>4 DEF HandleSwitch, enqueue
  <2>2. c \in clients
    BY <1>4 DEF HandleSwitch, Handles
  <2>3. o \in Op
    <3>1. up[c] \in Seq(ClientMsg) /\ up[c] # <<>>
      BY <1>4 DEF HandleSwitch, Handles, TypeOK
    <3>2. Head(up[c]) \in ClientMsg
      BY <3>1
    <3>3. Head(up[c]).sid \in Session
      BY <1>4, <3>2 DEF HandleSwitch, Handles, ClientMsg
    <3> QED BY <2>1, <3>3, OpTypes DEF SwitchOp
  <2>4. Entries(opq') = Entries(opq) \cup {o}
    BY <2>1, <2>3, QueueEntries DEF TypeOK
  <2>5. AsksFrom(clients, o)
    BY <2>1, <2>2 DEF AsksFrom
  <2> QED BY <1>2, <2>4, <2>5, RoutedKept
<1>5. opq' = opq \/ HandleSwitch(c)
  BY DEF TabReceives, OnHello, OnSeed, OnEvent, OnSessionList, Receives, HubHandles,
         HandleRequestSeed, UserOpen, UserReload, opVars
<1> QED BY <1>3, <1>4, <1>5

LEMMA RoutedApplier ==
    ASSUME TypeOK, Routed, Applier
    PROVE  Routed'
<1>1. clients' = clients /\ opq \in Seq(Op)
  BY DEF Applier, StartSwitch, FailSwitch, FinishSwitch, BuildReseed, SendReseed,
         RunConnectList, RunSwitchList, netVars, TypeOK
<1>2. CASE ~FinishSwitch
  <2>1. journals' = journals /\ focus' = focus
    BY <1>2 DEF Applier, StartSwitch, FailSwitch, BuildReseed, SendReseed,
                RunConnectList, RunSwitchList, hubVars
  <2>2. ASSUME NEW op \in Entries(opq')
        PROVE  op \in Entries(opq) \/ op.kind = "switchList"
    <3>1. \/ opq' = opq \/ opq' = Append(opq, [kind |-> "switchList"])
          \/ opq # <<>> /\ opq' = Tail(opq)
      BY <1>2 DEF Applier, StartSwitch, FailSwitch, BuildReseed, SendReseed,
                  RunConnectList, RunSwitchList, enqueue
    <3>2. CASE opq' = Append(opq, [kind |-> "switchList"])
      BY <1>1, <2>2, <3>2, QueueEntries, OpTypes
    <3>3. CASE opq # <<>> /\ opq' = Tail(opq)
      BY <1>1, <2>2, <3>3, QueueEntries
    <3> QED BY <2>2, <3>1, <3>2, <3>3
  <2>3. cur' = cur \/ cur' = None \/ AsksFrom(clients, cur')
    <3>1. CASE StartSwitch
      <4>1. Head(opq) \in Entries(opq) /\ Head(opq).kind = "switch" /\ cur'.client = Head(opq).client
        BY <1>1, <3>1, QueueEntries DEF StartSwitch
      <4> QED BY <4>1 DEF Routed, AsksFrom
    <3>2. CASE BuildReseed
      BY <3>2 DEF BuildReseed, Routed, AsksFrom
    <3>3. CASE ~StartSwitch /\ ~BuildReseed
      BY <1>2, <3>3 DEF Applier, FailSwitch, SendReseed, RunConnectList, RunSwitchList
    <3> QED BY <3>1, <3>2, <3>3
  <2>4. \A x \in Session : HasJournal(x) => journals'[x] # None
    BY <2>1 DEF HasJournal
  <2> QED BY <1>1, <2>1, <2>2, <2>3, <2>4, RoutedKept
<1>3. CASE FinishSwitch
  <2>1. cur \in Switch \cup {None} /\ cur # None /\ cur.phase = "fetching"
    BY <1>3 DEF FinishSwitch, TypeOK
  <2>2. cur.client \in Client \cup {None} /\ cur.sid \in Session /\ AsksFrom(clients, cur)
    BY <2>1, SwitchTypes DEF Routed
  <2>3. /\ \A x \in Session : HasJournal(x) => journals'[x] # None
        /\ journals'[cur.sid] # None
    <3>1. CASE \E seed \in Seeds : StartEpoch(cur.sid, seed)
      BY <2>2, <3>1, StartEpochHas
    <3>2. CASE ~cur.reseed /\ HasJournal(cur.sid) /\ UNCHANGED hubVars
      BY <3>2 DEF HasJournal, hubVars
    <3> QED BY <1>3, <3>1, <3>2 DEF FinishSwitch
  <2>4. ASSUME NEW c \in Client
        PROVE  focus'[c] = focus[c] \/ (c \in clients /\ journals'[focus'[c]] # None)
    <3>1. CASE cur.client = None
      BY <1>3, <3>1 DEF FinishSwitch
    <3>2. CASE cur.client # None
      <4>1. PICK d, s : d = cur.client /\ s = cur.sid
        OBVIOUS
      <4>2. focus' = [focus EXCEPT ![d] = s]
        BY <1>3, <3>2, <4>1 DEF FinishSwitch
      <4>3. d \in clients /\ journals'[s] # None
        BY <2>2, <2>3, <3>2, <4>1 DEF AsksFrom
      <4> QED BY <4>2, <4>3 DEF TypeOK
    <3> QED BY <3>1, <3>2
  <2>5. ASSUME NEW op \in Entries(opq')
        PROVE  op \in Entries(opq) \/ op.kind = "switchList"
    <3>1. opq' = opq \/ opq' = Append(opq, [kind |-> "switchList"])
      BY <1>3 DEF FinishSwitch, enqueue
    <3>2. CASE opq' = Append(opq, [kind |-> "switchList"])
      BY <1>1, <2>5, <3>2, QueueEntries, OpTypes
    <3> QED BY <2>5, <3>1, <3>2
  <2>6. cur' = None \/ AsksFrom(clients, cur')
    <3>1. cur' = None \/ cur' = [cur EXCEPT !.phase = "switched"]
      BY <1>3 DEF FinishSwitch
    <3>2. [cur EXCEPT !.phase = "switched"].client = cur.client
      BY <2>1 DEF Switch
    <3> QED BY <2>2, <3>1, <3>2 DEF AsksFrom
  <2> QED BY <1>1, <2>3, <2>4, <2>5, <2>6, RoutedKept
<1> QED BY <1>2, <1>3

LEMMA RoutedStep == TypeOK /\ Routed /\ [Next]_vars => Routed'
<1> SUFFICES ASSUME TypeOK, Routed, [Next]_vars PROVE Routed'
  OBVIOUS
<1>1. CASE UNCHANGED vars
  <2>1. UNCHANGED <<journals, focus, clients, opq, cur>>
    BY <1>1 DEF vars, hubVars, netVars, opVars
  <2> QED BY <2>1 DEF Routed, FocusHasJournal, HasJournal, AsksFrom, Entries
<1>2. CASE Next
  BY <1>2, RoutedDriver, RoutedConnection, RoutedRestart, RoutedClients, RoutedApplier DEF Next
<1> QED BY <1>1, <1>2

\* A client the hub routes events to always has a journal behind its focus, whatever
\* sessions are closed, switched to or reset and whoever connects or leaves.
THEOREM FocusCorrect == Spec => []FocusHasJournal
<1>1. Init => TypeOK /\ Routed
  BY TypeInit, RoutedInit
<1>2. TypeOK /\ Routed /\ [Next]_vars => TypeOK' /\ Routed'
  BY TypeStep, RoutedStep
<1>3. Routed => FocusHasJournal
  BY DEF Routed
<1> QED BY <1>1, <1>2, <1>3, PTL DEF Spec

-----------------------------------------------------------------------------
(* A tab's watermark never runs backwards *)

\* The reseed of a session's viewers that was built before the journal moved on:
\* the one message that is older than what its receivers were sent before it.
LateReseed ==
    /\ SendReseed
    /\ clients_focused(cur.msg.sid) \ {cur.client} # {}
    /\ cur.msg # seed_msg(journals, cur.msg.sid)

\* Stamp <<e, n>> is one the history h has given out, or the landing's.
Known(h, e, n) ==
    \/ e = 0 /\ n = 0
    \/ e \in 1..Len(h) /\ n \in Nat /\ h[e].base + n <= Len(h[e].events)

\* If m is a seed, it does not take a tab at stamp <<e, n>> back.
NotBefore(e, n, m) == m.type = "seed" /\ m.epoch = e => n <= m.seq

Stamped(m) == m.type \in {"seed", "event"}

\* No seed in the channel is behind the tab, or behind a message before it.
NoSetback(st, q) ==
    /\ \A j \in 1..Len(q) : NotBefore(st.epoch, st.seq, q[j])
    /\ \A i, j \in 1..Len(q) : i < j /\ Stamped(q[i]) => NotBefore(q[i].epoch, q[i].seq, q[j])

Steady == \A c \in Client : NoSetback(store[c], chan[c])

\* r is q with m behind it; r is q cut short.
Longer(r, q, m) ==
    Len(r) = Len(q) + 1 /\ r[Len(q) + 1] = m /\ \A i \in 1..Len(q) : r[i] = q[i]

Cut(r, q) == Len(r) <= Len(q) /\ \A i \in 1..Len(r) : r[i] = q[i]

\* One message offered to a channel gets in behind the others, or the channel is full.
LEMMA TrySendOne ==
    ASSUME NEW M, NEW q \in Seq(M), NEW msg \in M
    PROVE  /\ try_send(q, <<msg>>) \in Seq(M)
           /\ \/ Longer(try_send(q, <<msg>>), q, msg)
              \/ ChanCap <= Len(try_send(q, <<msg>>)) /\ Cut(try_send(q, <<msg>>), q)
<1> DEFINE one == <<msg>>
           all == q \o one
           r == try_send(q, one)
<1>1. one \in Seq(M) /\ Len(one) = 1 /\ one[1] = msg
  OBVIOUS
<1> HIDE DEF one
<1>2. /\ all \in Seq(M) /\ Len(all) = Len(q) + 1 /\ Len(q) \in Nat
      /\ (\A i \in 1..Len(q) : all[i] = q[i]) /\ all[Len(q) + 1] = msg
  <2>1. all \in Seq(M) /\ Len(all) = Len(q) + 1 /\ Len(q) \in Nat
    <3>1. all \in Seq(M) /\ Len(all) = Len(q) + Len(one)
      BY <1>1, ConcatProperties
    <3>2. Len(q) \in Nat
      OBVIOUS
    <3> HIDE DEF all
    <3> QED BY <1>1, <3>1, <3>2
  <2>2. \A i \in 1..Len(q) : all[i] = q[i]
    BY <1>1, ConcatProperties
  <2>3. all[Len(q) + 1] = msg
    <3>1. all[Len(q) + 1] = one[Len(q) + 1 - Len(q)]
      BY <1>1, <2>1, ConcatProperties
    <3>2. Len(q) + 1 - Len(q) = 1
      BY <2>1
    <3> QED BY <1>1, <3>1, <3>2
  <2> QED BY <2>1, <2>2, <2>3
<1>3. r = IF Len(all) <= ChanCap THEN all ELSE SubSeq(all, 1, ChanCap)
  BY DEF try_send
<1> HIDE DEF all, r
<1>4. CASE Len(all) <= ChanCap
  <2>1. r \in Seq(M) /\ Longer(r, q, msg)
    BY <1>2, <1>3, <1>4 DEF Longer
  <2> QED BY <2>1 DEF r, one
<1>5. CASE ~(Len(all) <= ChanCap)
  <2>1. ChanCap \in 1..Len(q)
    BY <1>2, <1>5, CapAssumption
  <2>2. \A i \in 1..ChanCap : all[i] \in M
    BY <1>2, <2>1
  <2>3. /\ SubSeq(all, 1, ChanCap) \in Seq(M) /\ Len(SubSeq(all, 1, ChanCap)) = ChanCap
        /\ \A i \in 1..ChanCap : SubSeq(all, 1, ChanCap)[i] = all[i]
    BY <1>2, <2>1, <2>2
  <2>4. r \in Seq(M) /\ ChanCap <= Len(r) /\ Cut(r, q)
    BY <1>2, <1>3, <1>5, <2>1, <2>3 DEF Cut
  <2> QED BY <2>4 DEF r, one
<1> QED BY <1>4, <1>5

\* A journal's seed is at the newest stamp of its epoch.
LEMMA NewestSeed ==
    ASSUME NEW h \in Seq(Epoch), NEW js \in [Session -> Journal \cup {None}],
           \A x \in Session : js[x] # None => JournalTruthful(h, x, js[x]),
           NEW s \in Session \cup {None}, NEW e, NEW n, Known(h, e, n)
    PROVE  NotBefore(e, n, seed_msg(js, s))
<1> SUFFICES ASSUME seed_msg(js, s).epoch = e PROVE n <= seed_msg(js, s).seq
  BY DEF NotBefore
<1>1. CASE s # None /\ js[s] # None
  <2>1. PICK j \in Journal : j = js[s] /\ JournalTruthful(h, s, j)
    BY <1>1
  <2>2. seed_msg(js, s).seq = j.seq /\ e = j.epoch
    BY <1>1, <2>1 DEF seed_msg
  <2>3. e \in 1..Len(h) /\ h[e].base + j.seq = Len(h[e].events) /\ j.seq \in Nat
    BY <2>1, <2>2 DEF JournalTruthful, Journal
  <2>4. h[e] \in Epoch
    BY <2>3
  <2>5. h[e].base \in Nat /\ n \in Nat /\ h[e].base + n <= Len(h[e].events)
    BY <2>3, <2>4 DEF Known, Epoch
  <2> QED
    <3> DEFINE b == h[e].base
               l == Len(h[e].events)
    <3>1. b \in Nat /\ n \in Nat /\ j.seq \in Nat /\ b + n <= l /\ b + j.seq = l
      BY <2>3, <2>5
    <3> HIDE DEF b, l
    <3>2. n <= j.seq
      BY <3>1
    <3> QED BY <2>2, <3>2
<1>2. CASE ~(s # None /\ js[s] # None)
  <2>1. seed_msg(js, s).epoch = 0 /\ seed_msg(js, s).seq = 0
    BY <1>2 DEF seed_msg
  <2> QED BY <2>1 DEF Known
<1> QED BY <1>1, <1>2

\* What is truthful has a known stamp.
LEMMA TruthfulKnown ==
    ASSUME NEW h \in Seq(Epoch), NEW s, NEW e, NEW n \in Nat, NEW es \in Seq(Event),
           Truthful(h, s, e, n, es)
    PROVE  Known(h, e, n)
BY DEF Truthful, Known

LEMMA StampKnown ==
    ASSUME NEW h \in Seq(Epoch), NEW m \in ServerMsg, MsgTruthful(h, m), Stamped(m)
    PROVE  Known(h, m.epoch, m.seq)
<1>1. CASE m.type = "seed"
  <2>1. m.seq \in Nat /\ m.events \in Seq(Event)
    BY <1>1, MsgTypes DEF SeedMsg
  <2> QED BY <1>1, <2>1, TruthfulKnown DEF MsgTruthful
<1>2. CASE m.type = "event"
  <2> DEFINE H == h[m.epoch]
  <2>1. /\ m.epoch \in 1..Len(h) /\ m.seq \in 1..Len(H.events) - H.base /\ m.seq \in Nat
    BY <1>2, MsgTypes DEF MsgTruthful, EventMsg
  <2>2. H \in Epoch
    BY <2>1
  <2> HIDE DEF H
  <2>3. H.base \in Nat /\ Len(H.events) \in Nat
    BY <2>2 DEF Epoch
  <2>4. H.base + m.seq <= Len(H.events)
    <3> DEFINE b == H.base
               l == Len(H.events)
               n == m.seq
    <3>1. b \in Nat /\ l \in Nat /\ n \in 1..l - b
      BY <2>1, <2>3
    <3> HIDE DEF b, l, n
    <3>2. b + n <= l
      BY <3>1
    <3> QED BY <3>2 DEF b, l, n
  <2> QED BY <2>1, <2>4 DEF Known, H
<1> QED BY <1>1, <1>2 DEF Stamped

LEMMA NoSetbackSend ==
    ASSUME NEW st, NEW q \in Seq(ServerMsg), NoSetback(st, q), NEW msg \in ServerMsg,
           NotBefore(st.epoch, st.seq, msg),
           \A i \in 1..Len(q) : Stamped(q[i]) => NotBefore(q[i].epoch, q[i].seq, msg)
    PROVE  NoSetback(st, try_send(q, <<msg>>))
<1> DEFINE r == try_send(q, <<msg>>)
<1>2. r \in Seq(ServerMsg) /\ (Longer(r, q, msg) \/ Cut(r, q))
  BY TrySendOne
<1> HIDE DEF r
<1>3. Len(q) \in Nat /\ Len(r) \in Nat
  BY <1>2
<1>4. CASE Cut(r, q)
  <2>1. \A i \in 1..Len(r) : i \in 1..Len(q) /\ r[i] = q[i]
    BY <1>3, <1>4 DEF Cut
  <2>2. NoSetback(st, r)
    BY <2>1 DEF NoSetback
  <2> QED BY <2>2 DEF r
<1>5. CASE Longer(r, q, msg)
  <2>1. /\ Len(r) = Len(q) + 1 /\ r[Len(q) + 1] = msg
        /\ \A i \in 1..Len(q) : r[i] = q[i]
    BY <1>5 DEF Longer
  <2>2. \A i \in 1..Len(r) : i \in 1..Len(q) \/ i = Len(q) + 1
    BY <1>3, <2>1
  <2>3. \A i, j \in 1..Len(r) : i < j => i \in 1..Len(q)
    BY <1>3, <2>1
  <2>4. ASSUME NEW j \in 1..Len(r)
        PROVE  NotBefore(st.epoch, st.seq, r[j])
    BY <2>1, <2>2 DEF NoSetback
  <2>5. ASSUME NEW i \in 1..Len(r), NEW j \in 1..Len(r), i < j, Stamped(r[i])
        PROVE  NotBefore(r[i].epoch, r[i].seq, r[j])
    <3>1. i \in 1..Len(q) /\ r[i] = q[i]
      BY <2>1, <2>3, <2>5
    <3> QED BY <2>1, <2>2, <2>5, <3>1 DEF NoSetback
  <2>6. NoSetback(st, r)
    BY <2>4, <2>5 DEF NoSetback
  <2> QED BY <2>6 DEF r
<1> QED BY <1>2, <1>4, <1>5

\* A message that the journals js make now: no seed, or the seed of a session.
Fresh(js, msg) == msg.type # "seed" \/ \E s \in Session \cup {None} : msg = seed_msg(js, s)

\* A step in which tabs receive nothing and every channel is kept, cleared, or
\* offered one fresh message.
LEMMA SteadySend ==
    ASSUME Inv, Inv', Steady, store' = store, Grows(hist, hist'),
           \A c \in Client :
              \/ chan'[c] = chan[c] \/ chan'[c] = <<>>
              \/ \E msg \in ServerMsg : chan'[c] = try_send(chan[c], <<msg>>) /\ Fresh(journals', msg)
    PROVE  Steady'
<1> SUFFICES ASSUME NEW c \in Client PROVE NoSetback(store[c], chan'[c])
  BY DEF Steady
<1>1. NoSetback(store[c], chan[c]) /\ chan[c] \in Seq(ServerMsg)
  BY DEF Steady, Inv, TypeOK
<1>2. CASE chan'[c] = <<>>
  BY <1>2 DEF NoSetback
<1>3. ASSUME NEW msg \in ServerMsg, chan'[c] = try_send(chan[c], <<msg>>), Fresh(journals', msg)
      PROVE  NoSetback(store[c], chan'[c])
  <2>1. /\ hist \in Seq(Epoch) /\ hist' \in Seq(Epoch)
        /\ journals' \in [Session -> Journal \cup {None}]
        /\ \A x \in Session : journals'[x] # None => JournalTruthful(hist', x, journals'[x])
    BY DEF Inv, TypeOK, JournalsTruthful, HasJournal
  <2>2. ASSUME NEW e, NEW n, Known(hist', e, n)
        PROVE  NotBefore(e, n, msg)
    <3>1. CASE msg.type # "seed"
      BY <3>1 DEF NotBefore
    <3>2. ASSUME NEW s \in Session \cup {None}, msg = seed_msg(journals', s)
          PROVE  NotBefore(e, n, msg)
      <4>1. NotBefore(e, n, seed_msg(journals', s))
        BY <2>1, <2>2, NewestSeed
      <4> QED BY <3>2, <4>1
    <3> QED BY <1>3, <3>1, <3>2 DEF Fresh
  <2>3. Known(hist', store[c].epoch, store[c].seq)
    <3>1. store'[c] \in Store
          /\ Truthful(hist', store'[c].sid, store'[c].epoch, store'[c].seq, store'[c].view)
      BY DEF Inv, TypeOK, ViewIsPrefix
    <3>2. store[c].seq \in Nat /\ store[c].view \in Seq(Event)
      BY <3>1 DEF Store
    <3> QED BY <2>1, <3>1, <3>2, TruthfulKnown
  <2>4. ASSUME NEW i \in 1..Len(chan[c]), Stamped(chan[c][i])
        PROVE  Known(hist', chan[c][i].epoch, chan[c][i].seq)
    <3> DEFINE m == chan[c][i]
    <3>1. m \in ServerMsg /\ m \in Entries(chan[c])
      BY <1>1 DEF Entries
    <3>2. MsgTruthful(hist, m)
      BY <3>1 DEF Inv, InFlightTruthful
    <3> HIDE DEF m
    <3>3. MsgTruthful(hist', m)
      BY <2>1, <3>1, <3>2, MsgTruthfulGrows
    <3> QED BY <2>1, <2>4, <3>1, <3>3, StampKnown DEF m
  <2>5. NoSetback(store[c], try_send(chan[c], <<msg>>))
    BY <1>1, <2>2, <2>3, <2>4, NoSetbackSend
  <2> QED BY <1>3, <2>5
<1> QED BY <1>1, <1>2, <1>3

\* The seed a step pushes is fresh.
LEMMA FreshSeed ==
    ASSUME TypeOK', NEW s \in Session \cup {None}
    PROVE  seed_msg(journals', s) \in ServerMsg /\ Fresh(journals', seed_msg(journals', s))
<1>1. seed_msg(journals', s) \in ServerMsg
  BY SeedMsgType, MsgTypes DEF TypeOK
<1> QED BY <1>1 DEF Fresh

\* Push sends one message to some clients.
LEMMA PushSends ==
    ASSUME NEW to, NEW msg, NEW c \in Client
    PROVE  Push(to, msg)[c] = chan[c] \/ Push(to, msg)[c] = try_send(chan[c], <<msg>>)
BY DEF Push

LEMMA SteadyPush ==
    ASSUME Inv, Inv', Steady, store' = store, Grows(hist, hist'),
           NEW to, NEW msg \in ServerMsg, Fresh(journals', msg), chan' = Push(to, msg)
    PROVE  Steady'
<1>1. \A c \in Client : chan'[c] = chan[c] \/ chan'[c] = try_send(chan[c], <<msg>>)
  BY PushSends
<1> QED BY <1>1, SteadySend

LEMMA SteadyDriver ==
    ASSUME Inv, Inv', Steady, NEW s \in Session,
           IngestNow(s) \/ SessionReset(s) \/ SessionClosed(s)
    PROVE  Steady'
<1>1. CASE IngestNow(s)
  <2>1. PICK ev \in Event, k \in Evictions(journals[s]) :
          chan' = Push(clients_focused(s),
                       [type |-> "event", epoch |-> append_event(journals[s], ev, k).epoch,
                        seq |-> append_event(journals[s], ev, k).seq, ev |-> ev])
    BY <1>1 DEF IngestNow
  <2>2. journals[s] \in Journal /\ k \in 0..Len(journals[s].tail) + 1
    BY <1>1 DEF IngestNow, HasJournal, Inv, TypeOK, Evictions
  <2>3. append_event(journals[s], ev, k) \in Journal
    BY <2>2, AppendEvent
  <2> DEFINE msg == [type |-> "event", epoch |-> append_event(journals[s], ev, k).epoch,
                     seq |-> append_event(journals[s], ev, k).seq, ev |-> ev]
  <2>4. msg \in ServerMsg
    BY <2>3, MsgTypes DEF EventMsg, Journal
  <2>5. msg.type # "seed"
    OBVIOUS
  <2> HIDE DEF msg
  <2>6. Fresh(journals', msg)
    BY <2>5 DEF Fresh
  <2>7. Grows(hist, hist') /\ store' = store
    BY <1>1, InvIngest DEF Inv, IngestNow
  <2>8. chan' = Push(clients_focused(s), msg)
    BY <2>1 DEF msg
  <2> QED BY <2>4, <2>6, <2>7, <2>8, SteadyPush
<1>2. CASE SessionReset(s)
  <2>1. Grows(hist, hist')
    BY <1>2, StartEpochTruth DEF SessionReset
  <2>2. seed_msg(journals', s) \in ServerMsg /\ Fresh(journals', seed_msg(journals', s))
    BY FreshSeed DEF Inv
  <2>3. chan' = Push(clients_focused(s), seed_msg(journals', s)) /\ store' = store
    BY <1>2 DEF SessionReset
  <2> QED BY <2>1, <2>2, <2>3, SteadyPush
<1>3. CASE SessionClosed(s)
  BY <1>3 DEF SessionClosed, netVars, Steady
<1> QED BY <1>1, <1>2, <1>3

\* A greeting takes no tab back: what is replayed is no seed, and a seed is new.
LEMMA SteadyConnect ==
    ASSUME Inv, Steady, NEW c \in Client, Connect(c)
    PROVE  Steady'
<1> DEFINE hello == <<[type |-> "hello"]>>
           greet == Greeting(store[c])
<1>1. /\ chan' = [chan EXCEPT ![c] = try_send(hello, greet)] /\ store' = store
  BY DEF Connect
<1>2. greet \in Seq(ServerMsg)
  BY GreetingType DEF Inv
<1>3. hello \in Seq(ServerMsg) /\ Len(hello) = 1 /\ hello[1].type = "hello"
  <2>1. [type |-> "hello"] \in ServerMsg
    BY MsgTypes DEF HelloMsg
  <2> QED BY <2>1
<1> HIDE DEF hello
<1>4. NoSetback(store[c], try_send(hello, greet))
  <2>1. store[c] \in Store /\ store[c].sid \in Session \cup {None} /\ store[c].seq \in Nat
        /\ store[c].view \in Seq(Event)
    BY DEF Inv, TypeOK, Store
  <2>2. CASE Resumable(store[c])
    <3>1. store[c].sid \in Session /\ journals[store[c].sid] \in Journal
          /\ greet = Replay(journals[store[c].sid], store[c].seq)
      BY <2>1, <2>2 DEF Resumable, HasToken, HasJournal, Greeting, Inv, TypeOK
    <3>2. Replay(journals[store[c].sid], store[c].seq) \in Seq(EventMsg)
      BY <2>1, <3>1, ReplayFrames
    <3> HIDE DEF greet
    <3>3. /\ try_send(hello, greet) \in Seq(ServerMsg)
          /\ Entries(try_send(hello, greet)) \subseteq Entries(hello) \cup Entries(greet)
      BY <1>2, <1>3, TrySend
    <3>4. \A m \in Entries(hello) \cup Entries(greet) : m.type # "seed"
      <4>1. \A m \in Entries(greet) : m \in EventMsg
        BY <3>1, <3>2 DEF Entries
      <4>2. \A m \in Entries(hello) : m = hello[1]
        BY <1>3 DEF Entries
      <4> QED BY <1>3, <4>1, <4>2 DEF EventMsg
    <3> DEFINE r == try_send(hello, greet)
    <3>5. \A i \in 1..Len(r) : r[i].type # "seed"
      <4>1. \A i \in 1..Len(r) : r[i] \in Entries(r)
        BY DEF Entries
      <4> QED BY <3>3, <3>4, <4>1
    <3> HIDE DEF r
    <3>6. NoSetback(store[c], r)
      BY <3>5 DEF NoSetback, NotBefore
    <3> QED BY <3>6 DEF r
  <2>3. CASE ~Resumable(store[c])
    <3>1. PICK s \in Session \cup {None} : greet = <<seed_msg(journals, s)>>
      BY <2>1, <2>3, DefaultAssumption DEF Greeting
    <3>2. /\ hist \in Seq(Epoch) /\ journals \in [Session -> Journal \cup {None}]
          /\ \A x \in Session : journals[x] # None => JournalTruthful(hist, x, journals[x])
      BY DEF Inv, TypeOK, JournalsTruthful, HasJournal
    <3>3. Known(hist, store[c].epoch, store[c].seq)
      BY <2>1, <3>2, TruthfulKnown DEF Inv, ViewIsPrefix
    <3>4. NotBefore(store[c].epoch, store[c].seq, seed_msg(journals, s))
      BY <3>2, <3>3, NewestSeed
    <3>5. \A i \in 1..Len(hello) : hello[i].type = "hello"
      BY <1>3
    <3>6. NoSetback(store[c], hello)
      BY <3>5 DEF NoSetback, NotBefore
    <3>7. seed_msg(journals, s) \in ServerMsg
      BY <3>2, SeedMsgType, MsgTypes
    <3>8. NoSetback(store[c], try_send(hello, <<seed_msg(journals, s)>>))
      BY <1>3, <3>4, <3>5, <3>6, <3>7, NoSetbackSend DEF Stamped
    <3> QED BY <3>1, <3>8
  <2> QED BY <2>2, <2>3
<1> QED BY <1>1, <1>4 DEF Steady, Inv, TypeOK

\* Where a tab is, and where a message takes it.
Mark(st) == [sid |-> st.sid, epoch |-> st.epoch, seq |-> st.seq]

After(w, m) ==
    IF m.type = "seed" THEN [sid |-> m.sid, epoch |-> m.epoch, seq |-> m.seq]
    ELSE IF m.type = "event" /\ m.epoch = w.epoch /\ m.seq = w.seq + 1
    THEN [sid |-> w.sid, epoch |-> w.epoch, seq |-> m.seq]
    ELSE w

\* The tab takes the step that its oldest message asks for, and no other.
LEMMA MarkStep ==
    ASSUME TypeOK, TypeOK', NEW c \in Client, TabReceives(c)
    PROVE  /\ Mark(store'[c]) = After(Mark(store[c]), Head(chan[c]))
           /\ chan[c] \in Seq(ServerMsg) /\ chan[c] # <<>> /\ Head(chan[c]) \in ServerMsg
           /\ chan' = [chan EXCEPT ![c] = Tail(@)]
           /\ \A d \in Client : d # c => store'[d] = store[d]
           /\ UNCHANGED <<hubVars, focus, clients, opVars>>
<1>1. PICK type : Receives(c, type)
  BY DEF TabReceives, OnHello, OnSeed, OnEvent, OnSessionList
<1>2. /\ chan[c] \in Seq(ServerMsg) /\ chan[c] # <<>> /\ Head(chan[c]) \in ServerMsg
      /\ chan' = [chan EXCEPT ![c] = Tail(@)]
      /\ UNCHANGED <<hubVars, focus, clients, opVars>>
  <2>1. chan[c] \in Seq(ServerMsg) /\ chan[c] # <<>>
    BY <1>1 DEF Receives, TypeOK
  <2> QED BY <1>1, <2>1 DEF Receives
<1>3. \A d \in Client : d # c => store'[d] = store[d]
  BY DEF TabReceives, OnHello, OnSeed, OnEvent, OnSessionList, TypeOK
<1>4. PICK m : m = Head(chan[c])
  OBVIOUS
<1>5. store[c] \in Store /\ store'[c] \in Store
  BY DEF TypeOK
<1>6. Mark(store'[c]) = After(Mark(store[c]), m)
  <2> DEFINE st == store[c]
             nst == store'[c]
             Stays == nst.sid = st.sid /\ nst.epoch = st.epoch /\ nst.seq = st.seq
  <2>1. CASE OnHello(c) \/ OnSessionList(c)
    <3>1. Stays
      <4>1. CASE OnHello(c)
        BY <4>1 DEF OnHello, TypeOK, Store
      <4>2. CASE OnSessionList(c)
        BY <4>2 DEF OnSessionList, TypeOK, Store
      <4> QED BY <2>1, <4>1, <4>2
    <3>2. m.type # "seed" /\ m.type # "event"
      BY <1>4, <2>1 DEF OnHello, OnSessionList, Receives
    <3> QED BY <3>1, <3>2 DEF Mark, After
  <2>2. CASE OnSeed(c)
    <3>1. /\ store' = [store EXCEPT ![c].sid = m.sid, ![c].epoch = m.epoch, ![c].seq = m.seq,
                                    ![c].view = m.events, ![c].requested = FALSE]
          /\ m.type = "seed"
      BY <1>4, <2>2 DEF OnSeed, Receives
    <3>2. /\ nst.sid = m.sid /\ nst.epoch = m.epoch /\ nst.seq = m.seq
      BY <3>1 DEF TypeOK, Store
    <3> QED BY <3>1, <3>2 DEF Mark, After
  <2>3. CASE OnEvent(c)
    <3>1. m.type = "event"
      BY <1>4, <2>3 DEF OnEvent, Receives
    <3>2. CASE m.epoch # st.epoch /\ store' = store
      BY <3>1, <3>2 DEF Mark, After
    <3>3. CASE m.seq # st.seq + 1 /\ store' = [store EXCEPT ![c].requested = TRUE]
      <4>1. Stays
        BY <3>3 DEF TypeOK, Store
      <4> QED BY <3>1, <3>3, <4>1 DEF Mark, After
    <3>4. CASE /\ m.epoch = st.epoch /\ m.seq = st.seq + 1
               /\ store' = [store EXCEPT ![c].seq = m.seq, ![c].view = Append(@, m.ev),
                                         ![c].requested = FALSE]
      <4>1. nst.sid = st.sid /\ nst.epoch = st.epoch /\ nst.seq = m.seq
        BY <3>4 DEF TypeOK, Store
      <4> QED BY <3>1, <3>4, <4>1 DEF Mark, After
    <3> QED BY <1>4, <2>3, <3>2, <3>3, <3>4 DEF OnEvent
  <2> QED BY <2>1, <2>2, <2>3 DEF TabReceives
<1> QED BY <1>2, <1>3, <1>4, <1>6

LEMMA NoSetbackTail ==
    ASSUME NEW q \in Seq(ServerMsg), q # <<>>, NEW st \in Store, NEW nst, NoSetback(st, q),
           Mark(nst) = After(Mark(st), Head(q))
    PROVE  /\ NoSetback(nst, Tail(q))
           /\ nst.epoch = st.epoch => nst.seq >= st.seq
<1>1. /\ Len(q) \in Nat /\ 1 \in 1..Len(q) /\ Head(q) = q[1] /\ q[1] \in ServerMsg
      /\ \A i \in 1..Len(Tail(q)) : i + 1 \in 2..Len(q) /\ Tail(q)[i] = q[i + 1]
  OBVIOUS
<1>2. \/ nst.epoch = st.epoch /\ nst.seq = st.seq
      \/ Stamped(q[1]) /\ nst.epoch = q[1].epoch /\ nst.seq = q[1].seq
         /\ (q[1].type = "seed" \/ q[1].seq = st.seq + 1)
  BY <1>1 DEF Mark, After, Stamped
<1>3. \A i \in 2..Len(q) : i \in 1..Len(q) /\ 1 < i
  BY <1>1
<1>4. \A j \in 1..Len(Tail(q)) : NotBefore(nst.epoch, nst.seq, Tail(q)[j])
  BY <1>1, <1>2, <1>3 DEF NoSetback
<1>5. ASSUME NEW i \in 1..Len(Tail(q)), NEW j \in 1..Len(Tail(q)), i < j, Stamped(Tail(q)[i])
      PROVE  NotBefore(Tail(q)[i].epoch, Tail(q)[i].seq, Tail(q)[j])
  <2>1. i + 1 < j + 1
    BY <1>5
  <2> QED BY <1>1, <1>3, <1>5, <2>1 DEF NoSetback
<1>6. nst.epoch = st.epoch => nst.seq >= st.seq
  <2>1. st.seq \in Nat
    BY DEF Store
  <2>2. NotBefore(st.epoch, st.seq, q[1])
    BY <1>1 DEF NoSetback
  <2>3. q[1].type = "seed" => q[1].seq \in Nat
    BY <1>1, MsgTypes DEF SeedMsg
  <2> QED BY <1>2, <2>1, <2>2, <2>3 DEF NotBefore
<1> QED BY <1>4, <1>5, <1>6 DEF NoSetback

LEMMA SteadyTab ==
    ASSUME Inv, Inv', Steady, NEW c \in Client, TabReceives(c)
    PROVE  /\ Steady'
           /\ \A d \in Client : store'[d].epoch = store[d].epoch => store'[d].seq >= store[d].seq
<1>1. TypeOK /\ TypeOK' /\ store[c] \in Store /\ \A d \in Client : store[d].seq \in Nat
  BY DEF Inv, TypeOK, Store
<1>2. /\ Mark(store'[c]) = After(Mark(store[c]), Head(chan[c]))
      /\ chan[c] \in Seq(ServerMsg) /\ chan[c] # <<>>
      /\ chan' = [chan EXCEPT ![c] = Tail(@)]
      /\ \A d \in Client : d # c => store'[d] = store[d]
  BY <1>1, MarkStep
<1>3. /\ NoSetback(store'[c], Tail(chan[c]))
      /\ store'[c].epoch = store[c].epoch => store'[c].seq >= store[c].seq
  BY <1>1, <1>2, NoSetbackTail DEF Steady
<1>4. chan'[c] = Tail(chan[c]) /\ \A d \in Client : d # c => chan'[d] = chan[d]
  BY <1>1, <1>2 DEF TypeOK
<1>5. Steady'
  BY <1>2, <1>3, <1>4 DEF Steady
<1>6. \A d \in Client : store[d].seq >= store[d].seq
  BY <1>1
<1> QED BY <1>2, <1>3, <1>5, <1>6

LEMMA SteadyApplier ==
    ASSUME Inv, Inv', Steady, Applier, ~LateReseed
    PROVE  Steady'
<1>1. store' = store
  BY DEF Applier, StartSwitch, FailSwitch, FinishSwitch, BuildReseed, SendReseed,
         RunConnectList, RunSwitchList
<1>2. CASE StartSwitch \/ FailSwitch \/ BuildReseed
  BY <1>1, <1>2 DEF StartSwitch, FailSwitch, BuildReseed, netVars, Steady
<1>3. CASE FinishSwitch
  <2>1. cur \in Switch \cup {None} /\ cur # None /\ cur.phase = "fetching"
    BY <1>3 DEF FinishSwitch, Inv, TypeOK
  <2>2. cur.sid \in Session
    BY <2>1, SwitchTypes
  <2>3. Grows(hist, hist')
    BY <1>3, <2>2, StartEpochTruth, HubKept DEF FinishSwitch
  <2>4. chan' = chan \/ chan' = Push({cur.client}, seed_msg(journals', cur.sid))
    BY <1>3 DEF FinishSwitch
  <2>5. /\ seed_msg(journals', cur.sid) \in ServerMsg
        /\ Fresh(journals', seed_msg(journals', cur.sid))
    BY <2>2, FreshSeed DEF Inv
  <2>6. CASE chan' = chan
    BY <1>1, <2>6 DEF Steady
  <2>7. CASE chan' = Push({cur.client}, seed_msg(journals', cur.sid))
    BY <1>1, <2>3, <2>5, <2>7, SteadyPush
  <2> QED BY <2>4, <2>6, <2>7
<1>4. CASE SendReseed
  <2>1. UNCHANGED hubVars /\ cur # None /\ cur.phase = "reseeding"
        /\ chan' = Push(clients_focused(cur.msg.sid) \ {cur.client}, cur.msg)
    BY <1>4 DEF SendReseed
  <2>2. Grows(hist, hist') /\ journals' = journals
    BY <2>1, HubKept DEF hubVars
  <2>3. cur.msg \in SeedMsg /\ cur.msg \in ServerMsg
    BY <2>1, SwitchTypes, MsgTypes DEF Inv, TypeOK
  <2>4. cur.msg.sid \in Session \cup {None}
    BY <2>3 DEF SeedMsg
  <2>5. CASE clients_focused(cur.msg.sid) \ {cur.client} = {}
    <3>1. \A c \in Client : chan'[c] = chan[c]
      BY <2>1, <2>5 DEF Push
    <3> QED BY <1>1, <2>2, <3>1, SteadySend
  <2>6. CASE cur.msg = seed_msg(journals, cur.msg.sid)
    <3>1. Fresh(journals', cur.msg)
      BY <2>2, <2>4, <2>6 DEF Fresh
    <3> QED BY <1>1, <2>1, <2>2, <2>3, <3>1, SteadyPush
  <2> QED BY <1>4, <2>5, <2>6 DEF LateReseed
<1>5. ASSUME NEW a \in Session \cup {None}
      PROVE  list_msg(a) \in ServerMsg /\ Fresh(journals', list_msg(a))
  BY MsgTypes DEF list_msg, ListMsg, Fresh
<1>6. CASE RunConnectList
  <2>1. Grows(hist, hist')
    BY <1>6, HubKept DEF RunConnectList
  <2>2. opq \in Seq(Op) /\ opq # <<>> /\ Head(opq).kind = "connectList"
    BY <1>6 DEF RunConnectList, Inv, TypeOK
  <2>3. Head(opq).active \in Session \cup {None}
    BY <2>2, OpTypes
  <2>4. chan' = chan \/ chan' = Push({Head(opq).client}, list_msg(Head(opq).active))
    BY <1>6 DEF RunConnectList
  <2>5. CASE chan' = chan
    BY <1>1, <2>5 DEF Steady
  <2>6. CASE chan' = Push({Head(opq).client}, list_msg(Head(opq).active))
    BY <1>1, <1>5, <2>1, <2>3, <2>6, SteadyPush
  <2> QED BY <2>4, <2>5, <2>6
<1>7. CASE RunSwitchList
  <2>1. Grows(hist, hist')
    BY <1>7, HubKept DEF RunSwitchList
  <2>2. \A c \in Client : focus[c] \in Session \cup {None}
    BY DEF Inv, TypeOK
  <2>3. \A c \in Client : chan'[c] = chan[c] \/ chan'[c] = try_send(chan[c], <<list_msg(focus[c])>>)
    BY <1>7 DEF RunSwitchList
  <2> QED BY <1>1, <1>5, <2>1, <2>2, <2>3, SteadySend
<1> QED BY <1>2, <1>3, <1>4, <1>6, <1>7 DEF Applier

LEMMA SteadyStep ==
    ASSUME Inv, Inv', Steady, [Next]_vars, ~LateReseed
    PROVE  /\ Steady'
           /\ \A d \in Client : store'[d].epoch = store[d].epoch => store'[d].seq >= store[d].seq
<1>1. \A d \in Client : store[d].seq >= store[d].seq
  BY SMTT(30) DEF Inv, TypeOK, Store
<1>2. CASE \E c \in Client : TabReceives(c)
  BY <1>2, SteadyTab
<1>3. CASE store' = store /\ Steady'
  BY <1>1, <1>3
<1>4. CASE UNCHANGED vars
  BY <1>3, <1>4 DEF vars, netVars, Steady
<1>5. CASE \E s \in Session : IngestNow(s) \/ SessionReset(s) \/ SessionClosed(s)
  <2>1. store' = store
    BY <1>5 DEF IngestNow, SessionReset, SessionClosed
  <2> QED BY <1>3, <1>5, <2>1, SteadyDriver
<1>6. CASE \E c \in Client : Connect(c)
  <2>1. store' = store
    BY <1>6 DEF Connect
  <2> QED BY <1>3, <1>6, <2>1, SteadyConnect
<1>7. CASE Restart \/ \E c \in Client : Disconnect(c)
  <2>1. store' = store
    BY <1>7 DEF Restart, Disconnect
  <2>2. \A c \in Client : chan'[c] = chan[c] \/ chan'[c] = <<>>
    BY <1>7 DEF Restart, Disconnect, Inv, TypeOK
  <2>3. \A st : NoSetback(st, <<>>)
    BY DEF NoSetback
  <2> QED BY <1>3, <2>1, <2>2, <2>3 DEF Steady
<1>8. ASSUME NEW c \in Client,
             HubHandles(c) \/ \E s \in Session : UserOpen(c, s) \/ UserReload(c, s)
      PROVE  store' = store /\ Steady'
  <2>1. store' = store /\ UNCHANGED hubVars
    BY <1>8 DEF HubHandles, HandleRequestSeed, HandleSwitch, Handles, UserOpen, UserReload
  <2>2. Grows(hist, hist') /\ journals' = journals /\ focus[c] \in Session \cup {None}
    BY <2>1, HubKept DEF hubVars, Inv, TypeOK
  <2>3. chan' = chan \/ chan' = Push({c}, seed_msg(journals', focus[c]))
    BY <1>8, <2>2 DEF HubHandles, HandleRequestSeed, HandleSwitch, UserOpen, UserReload
  <2>4. /\ seed_msg(journals', focus[c]) \in ServerMsg
        /\ Fresh(journals', seed_msg(journals', focus[c]))
    BY <2>2, FreshSeed DEF Inv
  <2>5. CASE chan' = chan
    BY <2>1, <2>5 DEF Steady
  <2>6. CASE chan' = Push({c}, seed_msg(journals', focus[c]))
    BY <2>1, <2>2, <2>4, <2>6, SteadyPush
  <2> QED BY <2>1, <2>3, <2>5, <2>6
<1>9. CASE Applier
  <2>1. store' = store
    BY <1>9 DEF Applier, StartSwitch, FailSwitch, FinishSwitch, BuildReseed, SendReseed,
                RunConnectList, RunSwitchList
  <2> QED BY <1>3, <1>9, <2>1, SteadyApplier
<1> QED BY <1>2, <1>3, <1>4, <1>5, <1>6, <1>7, <1>8, <1>9 DEF Next

\* A tab's watermark never runs backwards within an epoch, whatever the capacity of the
\* channels and whoever overflows, reconnects, switches, resets or restarts: only the
\* reseed that reload_session's second half sends from an older journal can do that.
THEOREM WatermarksCorrect == Spec /\ [][~LateReseed]_vars => ViewNeverRegresses
<1> DEFINE Forward ==
      \A c \in Client : store'[c].epoch = store[c].epoch => store'[c].seq >= store[c].seq
<1>1. Init => Inv /\ Steady
  <2>1. Init => Steady
    BY DEF Init, Steady, NoSetback
  <2> QED BY <2>1, InvInit
<1>2. Inv /\ [Next]_vars => Inv'
  BY InvStep
<1>3. Inv /\ Inv' /\ Steady /\ [Next]_vars /\ [~LateReseed]_vars => Steady' /\ [Forward]_vars
  <2> SUFFICES ASSUME Inv, Inv', Steady, [Next]_vars, [~LateReseed]_vars
               PROVE  Steady' /\ [Forward]_vars
    OBVIOUS
  <2>1. CASE UNCHANGED vars
    BY <2>1 DEF vars, netVars, Steady
  <2>2. CASE ~LateReseed
    BY <2>2, SteadyStep
  <2> QED BY <2>1, <2>2
<1>4. Spec /\ [][~LateReseed]_vars => [][Forward]_vars
  BY <1>1, <1>2, <1>3, PTL DEF Spec
<1> QED BY <1>4 DEF ViewNeverRegresses

-----------------------------------------------------------------------------
(* Viewers catch up *)

\* No channel ever fills up.
HasRoom == \A c \in Client : Len(chan[c]) < ChanCap

Places == [sid : Session \cup {None}, epoch : Nat, seq : Nat]

\* What a tab with fold st comes to once it has handled the messages q: t[i] is
\* where it is after the first i of them.
Reaches(st, q, w) ==
    \E t \in [Nat -> Places] :
       /\ t[0] = Mark(st)
       /\ \A i \in 1..Len(q) : t[i] = After(t[i - 1], q[i])
       /\ t[Len(q)] = w

\* The stamp of a session's journal.
Target(js, s) == [sid |-> s, epoch |-> js[s].epoch, seq |-> js[s].seq]

\* A viewer of a session that is being reloaded, and that is still to be reseeded.
Awaits(c) ==
    /\ cur # None /\ c # cur.client
    /\ \/ cur.phase = "switched" /\ cur.sid = focus[c]
       \/ cur.phase = "reseeding" /\ cur.msg.sid = focus[c]

\* What is on its way brings the tab to the end of the journal it is focused on.
Owed(c, w) == focus[c] # None /\ ~Awaits(c) => w = Target(journals, focus[c])

Follows(c) == \E w \in Places : Reaches(store[c], chan[c], w) /\ Owed(c, w)

Followed == \A c \in Client : Follows(c)

LEMMA MarkType ==
    ASSUME NEW st \in Store
    PROVE  Mark(st) \in Places
BY DEF Mark, Places, Store

LEMMA AfterType ==
    ASSUME NEW w \in Places, NEW m \in ServerMsg
    PROVE  After(w, m) \in Places
<1>1. CASE m.type = "seed"
  BY <1>1, MsgTypes DEF After, Places, SeedMsg
<1>2. CASE m.type = "event"
  BY <1>2, MsgTypes DEF After, Places, EventMsg
<1>3. CASE m.type # "seed" /\ m.type # "event"
  BY <1>3 DEF After
<1> QED BY <1>1, <1>2, <1>3

\* Nothing more to handle.
LEMMA ReachesHere ==
    ASSUME NEW st \in Store
    PROVE  Reaches(st, <<>>, Mark(st))
<1> DEFINE t == [i \in Nat |-> Mark(st)]
<1>1. t \in [Nat -> Places] /\ t[0] = Mark(st) /\ t[Len(<<>>)] = Mark(st)
  BY MarkType
<1> HIDE DEF t
<1>2. \A i \in 1..Len(<<>>) : FALSE
  OBVIOUS
<1> QED BY <1>1, <1>2 DEF Reaches

\* One message more to handle.
LEMMA ReachesMore ==
    ASSUME NEW st, NEW q \in Seq(ServerMsg), NEW w, Reaches(st, q, w),
           NEW m \in ServerMsg, NEW r \in Seq(ServerMsg), Longer(r, q, m)
    PROVE  w \in Places /\ After(w, m) \in Places /\ Reaches(st, r, After(w, m))
<1>1. PICK t \in [Nat -> Places] : /\ t[0] = Mark(st) /\ t[Len(q)] = w
                                   /\ \A i \in 1..Len(q) : t[i] = After(t[i - 1], q[i])
  BY DEF Reaches
<1>2. /\ Len(q) \in Nat /\ Len(r) = Len(q) + 1 /\ r[Len(q) + 1] = m
      /\ \A i \in 1..Len(q) : r[i] = q[i]
  BY DEF Longer
<1>3. w \in Places /\ After(w, m) \in Places
  BY <1>1, <1>2, AfterType
<1> DEFINE u == [t EXCEPT ![Len(r)] = After(w, m)]
<1>4. u \in [Nat -> Places] /\ u[Len(r)] = After(w, m) /\ \A i \in 0..Len(q) : u[i] = t[i]
  BY <1>1, <1>2, <1>3
<1> HIDE DEF u
<1>5. u[0] = Mark(st)
  BY <1>1, <1>2, <1>4
<1>6. ASSUME NEW i \in 1..Len(r)
      PROVE  u[i] = After(u[i - 1], r[i])
  <2>1. CASE i \in 1..Len(q)
    <3>1. i \in 0..Len(q) /\ i - 1 \in 0..Len(q)
      BY <1>2, <2>1
    <3> QED BY <1>1, <1>2, <1>4, <2>1, <3>1
  <2>2. CASE i = Len(q) + 1
    <3>1. i - 1 = Len(q) /\ Len(q) \in 0..Len(q)
      BY <1>2, <2>2
    <3>2. u[i - 1] = w
      BY <1>1, <1>4, <3>1
    <3> QED BY <1>2, <1>4, <2>2, <3>2
  <2> QED BY <1>2, <2>1, <2>2
<1> QED BY <1>3, <1>4, <1>5, <1>6 DEF Reaches

\* One message handled.
LEMMA ReachesTail ==
    ASSUME NEW st, NEW nst, NEW q \in Seq(ServerMsg), q # <<>>, NEW w, Reaches(st, q, w),
           Mark(nst) = After(Mark(st), Head(q))
    PROVE  Reaches(nst, Tail(q), w)
<1>1. PICK t \in [Nat -> Places] : /\ t[0] = Mark(st) /\ t[Len(q)] = w
                                   /\ \A i \in 1..Len(q) : t[i] = After(t[i - 1], q[i])
  BY DEF Reaches
<1>2. /\ Len(q) \in Nat /\ 1 \in 1..Len(q) /\ Head(q) = q[1] /\ Len(Tail(q)) = Len(q) - 1
      /\ \A i \in 1..Len(Tail(q)) : i + 1 \in 1..Len(q) /\ Tail(q)[i] = q[i + 1]
  OBVIOUS
<1> DEFINE u == [i \in Nat |-> t[i + 1]]
<1>3. u \in [Nat -> Places] /\ \A i \in Nat : u[i] = t[i + 1]
  OBVIOUS
<1> HIDE DEF u
<1>4. u[0] = Mark(nst)
  <2>1. t[1] = After(t[1 - 1], q[1]) /\ 1 - 1 = 0 /\ u[0] = t[0 + 1] /\ 0 + 1 = 1
    BY <1>1, <1>2, <1>3
  <2> QED BY <1>1, <1>2, <2>1
<1>5. u[Len(Tail(q))] = w
  <2>1. Len(Tail(q)) \in Nat /\ Len(Tail(q)) + 1 = Len(q)
    BY <1>2
  <2> QED BY <1>1, <1>3, <2>1
<1>6. ASSUME NEW i \in 1..Len(Tail(q))
      PROVE  u[i] = After(u[i - 1], Tail(q)[i])
  <2>1. i \in Nat /\ i - 1 \in Nat /\ (i - 1) + 1 = i /\ (i + 1) - 1 = i
    OBVIOUS
  <2>2. t[i + 1] = After(t[(i + 1) - 1], q[i + 1])
    BY <1>1, <1>2
  <2>3. u[i] = t[i + 1] /\ u[i - 1] = t[(i - 1) + 1]
    BY <1>3, <2>1
  <2> QED BY <1>2, <2>1, <2>2, <2>3
<1> QED BY <1>3, <1>4, <1>5, <1>6 DEF Reaches

\* A channel with room for more took all that it was offered.
LEMMA Taken ==
    ASSUME TypeOK, HasRoom', NEW c \in Client, NEW msg \in ServerMsg,
           chan'[c] = try_send(chan[c], <<msg>>)
    PROVE  chan'[c] \in Seq(ServerMsg) /\ Longer(chan'[c], chan[c], msg)
<1>1. chan[c] \in Seq(ServerMsg) /\ Len(chan'[c]) < ChanCap
  BY DEF TypeOK, HasRoom
<1>2. /\ chan'[c] \in Seq(ServerMsg)
      /\ Longer(chan'[c], chan[c], msg) \/ ChanCap <= Len(chan'[c])
  BY <1>1, TrySendOne
<1>3. Len(chan'[c]) \in Nat /\ ChanCap \in Nat
  BY <1>2, CapAssumption
<1> QED BY <1>1, <1>2, <1>3

\* Nothing happens to a tab, except that it may be owed less.
LEMMA FollowsKept ==
    ASSUME NEW c \in Client, Follows(c), store'[c] = store[c], chan'[c] = chan[c],
           focus'[c] # None /\ ~Awaits(c)' =>
              focus'[c] = focus[c] /\ ~Awaits(c) /\ Target(journals', focus[c]) = Target(journals, focus[c])
    PROVE  Follows(c)'
BY DEF Follows, Owed

\* A tab is sent a message that it does not fold.
LEMMA FollowsList ==
    ASSUME TypeOK, HasRoom', NEW c \in Client, Follows(c), store'[c] = store[c],
           NEW msg \in ServerMsg, msg.type = "sessionList",
           chan'[c] = try_send(chan[c], <<msg>>),
           focus'[c] = focus[c], cur' = cur, journals' = journals
    PROVE  Follows(c)'
<1>1. PICK w \in Places : Reaches(store[c], chan[c], w) /\ Owed(c, w)
  BY DEF Follows
<1>2. chan[c] \in Seq(ServerMsg) /\ chan'[c] \in Seq(ServerMsg) /\ Longer(chan'[c], chan[c], msg)
  BY Taken DEF TypeOK
<1>3. Reaches(store[c], chan'[c], After(w, msg))
  BY <1>1, <1>2, ReachesMore
<1>4. After(w, msg) = w
  BY DEF After
<1>5. Owed(c, w)'
  BY <1>1 DEF Owed, Awaits
<1> QED BY <1>3, <1>4, <1>5 DEF Follows

\* A seed takes a tab where its journal is.
LEMMA SeedTarget ==
    ASSUME NEW js, NEW s \in Session, js[s] # None, NEW w
    PROVE  After(w, seed_msg(js, s)) = Target(js, s)
<1>1. s # None
  BY NoneAssumption
<1>2. /\ seed_msg(js, s).type = "seed" /\ seed_msg(js, s).sid = s
      /\ seed_msg(js, s).epoch = js[s].epoch /\ seed_msg(js, s).seq = js[s].seq
  BY <1>1 DEF seed_msg
<1> QED BY <1>2 DEF After, Target

\* A tab is sent a seed: that of its focus if it is owed anything.
LEMMA FollowsSeed ==
    ASSUME TypeOK, TypeOK', HasRoom', NEW c \in Client, Follows(c), store'[c] = store[c],
           NEW msg \in ServerMsg, chan'[c] = try_send(chan[c], <<msg>>),
           focus'[c] # None /\ ~Awaits(c)' =>
              msg = seed_msg(journals', focus'[c]) /\ journals'[focus'[c]] # None
    PROVE  Follows(c)'
<1>1. PICK w \in Places : Reaches(store[c], chan[c], w) /\ Owed(c, w)
  BY DEF Follows
<1>2. chan[c] \in Seq(ServerMsg) /\ chan'[c] \in Seq(ServerMsg) /\ Longer(chan'[c], chan[c], msg)
  BY Taken DEF TypeOK
<1>3. After(w, msg) \in Places /\ Reaches(store[c], chan'[c], After(w, msg))
  BY <1>1, <1>2, ReachesMore
<1>4. Owed(c, After(w, msg))'
  <2> SUFFICES ASSUME focus'[c] # None, ~Awaits(c)'
               PROVE  After(w, msg) = Target(journals', focus'[c])
    BY DEF Owed
  <2>1. focus'[c] \in Session
    BY DEF TypeOK
  <2> QED BY <2>1, SeedTarget
<1> QED BY <1>3, <1>4 DEF Follows

\* A connection that is gone owes nothing.
LEMMA FollowsGone ==
    ASSUME TypeOK, NEW c \in Client, store'[c] = store[c], chan'[c] = <<>>, focus'[c] = None
    PROVE  Follows(c)'
<1>1. store[c] \in Store
  BY DEF TypeOK
<1>2. Mark(store[c]) \in Places /\ Reaches(store[c], <<>>, Mark(store[c]))
  BY <1>1, MarkType, ReachesHere
<1> QED BY <1>2 DEF Follows, Owed

\* The arithmetic of a cut ring.
LEMMA ReplayPlaces ==
    ASSUME NEW a \in Nat, NEW k \in Nat, NEW d \in Nat, NEW q \in Nat, NEW n \in Nat,
           k - a = d, a = n - (q - k)
    PROVE  \A i \in 1..d : a + i \in 1..k /\ q - k + (a + i) = n + i
OBVIOUS

\* A resume replays every stamp after the tab's, in order, up to the journal's.
LEMMA ReplayStamps ==
    ASSUME NEW j \in Journal, NEW h, NEW s, JournalTruthful(h, s, j), NEW n \in Nat, tail_covers(j, n)
    PROVE  /\ n <= j.seq /\ Len(Replay(j, n)) = j.seq - n
           /\ \A i \in 1..j.seq - n : /\ Replay(j, n)[i].type = "event"
                                      /\ Replay(j, n)[i].epoch = j.epoch
                                      /\ Replay(j, n)[i].seq = n + i
<1> DEFINE k == Len(j.tail)
           a == n - (j.seq - k)
           H == {i \in 1..Len(j.tail) : j.tail[i].seq <= n}
           missed == SubSeq(j.tail, Cardinality(H) + 1, Len(j.tail))
<1>1. /\ j.tail \in Seq(Frame) /\ j.seq \in Nat /\ k \in Nat /\ k <= j.seq
      /\ \A i \in 1..k : j.tail[i].seq = j.seq - k + i
  BY DEF Journal, JournalTruthful
<1>2. n <= j.seq /\ a \in 0..k
  <2>1. n <= j.seq
    BY DEF tail_covers
  <2>2. CASE n = j.seq
    BY <1>1, <2>2
  <2>3. CASE j.tail # <<>> /\ j.tail[1].seq <= n + 1
    <3>1. 1 \in 1..k
      BY <1>1, <2>3
    <3>2. j.tail[1].seq = j.seq - k + 1
      BY <1>1, <3>1
    <3> QED BY <1>1, <2>1, <2>3, <3>2
  <2> QED BY <2>1, <2>2, <2>3 DEF tail_covers
<1>3. Cardinality(H) = a
  <2>1. H = 1..a
    <3> DEFINE q == j.seq
    <3>1. q \in Nat /\ k \in Nat /\ a = n - (q - k) /\ a \in 0..k
      BY <1>1, <1>2
    <3>2. \A i \in 1..k : j.tail[i].seq <= n <=> q - k + i <= n
      BY <1>1
    <3> HIDE DEF k, q, a
    <3>3. \A i \in 1..k : q - k + i <= n <=> i \in 1..a
      BY <3>1
    <3>4. 1..a \subseteq 1..k
      BY <3>1
    <3>5. H = {i \in 1..k : j.tail[i].seq <= n}
      BY DEF k
    <3> HIDE DEF H
    <3> QED BY <3>2, <3>3, <3>4, <3>5
  <2>2. Cardinality(1..a) = a
    <3>1. a \in Nat
      BY <1>2
    <3> HIDE DEF a
    <3>2. Cardinality(1..a) = IF 1 > a THEN 0 ELSE a - 1 + 1
      BY <3>1, FS_Interval
    <3> QED BY <3>1, <3>2
  <2> QED BY <2>1, <2>2
<1>4. /\ missed \in Seq(Frame) /\ Len(missed) = j.seq - n
      /\ \A i \in 1..j.seq - n : missed[i].seq = n + i
  <2>1. missed = SubSeq(j.tail, a + 1, k)
    BY <1>3
  <2> HIDE DEF missed
  <2>2. a + 1 \in 1..k + 1 /\ k - a = j.seq - n /\ a = n - (j.seq - k)
    BY <1>1, <1>2
  <2> DEFINE q == j.seq
             d == q - n
  <2>3. d \in Nat /\ q \in Nat
    BY <1>1, <1>2
  <2> HIDE DEF a, k, d, q
  <2>4. /\ a + 1 \in 1..k + 1 /\ k - a = d /\ a = n - (q - k) /\ k \in Nat
        /\ \A i \in a + 1..k : j.tail[i] \in Frame
        /\ k = Len(j.tail)
    BY <1>1, <2>2 DEF d, q, k
  <2>5. /\ SubSeq(j.tail, a + 1, k) \in Seq(Frame)
        /\ Len(SubSeq(j.tail, a + 1, k)) = d
        /\ \A i \in 1..d : SubSeq(j.tail, a + 1, k)[i] = j.tail[a + i]
    <3>1. a + 1 \in Nat /\ k \in Nat /\ \A i \in a + 1..k : j.tail[i] \in Frame
      BY <2>4
    <3>2. a + 1 <= k => k - (a + 1) + 1 = d
      BY <2>4
    <3>3. ~(a + 1 <= k) => d = 0
      BY <2>3, <2>4
    <3>4. \A i \in 1..d : a + 1 + i - 1 = a + i /\ i \in 1..k - (a + 1) + 1
      BY <2>3, <2>4
    <3>5. /\ SubSeq(j.tail, a + 1, k) \in Seq(Frame)
          /\ Len(SubSeq(j.tail, a + 1, k)) = IF a + 1 <= k THEN k - (a + 1) + 1 ELSE 0
          /\ \A i \in 1..k - (a + 1) + 1 : SubSeq(j.tail, a + 1, k)[i] = j.tail[a + 1 + i - 1]
      BY <3>1, SubSeqProperties
    <3> QED BY <3>2, <3>3, <3>4, <3>5
  <2>6. \A i \in 1..d : a + i \in 1..k /\ q - k + (a + i) = n + i
    <3>1. a \in Nat /\ n \in Nat /\ a = n - (q - k)
      BY <1>2, <2>4 DEF a
    <3>2. k \in Nat /\ d \in Nat /\ q \in Nat /\ k - a = d
      BY <2>3, <2>4
    <3> QED BY <3>1, <3>2, ReplayPlaces, SMT
  <2>7. \A i \in 1..k : j.tail[i].seq = q - k + i
    BY <1>1 DEF q, k
  <2> QED BY <2>1, <2>5, <2>6, <2>7 DEF d, q
<1> HIDE DEF missed
<1>5. Replay(j, n) = [i \in 1..Len(missed) |->
        [type |-> "event", epoch |-> j.epoch, seq |-> missed[i].seq, ev |-> missed[i].ev]]
  BY Zenon DEF Replay, missed, H
<1>6. Replay(j, n) \in Seq(EventMsg)
  BY ReplayFrames
<1>7. Len(Replay(j, n)) = Len(missed)
  <2>1. DOMAIN Replay(j, n) = 1..Len(missed) /\ DOMAIN Replay(j, n) = 1..Len(Replay(j, n))
    BY <1>5, <1>6
  <2> DEFINE x == Len(Replay(j, n))
             y == Len(missed)
  <2>2. x \in Nat /\ y \in Nat
    BY <1>4, <1>6
  <2>3. 1..x = 1..y
    BY <2>1, Zenon
  <2> HIDE DEF x, y
  <2>4. x = y
    <3>1. (x = 0 \/ x \in 1..x) /\ (y = 0 \/ y \in 1..y)
      BY <2>2
    <3>2. (x = 0 \/ x \in 1..y) /\ (y = 0 \/ y \in 1..x)
      BY <2>3, <3>1
    <3> QED BY <2>2, <3>2
  <2> QED BY <2>4 DEF x, y
<1> QED BY <1>2, <1>4, <1>5, <1>7

\* A fresh connection is owed what it is greeted with.
LEMMA FollowsGreeting ==
    ASSUME Inv, TypeOK', HasRoom', DefaultFocus = None, NEW c \in Client, Connect(c)
    PROVE  Follows(c)'
<1> DEFINE st == store[c]
           hello == <<[type |-> "hello"]>>
           greet == Greeting(st)
<1>1. /\ st \in Store /\ st.sid \in Session \cup {None} /\ st.seq \in Nat /\ st.epoch \in Nat
      /\ journals' = journals /\ store' = store /\ cur' = cur
      /\ focus'[c] = GreetFocus(st) /\ chan'[c] = try_send(hello, greet)
  BY DEF Connect, Inv, TypeOK, Store, hubVars
<1>2. hello \in Seq(ServerMsg) /\ Len(hello) = 1 /\ hello[1] \in ServerMsg /\ hello[1].type = "hello"
  <2>1. PICK m \in ServerMsg : m = [type |-> "hello"]
    BY MsgTypes DEF HelloMsg
  <2>2. hello = <<m>>
    BY <2>1
  <2>3. <<m>> \in Seq(ServerMsg) /\ Len(<<m>>) = 1 /\ <<m>>[1] = m
    OBVIOUS
  <2>4. m.type = "hello"
    BY <2>1
  <2> HIDE DEF hello
  <2> QED BY <2>2, <2>3, <2>4
<1> HIDE DEF hello
<1>3. Mark(st) \in Places
  BY <1>1, MarkType
<1>4. CASE Resumable(st)
  <2>1. PICK j \in Journal : j = journals[st.sid]
    BY <1>1, <1>4 DEF Resumable, HasToken, HasJournal, Inv, TypeOK
  <2>2. /\ st.sid \in Session /\ st.sid # None /\ j.epoch = st.epoch /\ tail_covers(j, st.seq)
        /\ JournalTruthful(hist, st.sid, j) /\ greet = Replay(j, st.seq) /\ focus'[c] = st.sid
    BY <1>1, <1>4, <2>1 DEF Resumable, HasToken, HasJournal, GreetFocus, Greeting, Inv, JournalsTruthful
  <2> HIDE DEF greet
  <2> DEFINE d == j.seq - st.seq
  <2>3. /\ st.seq <= j.seq /\ Len(greet) = d
        /\ \A i \in 1..d : /\ greet[i].type = "event" /\ greet[i].epoch = st.epoch
                           /\ greet[i].seq = st.seq + i
    BY <1>1, <2>1, <2>2, ReplayStamps
  <2>4. greet \in Seq(ServerMsg) /\ d \in Nat /\ j.seq \in Nat
    <3>1. j.seq \in Nat /\ st.seq \in Nat
      BY <1>1, <2>1 DEF Journal
    <3>2. greet \in Seq(ServerMsg)
      BY <1>1, GreetingType DEF greet, Inv
    <3> QED BY <2>3, <3>1, <3>2
  <2> HIDE DEF d
  <2> DEFINE q == hello \o greet
  <2>5. /\ q \in Seq(ServerMsg) /\ Len(q) = 1 + d /\ q[1] = hello[1]
        /\ \A i \in 2..1 + d : q[i] = greet[i - 1]
    <3>1. q \in Seq(ServerMsg) /\ Len(q) = Len(hello) + Len(greet)
          /\ \A i \in 1..Len(hello) + Len(greet) :
                q[i] = IF i <= Len(hello) THEN hello[i] ELSE greet[i - Len(hello)]
      BY <1>2, <2>4, ConcatProperties
    <3> HIDE DEF q
    <3>2. Len(hello) = 1 /\ Len(greet) = d /\ d \in Nat
      BY <1>2, <2>3, <2>4
    <3>3. q \in Seq(ServerMsg) /\ Len(q) = 1 + d
      BY <3>1, <3>2
    <3>4. q[1] = hello[1]
      <4>1. 1 \in 1..1 + d /\ 1 <= 1
        BY <3>2
      <4> QED BY <3>1, <3>2, <4>1
    <3>5. ASSUME NEW i \in 2..1 + d PROVE q[i] = greet[i - 1]
      <4>1. i \in 1..1 + d /\ ~(i <= 1)
        BY <3>2
      <4> QED BY <3>1, <3>2, <4>1
    <3> QED BY <3>3, <3>4, <3>5
  <2>6. chan'[c] = q
    <3>1. chan'[c] = IF Len(q) <= ChanCap THEN q ELSE SubSeq(q, 1, ChanCap)
      BY <1>1 DEF try_send
    <3>2. Len(chan'[c]) < ChanCap
      BY DEF HasRoom
    <3> HIDE DEF q
    <3>3. CASE ~(Len(q) <= ChanCap)
      <4>1. ChanCap \in 1..Len(q)
        BY <2>5, <3>3, CapAssumption
      <4>2. Len(SubSeq(q, 1, ChanCap)) = ChanCap
        BY <2>5, <4>1
      <4> QED BY <3>1, <3>2, <3>3, <4>1, <4>2
    <3> QED BY <3>1, <3>3
  <2> HIDE DEF q
  <2> DEFINE at(i) == IF i = 0 THEN st.seq ELSE st.seq + (i - 1)
             t == [i \in Nat |-> [sid |-> st.sid, epoch |-> st.epoch, seq |-> at(i)]]
  <2>7. /\ t \in [Nat -> Places]
        /\ \A i \in Nat : t[i] = [sid |-> st.sid, epoch |-> st.epoch, seq |-> at(i)]
    <3>1. \A i \in Nat : at(i) \in Nat
      BY <1>1
    <3> HIDE DEF at
    <3> QED BY <1>1, <3>1 DEF Places
  <2>8. at(0) = st.seq /\ at(1) = st.seq /\ \A i \in 2..1 + d : at(i) = at(i - 1) + 1 /\ at(i) = st.seq + (i - 1)
    BY <1>1, <2>4
  <2>9. at(1 + d) = j.seq
    <3>1. \A x, y \in Nat : x <= y => IF 1 + (y - x) = 0 THEN x = y ELSE x + ((1 + (y - x)) - 1) = y
      OBVIOUS
    <3> QED BY <1>1, <2>3, <2>4, <3>1 DEF d
  <2> HIDE DEF at, t
  <2>10. t[0] = Mark(st) /\ t[1] = Mark(st)
    BY <2>7, <2>8 DEF Mark
  <2>11. ASSUME NEW i \in 1..Len(q)
         PROVE  t[i] = After(t[i - 1], q[i])
    <3>1. CASE i = 1
      <4>1. 1 - 1 = 0 /\ q[1].type = "hello"
        BY <1>2, <2>5
      <4> QED BY <2>10, <3>1, <4>1 DEF After
    <3>2. CASE i \in 2..1 + d
      <4>1. i \in Nat /\ i - 1 \in Nat /\ i - 1 \in 1..d
        BY <2>4, <3>2
      <4>2. q[i].type = "event" /\ q[i].epoch = st.epoch /\ q[i].seq = st.seq + (i - 1)
        BY <2>3, <2>5, <3>2, <4>1
      <4>3. q[i].seq = at(i) /\ at(i) = at(i - 1) + 1
        BY <2>8, <3>2, <4>2
      <4>4. t[i] = [sid |-> st.sid, epoch |-> st.epoch, seq |-> at(i)]
            /\ t[i - 1] = [sid |-> st.sid, epoch |-> st.epoch, seq |-> at(i - 1)]
        BY <2>7, <4>1
      <4> QED BY <4>2, <4>3, <4>4 DEF After
    <3>3. i = 1 \/ i \in 2..1 + d
      BY <2>4, <2>5
    <3> QED BY <3>1, <3>2, <3>3
  <2>12. t[Len(q)] = Target(journals, st.sid)
    <3>1. Len(q) \in Nat
      BY <2>5
    <3> QED BY <2>1, <2>2, <2>5, <2>7, <2>9, <3>1 DEF Target
  <2>13. t[Len(q)] \in Places
    BY <2>5, <2>7
  <2>14. Reaches(st, q, Target(journals, st.sid)) /\ Target(journals, st.sid) \in Places
    BY <2>7, <2>10, <2>11, <2>12, <2>13 DEF Reaches
  <2> QED BY <1>1, <2>2, <2>6, <2>14 DEF Follows, Owed
<1>5. CASE ~Resumable(st)
  <2>1. focus'[c] = None
    BY <1>1, <1>5 DEF GreetFocus
  <2>2. PICK m \in ServerMsg : greet = <<m>>
    <3>1. PICK s \in Session \cup {None} : greet = <<seed_msg(journals, s)>>
      BY <1>1, <1>5, DefaultAssumption DEF Greeting
    <3>2. seed_msg(journals, s) \in ServerMsg
      BY SeedMsgType, MsgTypes DEF Inv, TypeOK
    <3> QED BY <3>1, <3>2
  <2>3. Reaches(st, hello, After(Mark(st), hello[1]))
    <3>1. Reaches(st, <<>>, Mark(st))
      BY <1>1, ReachesHere
    <3>2. hello[1] \in ServerMsg /\ <<>> \in Seq(ServerMsg)
      <4>1. hello[1] \in ServerMsg
        BY <1>2
      <4>2. <<>> \in Seq(ServerMsg)
        OBVIOUS
      <4> QED BY <4>1, <4>2
    <3>3. PICK none, m1 : none = <<>> /\ m1 = hello[1]
      OBVIOUS
    <3>4. Len(none) = 0 /\ 0 + 1 = 1 /\ \A i \in 1..0 : FALSE
      BY <3>3
    <3>5. Longer(hello, none, m1)
      BY <1>2, <3>3, <3>4 DEF Longer
    <3>6. Reaches(st, hello, After(Mark(st), m1))
      BY <1>2, <3>1, <3>2, <3>3, <3>5, ReachesMore
    <3> QED BY <3>3, <3>6
  <2>4. chan'[c] = try_send(hello, <<m>>)
    BY <1>1, <2>2
  <2>5. chan'[c] \in Seq(ServerMsg) /\ (Longer(chan'[c], hello, m) \/ ChanCap <= Len(chan'[c]))
    BY <1>2, <2>4, TrySendOne
  <2>6. Longer(chan'[c], hello, m)
    <3>1. Len(chan'[c]) < ChanCap /\ Len(chan'[c]) \in Nat /\ ChanCap \in Nat
      BY <2>5, CapAssumption DEF HasRoom
    <3> QED BY <2>5, <3>1
  <2>7. PICK w \in Places : Reaches(st, chan'[c], w)
    BY <1>2, <2>3, <2>5, <2>6, ReachesMore
  <2> QED BY <1>1, <2>1, <2>7 DEF Follows, Owed
<1> QED BY <1>4, <1>5


\* A message pushed to some clients reaches those, and no other.
LEMMA PushReaches ==
    ASSUME NEW to, NEW msg, NEW c \in Client
    PROVE  /\ c \in to => Push(to, msg)[c] = try_send(chan[c], <<msg>>)
           /\ c \notin to => Push(to, msg)[c] = chan[c]
BY DEF Push

\* A new event takes every viewer one stamp further, as it does the journal.
LEMMA FollowsEvent ==
    ASSUME TypeOK, HasRoom', NEW c \in Client, Follows(c), NEW s \in Session,
           UNCHANGED <<store, focus, cur>>, focus[c] = s,
           NEW msg \in ServerMsg, msg.type = "event", chan'[c] = try_send(chan[c], <<msg>>),
           msg.epoch = journals[s].epoch, msg.seq = journals[s].seq + 1,
           journals'[s].epoch = msg.epoch, journals'[s].seq = msg.seq
    PROVE  Follows(c)'
<1>1. PICK w \in Places : Reaches(store[c], chan[c], w) /\ Owed(c, w)
  BY DEF Follows
<1>2. chan[c] \in Seq(ServerMsg) /\ chan'[c] \in Seq(ServerMsg) /\ Longer(chan'[c], chan[c], msg)
  BY Taken DEF TypeOK
<1>3. After(w, msg) \in Places /\ Reaches(store[c], chan'[c], After(w, msg))
  BY <1>1, <1>2, ReachesMore
<1>4. Owed(c, After(w, msg))'
  <2> SUFFICES ASSUME focus'[c] # None, ~Awaits(c)'
               PROVE  After(w, msg) = Target(journals', focus'[c])
    BY DEF Owed
  <2>1. focus[c] # None /\ ~Awaits(c)
    BY DEF Awaits
  <2>2. w = [sid |-> s, epoch |-> journals[s].epoch, seq |-> journals[s].seq]
    BY <1>1, <2>1 DEF Owed, Target
  <2> QED BY <2>2 DEF After, Target
<1> QED BY <1>3, <1>4 DEF Follows

LEMMA FollowedDriver ==
    ASSUME Inv, Inv', Routed, Followed, HasRoom', NEW s \in Session,
           IngestNow(s) \/ SessionReset(s) \/ SessionClosed(s)
    PROVE  Followed'
<1> SUFFICES ASSUME NEW c \in Client PROVE Follows(c)'
  BY DEF Followed
<1>1. /\ UNCHANGED <<store, focus, cur>> /\ Follows(c) /\ TypeOK /\ TypeOK'
      /\ focus[c] \in Session \cup {None} /\ journals \in [Session -> Journal \cup {None}]
  BY DEF Followed, Inv, TypeOK, IngestNow, SessionReset, SessionClosed, opVars
<1>2. HasJournal(s) /\ journals[s] \in Journal /\ s # None
  BY NoneAssumption DEF IngestNow, SessionReset, SessionClosed, Inv, TypeOK, HasJournal
<1>3. c \in clients_focused(s) <=> focus[c] = s
  BY <1>2 DEF clients_focused, Routed, FocusHasJournal
<1>4. ASSUME chan'[c] = chan[c], focus[c] # s,
             \A x \in Session : x # s => journals'[x] = journals[x]
      PROVE  Follows(c)'
  <2>1. focus[c] # None => journals'[focus[c]] = journals[focus[c]]
    BY <1>1, <1>4
  <2>2. ~Awaits(c)' => ~Awaits(c)
    BY <1>1 DEF Awaits
  <2> QED BY <1>1, <1>4, <2>1, <2>2, FollowsKept DEF Target
<1>5. CASE IngestNow(s)
  <2>1. PICK ev \in Event, k \in Evictions(journals[s]) : \E j :
          /\ j = append_event(journals[s], ev, k)
          /\ journals' = [journals EXCEPT ![s] = j]
          /\ chan' = Push(clients_focused(s),
                       [type |-> "event", epoch |-> j.epoch, seq |-> j.seq, ev |-> ev])
    BY <1>5 DEF IngestNow
  <2>10. PICK j : /\ j = append_event(journals[s], ev, k)
                 /\ journals' = [journals EXCEPT ![s] = j]
                 /\ chan' = Push(clients_focused(s),
                       [type |-> "event", epoch |-> j.epoch, seq |-> j.seq, ev |-> ev])
    BY <2>1
  <2>2. k \in 0..Len(journals[s].tail) + 1
    BY DEF Evictions
  <2>3. j \in Journal /\ j.epoch = journals[s].epoch /\ j.seq = journals[s].seq + 1
    BY <1>2, <2>10, <2>2, AppendEvent
  <2> DEFINE msg == [type |-> "event", epoch |-> j.epoch, seq |-> j.seq, ev |-> ev]
  <2>4. /\ msg \in ServerMsg /\ msg.type = "event"
        /\ msg.epoch = j.epoch /\ msg.seq = j.seq
    BY <2>3, MsgTypes DEF EventMsg, Journal
  <2>5. chan' = Push(clients_focused(s), msg)
    BY <2>10
  <2> HIDE DEF msg
  <2>6. CASE focus[c] = s
    <3>1. chan'[c] = try_send(chan[c], <<msg>>)
      BY <1>3, <2>5, <2>6, PushReaches
    <3>2. journals'[s] = j
      BY <1>1, <2>10
    <3> QED BY <1>1, <2>3, <2>4, <2>6, <3>1, <3>2, FollowsEvent
  <2>7. CASE focus[c] # s
    <3>1. chan'[c] = chan[c]
      BY <1>3, <2>5, <2>7, PushReaches
    <3> QED BY <1>1, <1>4, <2>10, <2>7, <3>1
  <2> QED BY <2>6, <2>7
<1>6. CASE SessionReset(s)
  <2>1. PICK meta \in Seeds : StartEpoch(s, meta)
    BY <1>6 DEF SessionReset
  <2>2. /\ journals'[s] # None
        /\ \A x \in Session : x # s => journals'[x] = journals[x]
    BY <1>1, <2>1, StartEpochHas DEF StartEpoch
  <2>3. chan' = Push(clients_focused(s), seed_msg(journals', s))
    BY <1>6 DEF SessionReset
  <2>4. CASE focus[c] = s
    <3>1. chan'[c] = try_send(chan[c], <<seed_msg(journals', s)>>)
      BY <1>3, <2>3, <2>4, PushReaches
    <3>2. seed_msg(journals', s) \in ServerMsg
      BY <1>1, SeedMsgType, MsgTypes DEF TypeOK
    <3> QED BY <1>1, <2>2, <2>4, <3>1, <3>2, FollowsSeed
  <2>5. CASE focus[c] # s
    <3>1. chan'[c] = chan[c]
      BY <1>3, <2>3, <2>5, PushReaches
    <3> QED BY <1>4, <2>2, <2>5, <3>1
  <2> QED BY <2>4, <2>5
<1>7. CASE SessionClosed(s)
  <2>1. c \notin clients_focused(s) /\ chan' = chan
    BY <1>7 DEF SessionClosed, netVars
  <2>2. \A x \in Session : x # s => journals'[x] = journals[x]
    BY <1>1, <1>7 DEF SessionClosed
  <2> QED BY <1>3, <1>4, <2>1, <2>2
<1> QED BY <1>5, <1>6, <1>7

LEMMA FollowedTab ==
    ASSUME Inv, Inv', Followed, NEW c \in Client, TabReceives(c)
    PROVE  Followed'
<1> SUFFICES ASSUME NEW d \in Client PROVE Follows(d)'
  BY DEF Followed
<1>1. TypeOK /\ TypeOK' /\ Follows(d)
  BY DEF Inv, Followed
<1>2. /\ Mark(store'[c]) = After(Mark(store[c]), Head(chan[c]))
      /\ chan[c] \in Seq(ServerMsg) /\ chan[c] # <<>>
      /\ chan' = [chan EXCEPT ![c] = Tail(@)]
      /\ \A x \in Client : x # c => store'[x] = store[x]
      /\ UNCHANGED <<hubVars, focus, clients, opVars>>
  BY <1>1, MarkStep
<1>3. journals' = journals /\ focus' = focus /\ cur' = cur
  BY <1>2 DEF hubVars, opVars
<1>4. CASE d = c
  <2>1. PICK w \in Places : Reaches(store[c], chan[c], w) /\ Owed(c, w)
    BY <1>1, <1>4 DEF Follows
  <2>2. chan'[c] = Tail(chan[c])
    BY <1>1, <1>2 DEF TypeOK
  <2>3. Reaches(store'[c], chan'[c], w)
    BY <1>2, <2>1, <2>2, ReachesTail
  <2>4. Owed(c, w)'
    BY <1>3, <2>1 DEF Owed, Awaits
  <2> QED BY <1>4, <2>3, <2>4 DEF Follows
<1>5. CASE d # c
  <2>1. chan'[d] = chan[d] /\ store'[d] = store[d]
    BY <1>1, <1>2, <1>5 DEF TypeOK
  <2>2. ~Awaits(d)' => ~Awaits(d)
    BY <1>3 DEF Awaits
  <2> QED BY <1>1, <1>3, <2>1, <2>2, FollowsKept
<1> QED BY <1>4, <1>5


LEMMA FollowedConnection ==
    ASSUME Inv, Inv', Routed, Followed, HasRoom', DefaultFocus = None,
           Restart \/ \E c \in Client : Connect(c) \/ Disconnect(c)
    PROVE  Followed'
<1> SUFFICES ASSUME NEW d \in Client PROVE Follows(d)'
  BY DEF Followed
<1>1. TypeOK /\ TypeOK' /\ Follows(d) /\ cur \in Switch \cup {None}
  BY DEF Inv, Followed, TypeOK
<1>2. CASE Restart
  <2>1. store'[d] = store[d] /\ chan'[d] = <<>> /\ focus'[d] = None
    BY <1>2 DEF Restart
  <2> QED BY <1>1, <2>1, FollowsGone
<1>3. ASSUME NEW c \in Client, Connect(c)
      PROVE  Follows(d)'
  <2>1. CASE d = c
    BY <1>1, <1>3, <2>1, FollowsGreeting
  <2>2. CASE d # c
    <3>1. /\ store'[d] = store[d] /\ chan'[d] = chan[d] /\ focus'[d] = focus[d]
          /\ cur' = cur /\ journals' = journals
      BY <1>1, <1>3, <2>2 DEF Connect, TypeOK, hubVars
    <3>2. ~Awaits(d)' => ~Awaits(d)
      BY <3>1 DEF Awaits
    <3> QED BY <1>1, <3>1, <3>2, FollowsKept
  <2> QED BY <2>1, <2>2
<1>4. ASSUME NEW c \in Client, Disconnect(c)
      PROVE  Follows(d)'
  <2>1. /\ store' = store /\ journals' = journals
        /\ focus' = [focus EXCEPT ![c] = None] /\ chan' = [chan EXCEPT ![c] = <<>>]
        /\ cur' = IF cur # None /\ cur.client = c THEN [cur EXCEPT !.client = None] ELSE cur
    BY <1>4 DEF Disconnect, hubVars
  <2>2. CASE d = c
    <3>1. store'[d] = store[d] /\ chan'[d] = <<>> /\ focus'[d] = None
      BY <1>1, <2>1, <2>2 DEF TypeOK
    <3> QED BY <1>1, <3>1, FollowsGone
  <2>3. CASE d # c
    <3>1. store'[d] = store[d] /\ chan'[d] = chan[d] /\ focus'[d] = focus[d]
      BY <1>1, <2>1, <2>3 DEF TypeOK
    <3>2. Awaits(d) => Awaits(d)'
      <4>1. CASE cur # None /\ cur.client = c
        <5>1. PICK x \in Switch : x = cur
          BY <1>1, <4>1
        <5>2. PICK y : y = [x EXCEPT !.client = None]
          OBVIOUS
        <5>3. cur' = y
          BY <2>1, <4>1, <5>1, <5>2
        <5>4. y \in Switch /\ y.client = None /\ y.phase = x.phase
          BY <5>2 DEF Switch
        <5>5. /\ x.phase \in {"fetching", "switched"} => y.sid = x.sid
              /\ x.phase = "reseeding" => y.msg = x.msg
          BY <5>2 DEF Switch
        <5>6. y # None /\ d # None
          BY <5>4, NoneAssumption
        <5> QED BY <3>1, <5>1, <5>3, <5>4, <5>5, <5>6 DEF Awaits
      <4>2. CASE ~(cur # None /\ cur.client = c)
        <5>1. cur' = cur
          BY <2>1, <4>2
        <5> QED BY <3>1, <5>1 DEF Awaits
      <4> QED BY <4>1, <4>2
    <3> QED BY <1>1, <2>1, <3>1, <3>2, FollowsKept
  <2> QED BY <2>2, <2>3
<1> QED BY <1>2, <1>3, <1>4

LEMMA FollowedHub ==
    ASSUME Inv, Inv', Routed, Followed, HasRoom', NEW c \in Client,
           HubHandles(c) \/ \E s \in Session : UserOpen(c, s) \/ UserReload(c, s)
    PROVE  Followed'
<1> SUFFICES ASSUME NEW d \in Client PROVE Follows(d)'
  BY DEF Followed
<1>1. /\ TypeOK /\ TypeOK' /\ Follows(d) /\ UNCHANGED <<journals, store, focus, cur>>
      /\ focus[c] \in Session \cup {None}
  BY DEF Inv, Followed, TypeOK, HubHandles, HandleRequestSeed, HandleSwitch, Handles, UserOpen,
         UserReload, hubVars, opVars
<1>2. CASE chan'[d] = chan[d]
  <2>1. ~Awaits(d)' => ~Awaits(d)
    BY <1>1 DEF Awaits
  <2> QED BY <1>1, <1>2, <2>1, FollowsKept
<1>3. CASE d = c /\ chan' = Push({c}, seed_msg(journals, focus[c]))
  <2> DEFINE msg == seed_msg(journals', focus'[c])
  <2>1. chan'[d] = try_send(chan[d], <<msg>>)
    BY <1>1, <1>3, PushReaches
  <2>2. msg \in ServerMsg
    BY <1>1, SeedMsgType, MsgTypes DEF TypeOK
  <2>3. focus'[d] # None => msg = seed_msg(journals', focus'[d]) /\ journals'[focus'[d]] # None
    BY <1>1, <1>3 DEF Routed, FocusHasJournal, HasJournal
  <2> HIDE DEF msg
  <2> QED BY <1>1, <2>1, <2>2, <2>3, FollowsSeed
<1>4. chan'[d] = chan[d] \/ (d = c /\ chan' = Push({c}, seed_msg(journals, focus[c])))
  <2>1. chan' = chan \/ chan' = Push({c}, seed_msg(journals, focus[c]))
    BY DEF HubHandles, HandleRequestSeed, HandleSwitch, UserOpen, UserReload
  <2>2. d # c => Push({c}, seed_msg(journals, focus[c]))[d] = chan[d]
    BY DEF Push
  <2> QED BY <2>1, <2>2
<1> QED BY <1>2, <1>3, <1>4

LEMMA FollowedFinish ==
    ASSUME Inv, Inv', Routed, Followed, HasRoom', FinishSwitch
    PROVE  Followed'
<1> SUFFICES ASSUME NEW d \in Client PROVE Follows(d)'
  BY DEF Followed
<1>1. /\ TypeOK /\ TypeOK' /\ Follows(d) /\ store' = store
      /\ focus[d] \in Session \cup {None}
      /\ cur \in Switch /\ cur \in Switch \cup {None} /\ cur # None /\ cur.phase = "fetching"
  BY DEF Inv, Followed, TypeOK, FinishSwitch
<1>2. PICK x, s : x = cur.client /\ s = cur.sid
  OBVIOUS
<1>3. s \in Session /\ x \in Client \cup {None} /\ d # None
  BY <1>1, <1>2, SwitchTypes, NoneAssumption
<1>4. /\ journals'[s] # None
      /\ \A y \in Session : y # s => journals'[y] = journals[y]
      /\ journals'[s] = journals[s] \/ cur.reseed \/ ~HasJournal(s)
  <2>1. ASSUME NEW seed \in Seeds, StartEpoch(s, seed)
        PROVE  journals'[s] # None /\ \A y \in Session : y # s => journals'[y] = journals[y]
    BY <1>1, <1>3, <2>1, StartEpochHas DEF StartEpoch, TypeOK
  <2> QED BY <1>2, <2>1 DEF FinishSwitch, hubVars, HasJournal
<1>5. ~Awaits(d)
  BY <1>1 DEF Awaits
<1>6. CASE d = x
  <2>1. focus' = [focus EXCEPT ![x] = s] /\ chan' = Push({x}, seed_msg(journals', s))
    BY <1>2, <1>3, <1>6 DEF FinishSwitch
  <2>2. focus'[d] = s /\ chan'[d] = try_send(chan[d], <<seed_msg(journals', s)>>)
    BY <1>1, <1>6, <2>1, PushReaches DEF TypeOK
  <2>3. seed_msg(journals', s) \in ServerMsg
    BY <1>1, <1>3, SeedMsgType, MsgTypes DEF TypeOK
  <2> QED BY <1>1, <1>4, <2>2, <2>3, FollowsSeed
<1>7. CASE d # x
  <2>1. chan'[d] = chan[d] /\ focus'[d] = focus[d]
    <3>1. CASE x = None
      BY <1>2, <3>1 DEF FinishSwitch
    <3>2. CASE x # None
      <4>1. focus' = [focus EXCEPT ![x] = s] /\ chan' = Push({x}, seed_msg(journals', s))
        BY <1>2, <3>2 DEF FinishSwitch
      <4>2. Push({x}, seed_msg(journals', s))[d] = chan[d]
        BY <1>7 DEF Push
      <4> QED BY <1>1, <1>7, <4>1, <4>2 DEF TypeOK
    <3> QED BY <3>1, <3>2
  <2>2. ASSUME focus[d] # None, ~Awaits(d)'
        PROVE  journals'[focus[d]] = journals[focus[d]]
    <3>1. CASE focus[d] # s
      BY <1>1, <1>4, <2>2, <3>1
    <3>2. CASE focus[d] = s /\ ~cur.reseed
      BY <1>4, <2>2, <3>2 DEF Routed, FocusHasJournal
    <3>3. CASE focus[d] = s /\ cur.reseed
      <4>1. PICK y : y = [cur EXCEPT !.phase = "switched"]
        OBVIOUS
      <4>2. y \in Switch /\ y.client = x /\ y.sid = s /\ y.phase = "switched"
        BY <1>1, <1>2, <4>1 DEF Switch
      <4>3. cur' = y /\ y # None
        BY <3>3, <4>1, <4>2, NoneAssumption DEF FinishSwitch
      <4>4. Awaits(d)'
        BY <1>7, <2>1, <3>3, <4>2, <4>3 DEF Awaits
      <4> QED BY <2>2, <4>4
    <3> QED BY <3>1, <3>2, <3>3
  <2> QED BY <1>1, <1>5, <2>1, <2>2, FollowsKept DEF Target
<1> QED BY <1>6, <1>7

LEMMA FollowedApplier ==
    ASSUME Inv, Inv', Routed, Followed, HasRoom', Applier, ~LateReseed
    PROVE  Followed'
<1> SUFFICES ASSUME NEW d \in Client PROVE Follows(d)'
  BY DEF Followed
<1>1. TypeOK /\ TypeOK' /\ Follows(d) /\ cur \in Switch \cup {None} /\ opq \in Seq(Op)
  BY DEF Inv, Followed, TypeOK
<1>2. CASE FinishSwitch
  <2>1. Followed'
    BY <1>2, FollowedFinish
  <2> QED BY <2>1 DEF Followed
<1>3. CASE ~FinishSwitch
  <2>1. UNCHANGED <<journals, focus, store>>
    BY <1>3 DEF Applier, StartSwitch, FailSwitch, BuildReseed, SendReseed, RunConnectList,
                RunSwitchList, hubVars
  <2>2. ASSUME chan'[d] = chan[d], ~Awaits(d)' => ~Awaits(d)
        PROVE  Follows(d)'
    BY <1>1, <2>1, <2>2, FollowsKept
  <2>3. CASE StartSwitch \/ FailSwitch
    <3>1. chan' = chan /\ ~Awaits(d)
      BY <2>3 DEF StartSwitch, FailSwitch, netVars, Awaits
    <3> QED BY <2>2, <3>1
  <2>4. CASE BuildReseed
    <3>1. seed_msg(journals, cur.sid).sid = cur.sid
      BY DEF seed_msg
    <3>2. chan' = chan /\ (Awaits(d) => Awaits(d)')
      <4>1. cur.phase = "switched" /\ focus' = focus /\ chan' = chan
        BY <2>4 DEF BuildReseed, netVars
      <4>2. PICK x, m : /\ x = cur.client /\ m = seed_msg(journals, cur.sid)
                        /\ cur' = [phase |-> "reseeding", client |-> x, msg |-> m]
        BY <2>4 DEF BuildReseed
      <4>3. cur'.phase = "reseeding" /\ cur'.client = x /\ cur'.msg = m
        BY <4>2
      <4>4. cur' # None
        <5>1. m \in SeedMsg /\ x \in Client \cup {None}
          <6>1. cur # None /\ cur.sid \in Session
            BY <1>1, <2>4, SwitchTypes DEF BuildReseed
          <6> QED BY <1>1, <4>2, <6>1, SeedMsgType, SwitchTypes DEF TypeOK
        <5>2. cur' \in Switch
          BY <4>2, <5>1 DEF Switch
        <5> QED BY <5>2, NoneAssumption
      <4> QED BY <3>1, <4>1, <4>2, <4>3, <4>4 DEF Awaits
    <3> QED BY <2>2, <3>2
  <2>5. CASE SendReseed
    <3>1. /\ cur # None /\ cur.phase = "reseeding"
          /\ chan' = Push(clients_focused(cur.msg.sid) \ {cur.client}, cur.msg)
      BY <2>5 DEF SendReseed
    <3>2. cur.msg \in ServerMsg
      BY <1>1, <3>1, SwitchTypes, MsgTypes
    <3>3. CASE d \in clients_focused(cur.msg.sid) \ {cur.client}
      <4>1. cur.msg = seed_msg(journals, focus[d]) /\ chan'[d] = try_send(chan[d], <<cur.msg>>)
        BY <2>5, <3>1, <3>3, PushReaches DEF LateReseed, clients_focused
      <4>2. focus'[d] # None => journals'[focus'[d]] # None
        BY <2>1 DEF Routed, FocusHasJournal, HasJournal
      <4> QED BY <1>1, <2>1, <3>2, <4>1, <4>2, FollowsSeed
    <3>4. CASE d \notin clients_focused(cur.msg.sid) \ {cur.client}
      <4>1. chan'[d] = chan[d]
        <5>1. PICK to, m : to = clients_focused(cur.msg.sid) \ {cur.client} /\ m = cur.msg
          OBVIOUS
        <5>2. Push(to, m)[d] = chan[d]
          BY <3>4, <5>1 DEF Push
        <5>3. chan' = Push(to, m)
          BY <3>1, <5>1
        <5> QED BY <5>2, <5>3
      <4>2. CASE focus[d] = None
        <5>1. focus'[d] = None
          BY <2>1, <4>2
        <5> QED BY <1>1, <2>1, <4>1, <5>1, FollowsKept
      <4>3. CASE focus[d] # None
        <5>1. ~Awaits(d)
          BY <3>1, <3>4, <4>3 DEF Awaits, Routed, FocusHasJournal, clients_focused
        <5> QED BY <2>2, <4>1, <5>1
      <4> QED BY <4>2, <4>3
    <3> QED BY <3>3, <3>4
  <2>6. ASSUME cur' = cur, NEW a \in Session \cup {None}, chan'[d] = try_send(chan[d], <<list_msg(a)>>)
        PROVE  Follows(d)'
    <3>1. list_msg(a) \in ServerMsg /\ list_msg(a).type = "sessionList"
      BY <2>6, MsgTypes DEF list_msg, ListMsg
    <3> QED BY <1>1, <2>1, <2>6, <3>1, FollowsList
  <2>7. cur' = cur => (~Awaits(d)' => ~Awaits(d))
    BY <2>1 DEF Awaits
  <2>8. CASE RunConnectList
    <3>1. cur' = cur /\ Head(opq).active \in Session \cup {None}
      BY <1>1, <2>8, OpTypes DEF RunConnectList
    <3>2. chan' = chan \/ chan' = Push({Head(opq).client}, list_msg(Head(opq).active))
      BY <2>8 DEF RunConnectList
    <3>3. chan'[d] = chan[d] \/ chan'[d] = try_send(chan[d], <<list_msg(Head(opq).active)>>)
      BY <3>2, PushSends
    <3> QED BY <2>2, <2>6, <2>7, <3>1, <3>3
  <2>9. CASE RunSwitchList
    <3>1. /\ cur' = cur /\ focus[d] \in Session \cup {None}
          /\ chan'[d] = chan[d] \/ chan'[d] = try_send(chan[d], <<list_msg(focus[d])>>)
      BY <1>1, <2>9 DEF RunSwitchList, TypeOK
    <3> QED BY <2>2, <2>6, <2>7, <3>1
  <2> QED BY <1>3, <2>3, <2>4, <2>5, <2>8, <2>9 DEF Applier
<1> QED BY <1>2, <1>3


LEMMA FollowedStep ==
    ASSUME Inv, Inv', Routed, Followed, HasRoom', DefaultFocus = None, [Next]_vars, [~LateReseed]_vars
    PROVE  Followed'
<1>1. CASE UNCHANGED vars
  BY <1>1 DEF vars, hubVars, netVars, opVars, Followed, Follows, Owed, Awaits
<1>2. CASE ~LateReseed /\ Next
  <2>1. CASE \E s \in Session : IngestNow(s) \/ SessionReset(s) \/ SessionClosed(s)
    BY <2>1, FollowedDriver
  <2>2. CASE Restart \/ \E c \in Client : Connect(c) \/ Disconnect(c)
    BY <2>2, FollowedConnection
  <2>3. CASE \E c \in Client : TabReceives(c)
    BY <2>3, FollowedTab
  <2>4. CASE \E c \in Client : HubHandles(c) \/ \E s \in Session : UserOpen(c, s) \/ UserReload(c, s)
    BY <2>4, FollowedHub
  <2>5. CASE Applier
    BY <1>2, <2>5, FollowedApplier
  <2> QED BY <1>2, <2>1, <2>2, <2>3, <2>4, <2>5 DEF Next
<1> QED BY <1>1, <1>2

\* At rest nothing is on its way, so a tab that follows is there.
LEMMA QuietFollowed ==
    ASSUME TypeOK, Routed, Followed
    PROVE  ViewersAreServed
<1> SUFFICES ASSUME Quiet, NEW c \in clients, focus[c] # None PROVE Current(c)
  BY DEF ViewersAreServed, QuietViewsCurrent, Routed
<1>1. c \in Client /\ chan[c] = <<>> /\ ~Awaits(c)
  BY DEF TypeOK, Quiet, Awaits
<1>2. PICK w \in Places : Reaches(store[c], chan[c], w) /\ Owed(c, w)
  BY <1>1 DEF Followed, Follows
<1>3. w = Mark(store[c])
  <2>1. PICK t \in [Nat -> Places] : t[0] = Mark(store[c]) /\ t[Len(chan[c])] = w
    BY <1>2 DEF Reaches
  <2>2. Len(chan[c]) = 0
    BY <1>1
  <2> QED BY <2>1, <2>2
<1>4. Mark(store[c]) = Target(journals, focus[c])
  BY <1>1, <1>2, <1>3 DEF Owed
<1> QED BY <1>4 DEF Mark, Target, Current

\* Viewers are served: there is always a journal behind the focus of a connected tab,
\* and whenever nothing is on its way each tab shows all of its journal, however
\* connections, resumes, resets, switches and reloads interleaved.  That is so as long
\* as no channel fills up and no reseed goes out that the journal has overtaken, on a
\* hub without a landing session (add_client, on_event, switch_to, finish_switch).
THEOREM ViewersCorrect ==
    ASSUME DefaultFocus = None
    PROVE  Spec /\ []HasRoom /\ [][~LateReseed]_vars => []ViewersAreServed
<1> DEFINE All == Inv /\ Routed /\ Followed
<1>1. Init => All
  <2> SUFFICES ASSUME Init PROVE Inv /\ Routed /\ Followed
    OBVIOUS
  <2>1. Inv /\ Routed
    BY InvInit, RoutedInit
  <2>2. ASSUME NEW c \in Client PROVE Follows(c)
    <3>1. store[c] \in Store /\ chan[c] = <<>> /\ focus[c] = None
      BY <2>1 DEF Init, Inv, TypeOK
    <3>2. Mark(store[c]) \in Places /\ Reaches(store[c], <<>>, Mark(store[c]))
      BY <3>1, MarkType, ReachesHere
    <3> QED BY <3>1, <3>2 DEF Follows, Owed
  <2> QED BY <2>1, <2>2 DEF Followed
<1>2. All /\ [Next]_vars /\ [~LateReseed]_vars /\ HasRoom' => All'
  <2> SUFFICES ASSUME Inv, Routed, Followed, [Next]_vars, [~LateReseed]_vars, HasRoom'
               PROVE  Inv' /\ Routed' /\ Followed'
    OBVIOUS
  <2>1. Inv' /\ Routed'
    BY InvStep, RoutedStep DEF Inv
  <2> QED BY <2>1, FollowedStep
<1>3. All => ViewersAreServed
  BY QuietFollowed DEF Inv
<1> QED BY <1>1, <1>2, <1>3, PTL DEF Spec
=============================================================================
