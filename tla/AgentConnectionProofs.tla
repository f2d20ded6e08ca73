------------------------ MODULE AgentConnectionProofs ------------------------
(***************************************************************************)
(* Proofs about AgentConnection for any set of clients, bridged or not,    *)
(* any kinds of request and any bound on the frames of one.                *)
(***************************************************************************)
EXTENDS AgentConnection, TLAPS

-----------------------------------------------------------------------------
(* Frames on their way: what a sequence of frames holds, and whether every  *)
(* exit frame in it stands behind an error frame.                           *)
Holds(s) == {s[i] : i \in DOMAIN s}
Decided(s) == \A i \in DOMAIN s : s[i] = "exit" => \E j \in 1 .. i - 1 : s[j] = "error"

(* What one frame more, or the first frame less, does to a sequence.        *)
LEMMA AppendFacts ==
    ASSUME NEW s \in Seq(Frames), NEW f \in Frames
    PROVE  /\ Append(s, f) \in Seq(Frames)
           /\ Holds(Append(s, f)) = Holds(s) \cup {f}
<1>1. /\ Append(s, f) \in Seq(Frames) /\ Len(Append(s, f)) = Len(s) + 1
      /\ \A i \in 1 .. Len(s) : Append(s, f)[i] = s[i]
      /\ Append(s, f)[Len(s) + 1] = f
  OBVIOUS
<1>2. DOMAIN s = 1 .. Len(s) /\ DOMAIN Append(s, f) = 1 .. Len(s) + 1
      /\ Len(s) \in Nat
  BY <1>1
<1>3. Holds(Append(s, f)) \subseteq Holds(s) \cup {f}
  BY <1>1, <1>2 DEF Holds
<1>4. Holds(s) \cup {f} \subseteq Holds(Append(s, f))
  BY <1>1, <1>2 DEF Holds
<1> QED
  BY <1>1, <1>3, <1>4

LEMMA SendFacts ==
    ASSUME NEW s \in Seq(Frames), NEW f \in Frames
    PROVE  /\ s \o <<f>> \in Seq(Frames)
           /\ Holds(s \o <<f>>) = Holds(s) \cup {f}
           /\ Decided(s) /\ (f = "exit" => "error" \in Holds(s))
                => Decided(s \o <<f>>)
<1>1. /\ s \o <<f>> \in Seq(Frames) /\ Len(s \o <<f>>) = Len(s) + 1
      /\ \A i \in 1 .. Len(s) : (s \o <<f>>)[i] = s[i]
      /\ (s \o <<f>>)[Len(s) + 1] = f
  OBVIOUS
<1>2. DOMAIN s = 1 .. Len(s) /\ DOMAIN (s \o <<f>>) = 1 .. Len(s) + 1
      /\ Len(s) \in Nat
  BY <1>1
<1>3. Holds(s \o <<f>>) \subseteq Holds(s) \cup {f}
  BY <1>1, <1>2 DEF Holds
<1>4. Holds(s) \cup {f} \subseteq Holds(s \o <<f>>)
  BY <1>1, <1>2 DEF Holds
<1>5. ASSUME Decided(s), f = "exit" => "error" \in Holds(s)
      PROVE  Decided(s \o <<f>>)
  BY <1>1, <1>2, <1>5 DEF Decided, Holds
<1> QED
  BY <1>1, <1>3, <1>4, <1>5

LEMMA TailFacts ==
    ASSUME NEW s \in Seq(Frames), s # <<>>
    PROVE  /\ Tail(s) \in Seq(Frames) /\ Head(s) \in Frames
           /\ Head(s) \in Holds(s) /\ Holds(Tail(s)) \subseteq Holds(s)
           /\ Holds(s) \subseteq Holds(Tail(s)) \cup {Head(s)}
           /\ Decided(s) => Head(s) # "exit"
           /\ Decided(s) /\ Head(s) # "error" => Decided(Tail(s))
<1>1. /\ Tail(s) \in Seq(Frames) /\ Head(s) \in Frames /\ Head(s) = s[1]
      /\ Len(s) \in Nat /\ Len(s) >= 1 /\ Len(Tail(s)) = Len(s) - 1
      /\ \A i \in 1 .. Len(s) - 1 : Tail(s)[i] = s[i + 1]
  OBVIOUS
<1>2. DOMAIN s = 1 .. Len(s) /\ DOMAIN Tail(s) = 1 .. Len(s) - 1
  BY <1>1
<1>3. /\ Head(s) \in Holds(s) /\ Holds(Tail(s)) \subseteq Holds(s)
      /\ Decided(s) => Head(s) # "exit"
  BY <1>1, <1>2 DEF Holds, Decided
<1>4. ASSUME NEW i \in 1 .. Len(s)
      PROVE  s[i] \in Holds(Tail(s)) \cup {Head(s)}
  <2>1. CASE i = 1
    BY <1>1, <2>1
  <2>2. CASE i # 1
    <3>1. i - 1 \in 1 .. Len(s) - 1 /\ Tail(s)[i - 1] = s[i]
      BY <1>1, <2>2
    <3> QED
      BY <1>2, <3>1 DEF Holds
  <2> QED
    BY <2>1, <2>2
<1>5. ASSUME Decided(s), Head(s) # "error", NEW i \in 1 .. Len(s) - 1,
             Tail(s)[i] = "exit"
      PROVE  \E j \in 1 .. i - 1 : Tail(s)[j] = "error"
  <2>1. PICK j \in 1 .. i : s[j] = "error"
    <3>1. i + 1 \in DOMAIN s /\ s[i + 1] = "exit"
      BY <1>1, <1>2, <1>5
    <3> QED
      BY <1>5, <3>1 DEF Decided
  <2>2. j - 1 \in 1 .. i - 1 /\ j - 1 \in 1 .. Len(s) - 1
    BY <1>1, <1>5, <2>1
  <2>3. Tail(s)[j - 1] = s[j]
    BY <1>1, <2>1, <2>2
  <2> QED
    BY <2>1, <2>2, <2>3
<1> QED
  BY <1>1, <1>2, <1>3, <1>4, <1>5 DEF Holds, Decided

-----------------------------------------------------------------------------
(* What the operations on a stream change: one stream, and of it one field. *)
Same(w, v, l) == w[l] = v[l]
Others(w, v, l) == \A k \in Links \ {l} : w[k] = v[k]

LEMMA StreamFields ==
    ASSUME NEW w \in [Links -> Streams], NEW l \in Links
    PROVE  /\ w[l].up \in Seq(Frames) /\ w[l].down \in Seq(Frames)
           /\ w[l].gone \in BOOLEAN /\ w[l].shut \in BOOLEAN
BY DEF Streams

LEMMA StreamRecord ==
    ASSUME NEW r \in Streams, NEW f \in Seq(Frames)
    PROVE  /\ [r EXCEPT !.up = f] \in Streams
           /\ [r EXCEPT !.up = f].up = f /\ [r EXCEPT !.up = f].down = r.down
           /\ [r EXCEPT !.up = f].gone = r.gone /\ [r EXCEPT !.up = f].shut = r.shut
           /\ [r EXCEPT !.down = f] \in Streams
           /\ [r EXCEPT !.down = f].down = f /\ [r EXCEPT !.down = f].up = r.up
           /\ [r EXCEPT !.down = f].gone = r.gone
           /\ [r EXCEPT !.down = f].shut = r.shut
BY DEF Streams

LEMMA StreamUpdate ==
    ASSUME NEW w \in [Links -> Streams], NEW l \in Links, NEW r \in Streams,
           NEW v, v = [w EXCEPT ![l] = r]
    PROVE  v \in [Links -> Streams] /\ Others(v, w, l) /\ v[l] = r
BY DEF Others

LEMMA SendUpFacts ==
    ASSUME NEW w \in [Links -> Streams], NEW l \in Links, NEW f \in Frames
    PROVE  LET v == SendUp(w, l, f) IN
           /\ v \in [Links -> Streams] /\ Others(v, w, l)
           /\ Holds(v[l].up) = Holds(w[l].up) \cup {f}
           /\ v[l].down = w[l].down
           /\ v[l].gone = w[l].gone /\ v[l].shut = w[l].shut
<1> DEFINE v == SendUp(w, l, f)
<1> DEFINE r == [w[l] EXCEPT !.up = Append(w[l].up, f)]
<1>1. v = [w EXCEPT ![l] = r]
  BY DEF SendUp
<1>2. Append(w[l].up, f) \in Seq(Frames)
      /\ Holds(Append(w[l].up, f)) = Holds(w[l].up) \cup {f}
  BY StreamFields, AppendFacts
<1>3. r \in Streams /\ r.up = Append(w[l].up, f) /\ r.down = w[l].down
      /\ r.gone = w[l].gone /\ r.shut = w[l].shut
  BY <1>2, StreamRecord, ZenonT(60)
<1> HIDE DEF r
<1>4. v \in [Links -> Streams] /\ Others(v, w, l) /\ v[l] = r
  BY <1>1, <1>3, StreamUpdate
<1> QED
  BY <1>2, <1>3, <1>4

(* A frame sent down is lost when the stream is closed.                     *)
Sent(v, w, l, f) ==
    /\ v \in [Links -> Streams] /\ Others(v, w, l)
    /\ v[l].up = w[l].up
    /\ v[l].gone = w[l].gone /\ v[l].shut = w[l].shut
    /\ Holds(v[l].down) \subseteq Holds(w[l].down) \cup {f}
    /\ Holds(w[l].down) \subseteq Holds(v[l].down)
    /\ ~w[l].gone /\ ~w[l].shut => f \in Holds(v[l].down)
    /\ Decided(w[l].down)
         /\ (f = "exit" /\ ~w[l].gone /\ ~w[l].shut => "error" \in Holds(w[l].down))
       => Decided(v[l].down)

LEMMA SendDownFacts ==
    ASSUME NEW w \in [Links -> Streams], NEW l \in Links, NEW f \in Frames
    PROVE  /\ Sent(SendDown(w, l, <<f>>), w, l, f)
           /\ SendDown(w, l, <<f>>) \in [Links -> Streams]
<1> DEFINE v == SendDown(w, l, <<f>>)
<1>1. CASE w[l].gone \/ w[l].shut
  BY <1>1 DEF SendDown, Others, Sent
<1>2. CASE ~(w[l].gone \/ w[l].shut)
  <2> DEFINE r == [w[l] EXCEPT !.down = w[l].down \o <<f>>]
  <2>1. v = [w EXCEPT ![l] = r]
    BY <1>2 DEF SendDown
  <2>2. /\ w[l].down \o <<f>> \in Seq(Frames)
        /\ Holds(w[l].down \o <<f>>) = Holds(w[l].down) \cup {f}
        /\ Decided(w[l].down) /\ (f = "exit" => "error" \in Holds(w[l].down))
             => Decided(w[l].down \o <<f>>)
    BY StreamFields, SendFacts
  <2>3. r \in Streams /\ r.down = w[l].down \o <<f>> /\ r.up = w[l].up
        /\ r.gone = w[l].gone /\ r.shut = w[l].shut
    BY <2>2, StreamRecord
  <2> HIDE DEF r
  <2>4. v \in [Links -> Streams] /\ Others(v, w, l) /\ v[l] = r
    BY <2>1, <2>3, StreamUpdate
  <2> QED
    BY <1>2, <2>2, <2>3, <2>4 DEF Sent
<1> QED
  BY <1>1, <1>2 DEF Sent

LEMMA SendNothing ==
    ASSUME NEW w \in [Links -> Streams], NEW l \in Links
    PROVE  SendDown(w, l, <<>>) = w
<1>1. w[l].down \o <<>> = w[l].down
  BY StreamFields
<1>2. [w EXCEPT ![l] = [w[l] EXCEPT !.down = w[l].down]] = w
  BY DEF Streams
<1> QED
  BY <1>1, <1>2 DEF SendDown

LEMMA TakeUpFacts ==
    ASSUME NEW w \in [Links -> Streams], NEW l \in Links, w[l].up # <<>>
    PROVE  LET v == TakeUp(w, l) IN
           /\ v \in [Links -> Streams] /\ Others(v, w, l)
           /\ Holds(v[l].up) \subseteq Holds(w[l].up)
           /\ Head(w[l].up) \in Holds(w[l].up) /\ Head(w[l].up) \in Frames
           /\ v[l].down = w[l].down
           /\ v[l].gone = w[l].gone /\ v[l].shut = w[l].shut
<1> DEFINE v == TakeUp(w, l)
<1> DEFINE r == [w[l] EXCEPT !.up = Tail(w[l].up)]
<1>1. v = [w EXCEPT ![l] = r]
  BY DEF TakeUp
<1>2. /\ Tail(w[l].up) \in Seq(Frames) /\ Head(w[l].up) \in Frames
      /\ Head(w[l].up) \in Holds(w[l].up)
      /\ Holds(Tail(w[l].up)) \subseteq Holds(w[l].up)
  BY StreamFields, TailFacts
<1>3. r \in Streams /\ r.up = Tail(w[l].up) /\ r.down = w[l].down
      /\ r.gone = w[l].gone /\ r.shut = w[l].shut
  BY <1>2, StreamRecord
<1> HIDE DEF r
<1>4. v \in [Links -> Streams] /\ Others(v, w, l) /\ v[l] = r
  BY <1>1, <1>3, StreamUpdate
<1> QED
  BY <1>2, <1>3, <1>4

LEMMA TakeDownFacts ==
    ASSUME NEW w \in [Links -> Streams], NEW l \in Links, w[l].down # <<>>
    PROVE  LET v == TakeDown(w, l) IN
           /\ v \in [Links -> Streams] /\ Others(v, w, l)
           /\ v[l].up = w[l].up
           /\ v[l].gone = w[l].gone /\ v[l].shut = w[l].shut
           /\ Head(w[l].down) \in Holds(w[l].down) /\ Head(w[l].down) \in Frames
           /\ Holds(v[l].down) \subseteq Holds(w[l].down)
           /\ Holds(w[l].down) \subseteq Holds(v[l].down) \cup {Head(w[l].down)}
           /\ Decided(w[l].down) => Head(w[l].down) # "exit"
           /\ Decided(w[l].down) /\ Head(w[l].down) # "error" => Decided(v[l].down)
<1> DEFINE v == TakeDown(w, l)
<1> DEFINE s == w[l].down
           r == [w[l] EXCEPT !.down = Tail(s)]
<1>1. v = [w EXCEPT ![l] = r]
  BY DEF TakeDown
<1>2. /\ Tail(s) \in Seq(Frames) /\ Head(s) \in Frames
      /\ Head(s) \in Holds(s) /\ Holds(Tail(s)) \subseteq Holds(s)
      /\ Holds(s) \subseteq Holds(Tail(s)) \cup {Head(s)}
      /\ Decided(s) => Head(s) # "exit"
      /\ Decided(s) /\ Head(s) # "error" => Decided(Tail(s))
  BY StreamFields, TailFacts
<1>3. r \in Streams /\ r.down = Tail(s) /\ r.up = w[l].up
      /\ r.gone = w[l].gone /\ r.shut = w[l].shut
  BY <1>2, StreamRecord
<1> HIDE DEF r
<1>4. v \in [Links -> Streams] /\ Others(v, w, l) /\ v[l] = r
  BY <1>1, <1>3, StreamUpdate
<1> QED
  BY <1>2, <1>3, <1>4

LEMMA CloseFacts ==
    ASSUME NEW w \in [Links -> Streams], NEW l \in Links,
           NEW v, v = Hang(w, l) \/ v = Shut(w, l)
    PROVE  /\ v \in [Links -> Streams] /\ Others(v, w, l)
           /\ v[l].up = w[l].up /\ v[l].down = w[l].down
           /\ w[l].gone => v[l].gone
           /\ w[l].shut => v[l].shut
<1>1. CASE v = Hang(w, l)
  <2> DEFINE r == [w[l] EXCEPT !.gone = TRUE]
  <2>1. v = [w EXCEPT ![l] = r]
    BY <1>1 DEF Hang
  <2>2. r \in Streams /\ r.up = w[l].up /\ r.down = w[l].down
        /\ r.gone /\ r.shut = w[l].shut
    BY DEF Streams
  <2> HIDE DEF r
  <2>3. v \in [Links -> Streams] /\ Others(v, w, l) /\ v[l] = r
    BY <2>1, <2>2, StreamUpdate
  <2> QED
    BY <2>2, <2>3
<1>2. CASE v = Shut(w, l)
  <2> DEFINE r == [w[l] EXCEPT !.shut = TRUE]
  <2>1. v = [w EXCEPT ![l] = r]
    BY <1>2 DEF Shut
  <2>2. r \in Streams /\ r.up = w[l].up /\ r.down = w[l].down
        /\ r.shut /\ r.gone = w[l].gone
    BY DEF Streams
  <2> HIDE DEF r
  <2>3. v \in [Links -> Streams] /\ Others(v, w, l) /\ v[l] = r
    BY <2>1, <2>2, StreamUpdate
  <2> QED
    BY <2>2, <2>3
<1> QED
  BY <1>1, <1>2

-----------------------------------------------------------------------------
(***************************************************************************)
(* The inductive invariant, in parts.                                      *)
(***************************************************************************)

(* A bridge runs for a client that came through SSH, once it has dialled.   *)
BridgeOwned ==
    \A n \in Conns :
        /\ n \notin bridged => bridge[n] = "none"
        /\ client[n] = "idle" => bridge[n] = "none"

(* The ID of a command is stored before anything that knows it is on its    *)
(* way: the accepted frame to the client, and its cancel back.              *)
IDStoredFirst ==
    \A n \in Conns : ~commandID[n] =>
        /\ request[n] # "accepting"
        /\ ~told[n]
        /\ next[n] # "cancel"
        /\ \A x \in {"unix", "ssh"} : /\ "accepted" \notin Holds(wire[<<n, x>>].down)
                                      /\ "cancel" \notin Holds(wire[<<n, x>>].up)

(* Somebody may still read what the daemon sent.                            *)
Open(n) == IF n \in bridged THEN bridge[n] # "ended" ELSE client[n] # "ended"

(* Unless the daemon sent an exit frame first, every exit frame on the      *)
(* daemon's stream stands behind an error frame, and the error frame it     *)
(* did send is still there as long as another can follow it.                *)
InOrder(n) ==
    /\ Decided(wire[Far(n)].down)
    /\ final[n] = "error" /\ Sendable(Far(n)) => "error" \in Holds(wire[Far(n)].down)

DecisionKept == \A n \in Conns : Open(n) /\ final[n] # "exit" => InOrder(n)

(* ... and a bridge has passed none on.                                     *)
BridgeHonest ==
    \A n \in bridged : final[n] # "exit" => "exit" \notin Holds(wire[<<n, "ssh">>].down)

IInv ==
    /\ TypeOK /\ BridgeOwned /\ IDStoredFirst /\ CancelRecognised
    /\ DecisionKept /\ BridgeHonest /\ OutcomeTruth

-----------------------------------------------------------------------------
(* The ends of a client's streams, and the frames the daemon knows.         *)
LEMMA LinkFacts ==
    ASSUME NEW n \in Conns
    PROVE  /\ Far(n) \in Links /\ Near(n) \in Links /\ <<n, "ssh">> \in Links
           /\ Far(n) = <<n, "unix">> /\ Far(n) # <<n, "ssh">>
           /\ n \in bridged => Near(n) = <<n, "ssh">>
           /\ n \notin bridged => Near(n) = Far(n)
BY DEF Far, Near, Links

LEMMA LinksOfConns ==
    \A n, m \in Conns : \A x, y \in {"unix", "ssh"} :
        /\ <<n, x>> \in Links
        /\ n # m => <<n, x>> # <<m, y>>
        /\ <<n, "unix">> # <<m, "ssh">>
BY DEF Links

LEMMA FrameFacts ==
    /\ {"hello", "junk", "accepted", "report", "resource", "exit", "error"}
         \subseteq Frames
    /\ Kinds \subseteq Frames /\ Seconds \subseteq Frames
    /\ "cancel" \notin Kinds
BY ConnectionAssumption DEF Frames, RequestKinds, Cancels

(* Closings: no frame comes or goes, and a closed stream stays closed.      *)
Closes(v, w) ==
    /\ v \in [Links -> Streams]
    /\ \A l \in Links : /\ v[l].up = w[l].up /\ v[l].down = w[l].down
                        /\ w[l].gone => v[l].gone
                        /\ w[l].shut => v[l].shut

LEMMA ClosesFacts ==
    ASSUME NEW w \in [Links -> Streams], NEW l \in Links, NEW k \in Links
    PROVE  /\ Closes(w, w) /\ Closes(Hang(w, l), w) /\ Closes(Shut(w, l), w)
           /\ Closes(Hang(Shut(w, l), k), w)
<1>1. ASSUME NEW u \in [Links -> Streams], NEW i \in Links,
             NEW v, v = Hang(u, i) \/ v = Shut(u, i)
      PROVE  Closes(v, u)
  <2>1. /\ v \in [Links -> Streams] /\ Others(v, u, i)
        /\ v[i].up = u[i].up /\ v[i].down = u[i].down
        /\ u[i].gone => v[i].gone
        /\ u[i].shut => v[i].shut
    BY <1>1, CloseFacts
  <2> QED
    BY <2>1 DEF Closes, Others
<1>2. Closes(w, w)
  BY DEF Closes
<1>3. Closes(Hang(w, l), w) /\ Closes(Shut(w, l), w)
  BY <1>1
<1>4. Shut(w, l) \in [Links -> Streams]
  BY <1>3 DEF Closes
<1>5. Closes(Hang(Shut(w, l), k), Shut(w, l))
  BY <1>1, <1>4
<1>6. Closes(Hang(Shut(w, l), k), w)
  BY <1>3, <1>5 DEF Closes
<1> QED
  BY <1>2, <1>3, <1>6

LEMMA ReturnFacts ==
    ASSUME NEW n \in Conns, NEW w \in [Links -> Streams], NEW result,
           Return(n, w, result)
    PROVE  Closes(wire', w)
BY ClosesFacts, LinkFacts DEF Return

LEMMA CloseConnFacts ==
    ASSUME NEW n \in Conns, NEW w \in [Links -> Streams], Close(n, w)
    PROVE  Closes(wire', w)
BY ClosesFacts, LinkFacts DEF Close

(* The daemon's last word: an error frame, or nothing when it cannot be     *)
(* sent.                                                                    *)
LEMMA CloseWithErrorFacts ==
    ASSUME NEW n \in Conns, NEW w \in [Links -> Streams], CloseWithError(n, w)
    PROVE  /\ Closes(wire', SendDown(w, Far(n), <<"error">>))
           /\ SendDown(w, Far(n), <<"error">>) \in [Links -> Streams]
<1>1. SendDown(w, Far(n), <<"error">>) \in [Links -> Streams]
  <2> DEFINE v == SendDown(w, Far(n), <<"error">>)
  <2>1. v = SendDown(w, Far(n), <<"error">>)
    OBVIOUS
  <2>2. Far(n) \in Links /\ "error" \in Frames
    BY LinkFacts, FrameFacts
  <2> HIDE DEF v
  <2> QED
    BY <2>1, <2>2, SendDownFacts
<1> QED
  BY <1>1, CloseConnFacts DEF CloseWithError

Ended(n, w, f) ==
    /\ wire' \in [Links -> Streams]
    /\ \A k \in Links : /\ wire'[k].up = w[k].up
                        /\ w[k].gone => wire'[k].gone
                        /\ w[k].shut => wire'[k].shut
    /\ \A k \in Links \ {<<n, "ssh">>} : wire'[k].down = w[k].down
    /\ Holds(wire'[<<n, "ssh">>].down) \subseteq Holds(w[<<n, "ssh">>].down) \cup {f}

LEMMA BridgeEndsFacts ==
    ASSUME NEW n \in Conns, NEW w \in [Links -> Streams], NEW f \in Frames,
           NEW s \in {<<>>, <<f>>}, BridgeEnds(n, w, s)
    PROVE  Ended(n, w, f) /\ wire' \in [Links -> Streams]
<1> DEFINE l == <<n, "ssh">>
           v == SendDown(w, l, s)
<1>1. l \in Links
  BY LinkFacts
<1>2. /\ v \in [Links -> Streams] /\ Others(v, w, l)
      /\ v[l].up = w[l].up /\ v[l].gone = w[l].gone /\ v[l].shut = w[l].shut
      /\ Holds(v[l].down) \subseteq Holds(w[l].down) \cup {f}
      /\ s = <<>> => v[l].down = w[l].down
  <2>1. CASE s = <<>>
    BY <1>1, <2>1, SendNothing DEF Others
  <2>2. CASE s = <<f>>
    <3>1. <<f>> # <<>>
      OBVIOUS
    <3>2. v = SendDown(w, l, <<f>>)
      BY <2>2
    <3> HIDE DEF l, v
    <3>3. /\ v \in [Links -> Streams] /\ Others(v, w, l)
          /\ v[l].up = w[l].up /\ v[l].gone = w[l].gone /\ v[l].shut = w[l].shut
          /\ Holds(v[l].down) \subseteq Holds(w[l].down) \cup {f}
      <4>1. Sent(v, w, l, f)
        BY <1>1, <3>2, SendDownFacts
      <4> QED
        BY <4>1 DEF Sent
    <3>4. s # <<>>
      BY <2>2, <3>1
    <3> QED
      BY <3>3, <3>4
  <2> QED
    BY <2>1, <2>2
<1>3. Closes(wire', v)
  BY <1>1, <1>2, ClosesFacts, LinkFacts DEF BridgeEnds
<1>4. \A k \in Links \ {l} : v[k] = w[k]
  BY <1>2 DEF Others
<1> HIDE DEF l, v
<1>5. /\ \A k \in Links : wire'[k].up = w[k].up
      /\ \A k \in Links \ {l} : wire'[k].down = w[k].down
      /\ wire'[l].down = v[l].down
      /\ \A k \in Links : /\ w[k].gone => wire'[k].gone
                          /\ w[k].shut => wire'[k].shut
  BY <1>1, <1>2, <1>3, <1>4 DEF Closes
<1> QED
  BY <1>2, <1>3, <1>5 DEF Closes, Ended, l

-----------------------------------------------------------------------------
(***************************************************************************)
(* Type correctness.                                                       *)
(***************************************************************************)
LEMMA ClientTypeOK ==
    ASSUME TypeOK, NEW n \in Conns, Client(n)
    PROVE  TypeOK'
<1>0. /\ wire \in [Links -> Streams] /\ kind[n] \in Frames
      /\ Near(n) \in Links
  BY LinkFacts, FrameFacts DEF TypeOK
<1>1. CASE Dial(n)
  <2>1. PICK hello \in {"hello", "junk"} : wire' = SendUp(wire, Near(n), hello)
    BY <1>1 DEF Dial
  <2>2. hello \in Frames
    BY FrameFacts
  <2>3. wire' \in [Links -> Streams]
    BY <1>0, <2>1, <2>2, SendUpFacts
  <2> QED
    BY <1>1, <2>3 DEF Dial, TypeOK, serverVars, requestVars, serveVars
<1>2. CASE Greeted(n)
  <2> DEFINE w == TakeDown(wire, Near(n))
  <2>1. w \in [Links -> Streams] /\ SendUp(w, Near(n), kind[n]) \in [Links -> Streams]
    BY <1>0, <1>2, TakeDownFacts, SendUpFacts DEF Greeted
  <2>2. wire' \in [Links -> Streams]
    BY <1>2, <2>1, ReturnFacts DEF Greeted, Closes
  <2> QED
    BY <1>2, <2>2, ZenonT(60)
       DEF Greeted, Return, TypeOK, serverVars, requestVars, serveVars
<1>3. CASE Receive(n)
  <2> DEFINE w == TakeDown(wire, Near(n))
  <2>1. w \in [Links -> Streams]
    BY <1>0, <1>3, TakeDownFacts DEF Receive
  <2>2. wire' \in [Links -> Streams]
    BY <1>3, <2>1, ReturnFacts DEF Receive, Closes
  <2>3. told' \in [Conns -> BOOLEAN]
    BY <1>3 DEF Receive, TypeOK
  <2>4. /\ client' \in [Conns -> {"idle", "hello", "reading", "ended"}]
        /\ outcome' \in [Conns -> {"none", "exit", "error", "eof", "left"}]
    <3> DEFINE f == Head(wire[Near(n)].down)
    <3>1. CASE f \in {"exit", "error"}
      <4>1. Return(n, w, f)
        BY <1>3, <3>1 DEF Receive
      <4> HIDE DEF f
      <4> QED
        BY <3>1, <4>1 DEF Return, TypeOK
    <3>2. CASE f \notin {"exit", "error"}
      BY <1>3, <3>2 DEF Receive, TypeOK
    <3> QED
      BY <3>1, <3>2
  <2> QED
    BY <1>3, <2>2, <2>3, <2>4
    DEF Receive, TypeOK, serverVars, requestVars, serveVars
<1>4. CASE ReadEnd(n)
  <2>1. wire' \in [Links -> Streams]
    BY <1>0, <1>4, ReturnFacts DEF ReadEnd, Closes
  <2> QED
    BY <1>4, <2>1 DEF ReadEnd, Return, TypeOK, serverVars, requestVars, serveVars
<1>5. CASE SendSecond(n)
  <2>1. PICK f \in Seconds : wire' = SendUp(wire, Near(n), f)
    BY <1>5 DEF SendSecond
  <2>2. f \in Frames
    BY FrameFacts
  <2>3. wire' \in [Links -> Streams]
    BY <1>0, <2>1, <2>2, SendUpFacts
  <2> QED
    BY <1>5, <2>3 DEF SendSecond, TypeOK, serverVars, requestVars, serveVars
<1>6. CASE Leave(n)
  <2>1. wire' \in [Links -> Streams]
    BY <1>0, <1>6, ReturnFacts DEF Leave, Closes
  <2> QED
    BY <1>6, <2>1 DEF Leave, Return, TypeOK, serverVars, requestVars, serveVars
<1> QED
  BY <1>1, <1>2, <1>3, <1>4, <1>5, <1>6 DEF Client

LEMMA RequestTypeOK ==
    ASSUME TypeOK, NEW n \in Conns, Request(n)
    PROVE  TypeOK'
<1> DEFINE Words == Seq({"resource", "exit", "error"})
<1>0. /\ wire \in [Links -> Streams] /\ Far(n) \in Links
      /\ plan \in [Conns -> Words] /\ reports \in [Conns -> 0 .. MaxReports]
  BY LinkFacts DEF TypeOK
<1>w. /\ <<>> \in Words /\ <<"exit">> \in Words /\ <<"error">> \in Words
      /\ <<"resource", "exit">> \in Words /\ <<"error", "exit">> \in Words
  OBVIOUS
<1> HIDE DEF Words
<1>1. CASE Begin(n)
  <2>1. plan' \in [Conns -> Words]
    BY <1>0, <1>1, <1>w DEF Begin
  <2>2. /\ request' \in [Conns -> {"none", "start", "accepting", "running",
                                   "sending", "done"}]
        /\ commandID' \in [Conns -> BOOLEAN]
    BY <1>1, ZenonT(60) DEF Begin, TypeOK
  <2> QED
    BY <1>1, <2>1, <2>2
    DEF Begin, TypeOK, clientVars, serverVars, serveVars, Words
<1>2. CASE SendAccepted(n)
  <2>1. wire' \in [Links -> Streams]
    BY <1>0, <1>2, FrameFacts, SendDownFacts DEF SendAccepted
  <2> QED
    BY <1>2, <2>1 DEF SendAccepted, TypeOK, clientVars, serverVars, serveVars
<1>3. CASE Report(n)
  <2>1. wire' \in [Links -> Streams]
    BY <1>0, <1>3, FrameFacts, SendDownFacts DEF Report
  <2>2. reports' \in [Conns -> 0 .. MaxReports]
    BY <1>0, <1>3, ConnectionAssumption DEF Report
  <2> QED
    BY <1>3, <2>1, <2>2 DEF Report, TypeOK, clientVars, serverVars, serveVars
<1>4. CASE Finish(n)
  <2>1. plan' \in [Conns -> Words]
    BY <1>0, <1>4, <1>w DEF Finish, Endings
  <2> QED
    BY <1>4, <2>1 DEF Finish, TypeOK, clientVars, serverVars, serveVars, Words
<1>5. CASE SendNext(n)
  <2>1. CASE plan[n] = <<>> \/ ~Sendable(Far(n))
    BY <1>5, <2>1, ZenonT(60)
       DEF SendNext, TypeOK, clientVars, serverVars, serveVars
  <2>2. CASE ~(plan[n] = <<>> \/ ~Sendable(Far(n)))
    <3>1. Head(plan[n]) \in {"resource", "exit", "error"} /\ Tail(plan[n]) \in Words
      <4>1. plan[n] \in Seq({"resource", "exit", "error"}) /\ plan[n] # <<>>
        BY <1>0, <2>2 DEF Words
      <4> QED
        BY <4>1 DEF Words
    <3>2. wire' \in [Links -> Streams]
      <4>1. wire' = SendDown(wire, Far(n), <<Head(plan[n])>>)
        BY <1>5, <2>2 DEF SendNext
      <4>2. Head(plan[n]) \in Frames
        BY <3>1, FrameFacts
      <4> HIDE DEF Words
      <4> QED
        BY <1>0, <4>1, <4>2, SendDownFacts
    <3>3. final' \in [Conns -> {"none", "exit", "error"}]
      BY <1>5, <2>2, <3>1, ZenonT(60) DEF SendNext, Record, TypeOK
    <3>4. plan' \in [Conns -> Words]
      BY <1>0, <1>5, <2>2, <3>1 DEF SendNext
    <3> QED
      BY <1>5, <2>2, <3>2, <3>3, <3>4
      DEF SendNext, TypeOK, clientVars, serverVars, serveVars, Words
  <2> QED
    BY <2>1, <2>2
<1> QED
  BY <1>1, <1>2, <1>3, <1>4, <1>5 DEF Request

LEMMA BridgeEndsTypeOK ==
    ASSUME TypeOK, NEW n \in Conns, NEW w \in [Links -> Streams],
           NEW f \in Frames, NEW s \in {<<>>, <<f>>}, BridgeEnds(n, w, s),
           UNCHANGED <<bridged, clientVars, serverVars, requestVars, serveVars,
                       stopped, final>>
    PROVE  TypeOK'
<1>1. wire' \in [Links -> Streams]
  BY BridgeEndsFacts
<1>2. bridge' \in [Conns -> {"none", "hello", "greet", "request", "relay", "ended"}]
  BY DEF BridgeEnds, TypeOK
<1> QED
  BY <1>1, <1>2 DEF TypeOK, clientVars, serverVars, requestVars, serveVars

LEMMA RelayTypeOK ==
    ASSUME TypeOK, NEW n \in Conns, NEW last, NEW then \in {"request", "relay"},
           Relay(n, last, then) \/ DaemonEnds(n),
           UNCHANGED <<bridged, clientVars, serverVars, requestVars, serveVars,
                       stopped, final>>
    PROVE  TypeOK'
<1>1. /\ wire \in [Links -> Streams] /\ Far(n) \in Links
      /\ <<n, "ssh">> \in Links
  BY LinkFacts DEF TypeOK
<1>2. CASE DaemonEnds(n)
  BY <1>1, <1>2, FrameFacts, BridgeEndsTypeOK DEF DaemonEnds
<1>3. CASE Relay(n, last, then)
  <2> DEFINE w == TakeDown(wire, Far(n))
             f == Head(wire[Far(n)].down)
  <2>1. w \in [Links -> Streams] /\ f \in Frames
    BY <1>1, <1>3, TakeDownFacts DEF Relay
  <2>2. CASE BridgeEnds(n, w, <<f>>)
    <3> HIDE DEF w, f
    <3> QED
      BY <2>1, <2>2, BridgeEndsTypeOK
  <2>3. CASE /\ wire' = SendDown(w, <<n, "ssh">>, <<f>>)
             /\ bridge' = [bridge EXCEPT ![n] = then]
    <3> HIDE DEF w, f
    <3>1. wire' \in [Links -> Streams]
      BY <1>1, <2>1, <2>3, SendDownFacts
    <3> QED
      BY <2>3, <3>1 DEF TypeOK, clientVars, serverVars, requestVars, serveVars
  <2> QED
    BY <1>3, <2>2, <2>3 DEF Relay
<1> QED
  BY <1>2, <1>3

LEMMA BridgeTypeOK ==
    ASSUME TypeOK, NEW n \in Conns, Bridge(n)
    PROVE  TypeOK'
<1> DEFINE l == <<n, "ssh">>
           w == TakeUp(wire, l)
           f == Head(wire[l].up)
<1>0. /\ wire \in [Links -> Streams] /\ Far(n) \in Links /\ l \in Links
      /\ "error" \in Frames /\ "hello" \in Frames
      /\ wire[l].up # <<>> => w \in [Links -> Streams] /\ f \in Frames
  BY LinkFacts, FrameFacts, TakeUpFacts DEF TypeOK
<1>1. CASE BridgeHello(n)
  <2>1. CASE BridgeEnds(n, wire, <<>>)
    BY <1>0, <1>1, <2>1, BridgeEndsTypeOK DEF BridgeHello
  <2>2. CASE wire[l].up # <<>> /\ BridgeEnds(n, w, <<"error">>)
    BY <1>0, <1>1, <2>2, BridgeEndsTypeOK DEF BridgeHello
  <2>3. CASE UpHas(l, "hello") /\ wire' = SendUp(w, Far(n), "hello")
             /\ bridge' = [bridge EXCEPT ![n] = "greet"]
    <3>1. wire' \in [Links -> Streams]
      BY <1>0, <2>3, SendUpFacts DEF UpHas
    <3> QED
      BY <1>1, <2>3, <3>1
      DEF BridgeHello, TypeOK, clientVars, serverVars, requestVars, serveVars
  <2> QED
    BY <1>1, <2>1, <2>2, <2>3 DEF BridgeHello
<1>2. CASE BridgeGreet(n)
  BY <1>2, RelayTypeOK DEF BridgeGreet
<1>3. CASE BridgeRequest(n)
  <2>1. CASE BridgeEnds(n, wire, <<>>)
    BY <1>0, <1>3, <2>1, BridgeEndsTypeOK DEF BridgeRequest
  <2>2. CASE wire[l].up # <<>> /\ BridgeEnds(n, w, <<"error">>)
    BY <1>0, <1>3, <2>2, BridgeEndsTypeOK DEF BridgeRequest
  <2>3. CASE wire[l].up # <<>> /\ wire' = SendUp(w, Far(n), f)
             /\ bridge' = [bridge EXCEPT ![n] = "relay"]
    <3>1. wire' \in [Links -> Streams]
      BY <1>0, <2>3, SendUpFacts
    <3> QED
      BY <1>3, <2>3, <3>1
      DEF BridgeRequest, TypeOK, clientVars, serverVars, requestVars, serveVars
  <2> QED
    BY <1>3, <2>1, <2>2, <2>3 DEF BridgeRequest
<1>4. CASE BridgeRelay(n)
  BY <1>4, RelayTypeOK DEF BridgeRelay
<1> QED
  BY <1>1, <1>2, <1>3, <1>4 DEF Bridge

(* Serve's closings of many streams at once close and take nothing.         *)
LEMMA ServeWire ==
    ASSUME TypeOK, Serve
    PROVE  Closes(wire', wire)
<1>0. wire \in [Links -> Streams]
  BY DEF TypeOK
<1>1. ASSUME NEW l \in Links
      PROVE  LET r == [wire[l] EXCEPT !.shut = TRUE] IN
             /\ r \in Streams /\ r.up = wire[l].up /\ r.down = wire[l].down
             /\ r.shut /\ r.gone = wire[l].gone
  BY <1>0 DEF Streams
<1>2. ASSUME CloseListener \/ CloseActive
      PROVE  /\ wire' = [l \in Links |-> wire'[l]]
             /\ \A l \in Links : wire'[l] \in {wire[l], [wire[l] EXCEPT !.shut = TRUE]}
  BY <1>2 DEF CloseListener, CloseActive
<1>3. CASE CloseListener \/ CloseActive
  <2>1. wire' \in [Links -> Streams]
    BY <1>0, <1>1, <1>2, <1>3
  <2> QED
    BY <1>1, <1>2, <1>3, <2>1 DEF Closes
<1>4. CASE UNCHANGED wire
  BY <1>0, <1>4 DEF Closes
<1> QED
  BY <1>3, <1>4 DEF Serve, AcceptEnds, ServeReturns, Accept, Enter

LEMMA ServerTypeOK ==
    ASSUME TypeOK, NEW n \in Conns, ServeConn(n) \/ ReadSecond(n)
    PROVE  TypeOK'
<1> DEFINE l == Far(n)
           f == Head(wire[l].up)
<1>0. /\ wire \in [Links -> Streams] /\ l \in Links
      /\ "error" \in Frames /\ "hello" \in Frames
      /\ wire[l].up # <<>> => TakeUp(wire, l) \in [Links -> Streams] /\ f \in Frames
  BY LinkFacts, FrameFacts, TakeUpFacts DEF TypeOK
<1>c. ASSUME Close(n, wire)
      PROVE  /\ wire' \in [Links -> Streams] /\ active' \subseteq Conns
             /\ srv' \in [Conns -> {"none", "hello", "request", "select", "drain",
                                    "drain, tell", "closed"}]
  <2>1. wire' \in [Links -> Streams]
    BY <1>0, <1>c, CloseConnFacts DEF Closes
  <2> QED
    BY <1>c, <2>1 DEF Close, TypeOK
<1>e. ASSUME CloseWithError(n, wire)
      PROVE  /\ wire' \in [Links -> Streams] /\ active' \subseteq Conns
             /\ srv' \in [Conns -> {"none", "hello", "request", "select", "drain",
                                    "drain, tell", "closed"}]
             /\ final' \in [Conns -> {"none", "exit", "error"}]
  <2>1. wire' \in [Links -> Streams]
    BY <1>0, <1>e, CloseWithErrorFacts DEF Closes
  <2>2. final' \in [Conns -> {"none", "exit", "error"}]
    BY <1>e DEF CloseWithError, Record, TypeOK
  <2> QED
    BY <1>e, <2>1, <2>2 DEF CloseWithError, Close, TypeOK
<1>1. CASE ServeHello(n)
  <2>1. CASE CloseWithError(n, wire)
    BY <1>1, <1>e, <2>1 DEF ServeHello, TypeOK, clientVars, requestVars
  <2>2. CASE Close(n, wire) /\ UNCHANGED final
    BY <1>1, <1>c, <2>2 DEF ServeHello, TypeOK, clientVars, requestVars
  <2>3. CASE /\ UpHas(l, "hello")
             /\ wire' = SendDown(TakeUp(wire, l), l, <<"hello">>)
             /\ srv' = [srv EXCEPT ![n] = "request"]
             /\ UNCHANGED <<active, final>>
    <3>1. wire' \in [Links -> Streams]
      BY <1>0, <2>3, SendDownFacts DEF UpHas
    <3> QED
      BY <1>1, <2>3, <3>1 DEF ServeHello, TypeOK, clientVars, requestVars
  <2> QED
    BY <1>1, <2>1, <2>2, <2>3 DEF ServeHello
<1>2. CASE ServeRequest(n)
  <2>1. CASE CloseWithError(n, wire) /\ UNCHANGED <<next, request>>
    BY <1>2, <1>e, <2>1 DEF ServeRequest, TypeOK, clientVars
  <2>2. CASE Close(n, wire) /\ UNCHANGED <<next, request, final>>
    BY <1>2, <1>c, <2>2 DEF ServeRequest, TypeOK, clientVars
  <2>3. CASE /\ wire[l].up # <<>> /\ wire' = TakeUp(wire, l)
             /\ srv' = [srv EXCEPT ![n] = "select"]
             /\ next' = [next EXCEPT ![n] = "reading"]
             /\ request' = [request EXCEPT ![n] = "start"]
             /\ UNCHANGED <<active, final>>
    BY <1>0, <1>2, <2>3 DEF ServeRequest, TypeOK, clientVars
  <2> QED
    BY <1>2, <2>1, <2>2, <2>3 DEF ServeRequest
<1>3. CASE ReadSecond(n)
  BY <1>0, <1>3, ZenonT(120)
     DEF ReadSecond, TypeOK, clientVars, requestVars, serveVars
<1>4. CASE SelectDone(n)
  BY <1>4, <1>c DEF SelectDone, TypeOK, clientVars, requestVars
<1>5. CASE SelectCancel(n)
  <2>1. refused' \in [Conns -> BOOLEAN]
    BY <1>5 DEF SelectCancel, TypeOK
  <2> QED
    BY <1>5, <2>1 DEF SelectCancel, TypeOK, clientVars, requestVars, serveVars
<1>6. CASE Drained(n)
  <2>1. CASE Close(n, wire) /\ UNCHANGED final
    BY <1>6, <1>c, <2>1 DEF Drained, TypeOK, clientVars, requestVars
  <2>2. CASE CloseWithError(n, wire)
    BY <1>6, <1>e, <2>2 DEF Drained, TypeOK, clientVars, requestVars
  <2> QED
    BY <1>6, <2>1, <2>2 DEF Drained
<1> QED
  BY <1>1, <1>2, <1>3, <1>4, <1>5, <1>6 DEF ServeConn

LEMMA ServeTypeOK == TypeOK /\ Serve => TypeOK'
<1> SUFFICES ASSUME TypeOK, Serve PROVE TypeOK'
  OBVIOUS
<1>1. wire' \in [Links -> Streams]
  BY ServeWire DEF Closes
<1>2. CASE AcceptEnds \/ ServeReturns \/ CloseListener \/ CloseActive
  BY <1>1, <1>2, ZenonT(120)
     DEF AcceptEnds, ServeReturns, CloseListener, CloseActive, TypeOK,
                    clientVars, serverVars, requestVars
<1>3. ASSUME NEW n \in Conns, Accept(n) \/ Enter(n)
      PROVE  TypeOK'
  <2>1. CASE Accept(n)
    BY <1>1, <2>1 DEF Accept, TypeOK, clientVars, serverVars, requestVars
  <2>2. CASE Enter(n)
    <3>1. loop' \in {"accept", "wait", "returned"} \cup Conns
      BY <2>2 DEF Enter
    <3>2. active' \subseteq Conns
      <4>1. active \subseteq Conns
        BY DEF TypeOK
      <4> QED
        BY <2>2, <4>1 DEF Enter
    <3>3. srv' \in [Conns -> {"none", "hello", "request", "select", "drain",
                              "drain, tell", "closed"}]
      BY <2>2 DEF Enter, TypeOK
    <3> QED
      BY <1>1, <2>2, <3>1, <3>2, <3>3
      DEF Enter, TypeOK, clientVars, requestVars
  <2> QED
    BY <1>3, <2>1, <2>2
<1> QED
  BY <1>2, <1>3 DEF Serve

LEMMA InitTypeOK == Init => TypeOK
<1> SUFFICES ASSUME Init PROVE TypeOK
  OBVIOUS
<1>1. Silent \in Streams
  BY DEF Silent, Streams
<1>2. wire \in [Links -> Streams]
  BY <1>1 DEF Init
<1>3. reports \in [Conns -> 0 .. MaxReports]
  BY ConnectionAssumption DEF Init
<1>4. plan \in [Conns -> Seq({"resource", "exit", "error"})]
  <2>1. <<>> \in Seq({"resource", "exit", "error"})
    OBVIOUS
  <2> QED
    BY <2>1 DEF Init
<1>5. /\ bridged \subseteq Conns /\ kind \in [Conns -> Kinds]
      /\ client \in [Conns -> {"idle", "hello", "reading", "ended"}]
      /\ told \in [Conns -> BOOLEAN] /\ second \in [Conns -> BOOLEAN]
      /\ outcome \in [Conns -> {"none", "exit", "error", "eof", "left"}]
      /\ bridge \in [Conns -> {"none", "hello", "greet", "request", "relay", "ended"}]
  BY DEF Init
<1>6. /\ srv \in [Conns -> {"none", "hello", "request", "select", "drain",
                            "drain, tell", "closed"}]
      /\ next \in [Conns -> {"none", "reading", "end"} \cup Frames]
      /\ request \in [Conns -> {"none", "start", "accepting", "running", "sending",
                                "done"}]
      /\ commandID \in [Conns -> BOOLEAN] /\ cancelled \in [Conns -> BOOLEAN]
      /\ refused \in [Conns -> BOOLEAN]
      /\ final \in [Conns -> {"none", "exit", "error"}]
      /\ loop = "accept" /\ active = {} /\ stopped = FALSE /\ closer = "waiting"
  BY DEF Init
<1> QED
  BY <1>2, <1>3, <1>4, <1>5, <1>6 DEF TypeOK

LEMMA NextTypeOK == TypeOK /\ [Next]_vars => TypeOK'
<1> SUFFICES ASSUME TypeOK, [Next]_vars PROVE TypeOK'
  OBVIOUS
<1>1. ASSUME NEW n \in Conns,
             Client(n) \/ Bridge(n) \/ ServeConn(n) \/ ReadSecond(n) \/ Request(n)
      PROVE  TypeOK'
  BY <1>1, ClientTypeOK, BridgeTypeOK, ServerTypeOK, RequestTypeOK
<1>2. CASE Serve
  BY <1>2, ServeTypeOK
<1>3. CASE Stop
  BY <1>3 DEF Stop, TypeOK, clientVars, serverVars, requestVars, serveVars
<1>4. CASE UNCHANGED vars
  BY <1>4 DEF vars, TypeOK, clientVars, serverVars, requestVars, serveVars
<1> QED
  BY <1>1, <1>2, <1>3, <1>4 DEF Next

-----------------------------------------------------------------------------
(***************************************************************************)
(* What the steps of one connection do to its frames.                      *)
(***************************************************************************)
StaysClosed(l) == /\ wire[l].gone => wire'[l].gone
                  /\ wire[l].shut => wire'[l].shut
Kept(l) == /\ wire'[l].up = wire[l].up /\ wire'[l].down = wire[l].down
           /\ StaysClosed(l)

(* Taking the frame d off the downward stream of l: what is left was there, *)
(* and but for an error frame the order of endings stays as it was.         *)
Took(l, d) ==
    /\ wire[l].down # <<>> /\ d = Head(wire[l].down) /\ d \in Holds(wire[l].down)
    /\ Holds(wire'[l].down) \subseteq Holds(wire[l].down)
    /\ Holds(wire[l].down) \subseteq Holds(wire'[l].down) \cup {d}
    /\ Decided(wire[l].down) => d # "exit"
    /\ Decided(wire[l].down) /\ d # "error" => Decided(wire'[l].down)
    /\ StaysClosed(l)

LEMMA ClosesKeeps ==
    ASSUME NEW l \in Links, Closes(wire', wire)
    PROVE  Kept(l)
BY DEF Closes, Kept, StaysClosed

LEMMA TookFacts ==
    ASSUME TypeOK, NEW l \in Links, wire[l].down # <<>>,
           \/ wire' = TakeDown(wire, l)
           \/ Closes(wire', TakeDown(wire, l))
    PROVE  /\ Took(l, Head(wire[l].down)) /\ wire'[l].up = wire[l].up
           /\ \A k \in Links \ {l} : Kept(k)
<1> DEFINE w == TakeDown(wire, l)
           d == Head(wire[l].down)
<1>0. wire \in [Links -> Streams]
  BY DEF TypeOK
<1>1. /\ w \in [Links -> Streams] /\ Others(w, wire, l)
      /\ w[l].up = wire[l].up
      /\ w[l].gone = wire[l].gone /\ w[l].shut = wire[l].shut
      /\ d \in Holds(wire[l].down)
      /\ Holds(w[l].down) \subseteq Holds(wire[l].down)
      /\ Holds(wire[l].down) \subseteq Holds(w[l].down) \cup {d}
      /\ Decided(wire[l].down) => d # "exit"
      /\ Decided(wire[l].down) /\ d # "error" => Decided(w[l].down)
  BY <1>0, TakeDownFacts
<1>2. Closes(wire', w)
  BY <1>1 DEF Closes
<1> HIDE DEF w, d
<1>3. /\ wire'[l].up = w[l].up /\ wire'[l].down = w[l].down
      /\ StaysClosed(l)
  BY <1>1, <1>2 DEF Closes, StaysClosed
<1>4. \A k \in Links \ {l} : Kept(k)
  BY <1>1, <1>2 DEF Closes, StaysClosed, Kept, Others
<1>5. Took(l, d)
  BY <1>1, <1>3 DEF Took, d
<1> QED
  BY <1>1, <1>3, <1>4, <1>5 DEF d

(* The client: what it sends up, and the frame it takes, if any.            *)
ClientTook(n, d) ==
    /\ Took(Near(n), d)
    /\ d = "error" => client'[n] = "ended"
    /\ outcome'[n] = "exit" => outcome[n] = "exit" \/ d = "exit"
    /\ told'[n] => told[n] \/ d = "accepted"

LEMMA ClientFrames ==
    ASSUME TypeOK, NEW n \in Conns, Client(n)
    PROVE  LET l == Near(n) IN
           /\ \A k \in Links \ {l} : Kept(k)
           /\ StaysClosed(l)
           /\ "cancel" \in Holds(wire'[l].up)
                => "cancel" \in Holds(wire[l].up) \/ told[n]
           /\ \/ /\ wire'[l].down = wire[l].down
                 /\ outcome'[n] = "exit" => outcome[n] = "exit"
                 /\ told'[n] => told[n]
              \/ \E d : ClientTook(n, d)
<1> DEFINE l == Near(n)
           d == Head(wire[l].down)
<1>0. /\ wire \in [Links -> Streams] /\ l \in Links /\ kind[n] \in Frames
      /\ kind[n] # "cancel"
  <2>1. kind[n] \in Kinds
    BY DEF TypeOK
  <2> QED
    BY <2>1, LinkFacts, FrameFacts DEF TypeOK
<1>n. l = Near(n)
  OBVIOUS
<1>s. ASSUME NEW w \in [Links -> Streams], NEW f \in Frames,
             wire' = SendUp(w, l, f)
      PROVE  /\ \A k \in Links \ {l} : wire'[k] = w[k]
             /\ Holds(wire'[l].up) = Holds(w[l].up) \cup {f}
             /\ wire'[l].down = w[l].down
             /\ wire'[l].gone = w[l].gone /\ wire'[l].shut = w[l].shut
  <2> DEFINE v == SendUp(w, l, f)
  <2>1. /\ v \in [Links -> Streams] /\ Others(v, w, l)
        /\ Holds(v[l].up) = Holds(w[l].up) \cup {f}
        /\ v[l].down = w[l].down
        /\ v[l].gone = w[l].gone /\ v[l].shut = w[l].shut
    BY <1>0, SendUpFacts
  <2> HIDE DEF v
  <2> QED
    BY <1>s, <2>1 DEF Others, v
<1>r. ASSUME Return(n, wire, "eof") \/ Return(n, wire, "left"), UNCHANGED told
      PROVE  /\ \A k \in Links : Kept(k)
             /\ outcome'[n] = "exit" => outcome[n] = "exit"
             /\ told'[n] => told[n]
  <2>1. Closes(wire', wire)
    BY <1>0, <1>r, ReturnFacts
  <2>2. outcome'[n] # "exit"
    BY <1>r, ZenonT(60) DEF Return, TypeOK
  <2> QED
    BY <1>r, <2>1, <2>2, ClosesKeeps
<1>1. CASE Dial(n)
  <2>1. PICK hello \in {"hello", "junk"} : wire' = SendUp(wire, l, hello)
    BY <1>1 DEF Dial
  <2>2. hello \in Frames /\ hello # "cancel"
    BY FrameFacts
  <2> HIDE DEF l
  <2>3. \A k \in Links \ {l} : Kept(k)
    BY <1>0, <1>s, <2>1, <2>2 DEF Kept, StaysClosed
  <2>4. /\ StaysClosed(l)
        /\ "cancel" \in Holds(wire'[l].up) => "cancel" \in Holds(wire[l].up)
        /\ wire'[l].down = wire[l].down
    BY <1>0, <1>s, <2>1, <2>2 DEF StaysClosed
  <2> QED
    BY <1>1, <2>3, <2>4, <1>n DEF Dial
<1>2. CASE Greeted(n)
  <2> DEFINE w == TakeDown(wire, l)
  <2>1. wire[l].down # <<>>
    BY <1>2 DEF Greeted
  <2>2. CASE d = "hello" /\ Sendable(l)
    <3>1. wire' = SendUp(w, l, kind[n]) /\ UNCHANGED <<told, outcome>>
      BY <1>2, <2>2 DEF Greeted
    <3>2. /\ w \in [Links -> Streams] /\ Others(w, wire, l)
          /\ w[l].up = wire[l].up
          /\ w[l].gone = wire[l].gone /\ w[l].shut = wire[l].shut
          /\ d \in Holds(wire[l].down)
          /\ Holds(w[l].down) \subseteq Holds(wire[l].down)
          /\ Holds(wire[l].down) \subseteq Holds(w[l].down) \cup {d}
          /\ Decided(wire[l].down) => d # "exit"
          /\ Decided(wire[l].down) /\ d # "error" => Decided(w[l].down)
      BY <1>0, <2>1, TakeDownFacts
    <3> HIDE DEF w, l, d
    <3>3. /\ \A k \in Links \ {l} : wire'[k] = wire[k]
          /\ Holds(wire'[l].up) = Holds(wire[l].up) \cup {kind[n]}
          /\ wire'[l].down = w[l].down
          /\ wire'[l].gone = wire[l].gone /\ wire'[l].shut = wire[l].shut
      BY <1>0, <1>s, <3>1, <3>2 DEF Others
    <3>4. \A k \in Links \ {l} : Kept(k)
      BY <3>3 DEF Kept, StaysClosed
    <3>5. Took(l, d)
      <4>1. wire[l].down # <<>> /\ d = Head(wire[l].down)
        BY <2>1 DEF d
      <4> QED
        BY <4>1, <3>2, <3>3 DEF Took, StaysClosed
    <3>6. ClientTook(n, d)
      BY <2>2, <3>1, <3>5 DEF ClientTook, l
    <3> QED
      BY <1>0, <1>n, <3>3, <3>4, <3>6 DEF StaysClosed
  <2>3. CASE ~(d = "hello" /\ Sendable(l))
    <3>1. PICK r \in {"eof", "error"} : Return(n, w, r)
      BY <1>2, <2>3 DEF Greeted
    <3>2. w \in [Links -> Streams]
      BY <1>0, <2>1, TakeDownFacts
    <3>3. Closes(wire', w)
      BY <3>1, <3>2, ReturnFacts
    <3>4. /\ Took(l, d) /\ wire'[l].up = wire[l].up
          /\ \A k \in Links \ {l} : Kept(k)
      BY <1>0, <2>1, <3>3, TookFacts
    <3>5. /\ client'[n] = "ended" /\ outcome'[n] # "exit" /\ told' = told
      BY <1>2, <3>1 DEF Greeted, Return, TypeOK
    <3>6. ClientTook(n, d)
      BY <3>4, <3>5 DEF ClientTook
    <3> HIDE DEF d
    <3> QED
      BY <3>4, <3>6 DEF Took
  <2> QED
    BY <2>2, <2>3
<1>3. CASE Receive(n)
  <2> DEFINE w == TakeDown(wire, l)
  <2>1. wire[l].down # <<>>
    BY <1>3 DEF Receive
  <2>2. w \in [Links -> Streams]
    BY <1>0, <2>1, TakeDownFacts
  <2>3. told'[n] => told[n] \/ d = "accepted"
    BY <1>3 DEF Receive, TypeOK
  <2>4. CASE d \in {"exit", "error"}
    <3>1. Return(n, w, d)
      BY <1>3, <2>4 DEF Receive
    <3>2. Closes(wire', w)
      BY <2>2, <3>1, ReturnFacts
    <3>3. /\ Took(l, d) /\ wire'[l].up = wire[l].up
          /\ \A k \in Links \ {l} : Kept(k)
      BY <1>0, <2>1, <3>2, TookFacts
    <3> HIDE DEF d
    <3>4. client'[n] = "ended" /\ outcome'[n] = d
      BY <3>1 DEF Return, TypeOK
    <3>5. ClientTook(n, d)
      BY <2>3, <3>3, <3>4 DEF ClientTook
    <3> QED
      BY <3>3, <3>5 DEF Took
  <2>5. CASE d \notin {"exit", "error"}
    <3>1. wire' = w /\ UNCHANGED <<client, outcome>>
      BY <1>3, <2>5 DEF Receive
    <3>2. /\ Took(l, d) /\ wire'[l].up = wire[l].up
          /\ \A k \in Links \ {l} : Kept(k)
      BY <1>0, <2>1, <3>1, TookFacts
    <3> HIDE DEF d
    <3>3. ClientTook(n, d)
      BY <2>3, <2>5, <3>1, <3>2 DEF ClientTook
    <3> QED
      BY <3>2, <3>3 DEF Took
  <2> QED
    BY <2>4, <2>5
<1>4. CASE ReadEnd(n)
  <2>1. /\ \A k \in Links : Kept(k)
        /\ outcome'[n] = "exit" => outcome[n] = "exit"
        /\ told'[n] => told[n]
    BY <1>4, <1>r DEF ReadEnd
  <2> HIDE DEF l
  <2> QED
    BY <1>0, <1>n, <2>1 DEF Kept
<1>5. CASE SendSecond(n)
  <2>1. PICK f \in Seconds : wire' = SendUp(wire, l, f) /\ (f = "cancel" => told[n])
    BY <1>5 DEF SendSecond
  <2>2. f \in Frames
    BY FrameFacts
  <2> HIDE DEF l
  <2>3. \A k \in Links \ {l} : Kept(k)
    BY <1>0, <1>s, <2>1, <2>2 DEF Kept, StaysClosed
  <2>4. /\ StaysClosed(l)
        /\ "cancel" \in Holds(wire'[l].up) => "cancel" \in Holds(wire[l].up) \/ told[n]
        /\ wire'[l].down = wire[l].down
    BY <1>0, <1>s, <2>1, <2>2 DEF StaysClosed
  <2> QED
    BY <1>5, <2>3, <2>4, <1>n DEF SendSecond
<1>6. CASE Leave(n)
  <2>1. /\ \A k \in Links : Kept(k)
        /\ outcome'[n] = "exit" => outcome[n] = "exit"
        /\ told'[n] => told[n]
    BY <1>6, <1>r DEF Leave
  <2> HIDE DEF l
  <2> QED
    BY <1>0, <1>n, <2>1 DEF Kept
<1> QED
  BY <1>1, <1>2, <1>3, <1>4, <1>5, <1>6 DEF Client

(* The bridge: it passes no cancel up, and down what the daemon sent or an  *)
(* error frame of its own; after an error frame it ends.                    *)
BridgeFrame(n, f) ==
    f = "error" \/ (f \in Holds(wire[Far(n)].down)
                      /\ (f = "exit" => ~Decided(wire[Far(n)].down)))

BridgeStep(n) ==
    LET u == Far(n)
        l == <<n, "ssh">>
    IN
    /\ \A k \in Links \ {u, l} : Kept(k)
    /\ StaysClosed(u)
    /\ "cancel" \in Holds(wire'[u].up) => "cancel" \in Holds(wire[u].up)
    /\ Holds(wire'[l].up) \subseteq Holds(wire[l].up)
    /\ Holds(wire'[u].down) \subseteq Holds(wire[u].down)
    /\ \A f \in Holds(wire'[l].down) \ Holds(wire[l].down) : BridgeFrame(n, f)
    /\ bridge[n] \notin {"none", "ended"}
    /\ bridge'[n] = "ended" \/ wire'[u].down = wire[u].down
         \/ \E d : d # "error" /\ Took(u, d)

LEMMA BridgeEndsStep ==
    ASSUME TypeOK, NEW n \in Conns, NEW f \in Frames, NEW s \in {<<>>, <<f>>},
           BridgeFrame(n, f), bridge[n] \notin {"none", "ended"},
           NEW w \in [Links -> Streams], BridgeEnds(n, w, s),
           \/ w = wire
           \/ w = TakeUp(wire, <<n, "ssh">>) /\ wire[<<n, "ssh">>].up # <<>>
           \/ w = TakeDown(wire, Far(n)) /\ wire[Far(n)].down # <<>>
    PROVE  BridgeStep(n)
<1> DEFINE u == Far(n)
           l == <<n, "ssh">>
<1>0. /\ wire \in [Links -> Streams] /\ u \in Links /\ l \in Links /\ u # l
  BY LinkFacts DEF TypeOK
<1>1. /\ wire' \in [Links -> Streams]
      /\ \A k \in Links : /\ wire'[k].up = w[k].up
                          /\ w[k].gone => wire'[k].gone
                          /\ w[k].shut => wire'[k].shut
      /\ \A k \in Links \ {l} : wire'[k].down = w[k].down
      /\ Holds(wire'[l].down) \subseteq Holds(w[l].down) \cup {f}
  <2>1. Ended(n, w, f)
    BY BridgeEndsFacts
  <2> QED
    BY <2>1 DEF Ended
<1>2. /\ \A k \in Links : /\ w[k].gone = wire[k].gone /\ w[k].shut = wire[k].shut
                          /\ Holds(w[k].up) \subseteq Holds(wire[k].up)
      /\ \A k \in Links \ {l} : w[k].up = wire[k].up
      /\ \A k \in Links \ {u} : w[k].down = wire[k].down
      /\ Holds(w[u].down) \subseteq Holds(wire[u].down)
  <2>1. CASE w = wire
    BY <2>1
  <2>2. CASE w = TakeUp(wire, l) /\ wire[l].up # <<>>
    <3>1. /\ Others(w, wire, l) /\ Holds(w[l].up) \subseteq Holds(wire[l].up)
          /\ w[l].down = wire[l].down
          /\ w[l].gone = wire[l].gone /\ w[l].shut = wire[l].shut
      BY <1>0, <2>2, TakeUpFacts
    <3> QED
      BY <1>0, <3>1 DEF Others
  <2>3. CASE w = TakeDown(wire, u) /\ wire[u].down # <<>>
    <3>1. /\ Others(w, wire, u) /\ Holds(w[u].down) \subseteq Holds(wire[u].down)
          /\ w[u].up = wire[u].up
          /\ w[u].gone = wire[u].gone /\ w[u].shut = wire[u].shut
      BY <1>0, <2>3, TakeDownFacts
    <3> QED
      BY <1>0, <3>1 DEF Others
  <2> QED
    BY <2>1, <2>2, <2>3
<1>n. u = Far(n)
  OBVIOUS
<1> HIDE DEF u, l
<1>3. bridge'[n] = "ended"
  BY DEF BridgeEnds, TypeOK
<1>4. \A k \in Links \ {u, l} : Kept(k)
  BY <1>1, <1>2 DEF Kept, StaysClosed
<1>5. /\ StaysClosed(u)
      /\ wire'[u].up = wire[u].up
      /\ Holds(wire'[l].up) \subseteq Holds(wire[l].up)
      /\ Holds(wire'[u].down) \subseteq Holds(wire[u].down)
      /\ Holds(wire'[l].down) \subseteq Holds(wire[l].down) \cup {f}
  BY <1>0, <1>1, <1>2 DEF StaysClosed
<1> QED
  BY <1>n, <1>3, <1>4, <1>5 DEF BridgeStep, l

LEMMA RelayStep ==
    ASSUME TypeOK, NEW n \in Conns, NEW last, NEW then, "error" \in last,
           bridge[n] \notin {"none", "ended"},
           Relay(n, last, then) \/ DaemonEnds(n)
    PROVE  BridgeStep(n)
<1> DEFINE u == Far(n)
           l == <<n, "ssh">>
           w == TakeDown(wire, u)
           d == Head(wire[u].down)
<1>0. /\ wire \in [Links -> Streams] /\ u \in Links /\ l \in Links /\ u # l
      /\ "error" \in Frames
  BY LinkFacts, FrameFacts DEF TypeOK
<1>1. CASE DaemonEnds(n)
  <2>1. BridgeFrame(n, "error") /\ BridgeEnds(n, wire, <<"error">>)
    BY <1>1 DEF BridgeFrame, DaemonEnds
  <2> QED
    BY <1>0, <2>1, BridgeEndsStep
<1>2. CASE Relay(n, last, then)
  <2>1. wire[u].down # <<>>
    BY <1>2 DEF Relay
  <2>2. /\ w \in [Links -> Streams] /\ Others(w, wire, u)
        /\ w[u].up = wire[u].up
        /\ w[u].gone = wire[u].gone /\ w[u].shut = wire[u].shut
        /\ d \in Holds(wire[u].down) /\ d \in Frames
        /\ Holds(w[u].down) \subseteq Holds(wire[u].down)
        /\ Holds(wire[u].down) \subseteq Holds(w[u].down) \cup {d}
        /\ Decided(wire[u].down) => d # "exit"
        /\ Decided(wire[u].down) /\ d # "error" => Decided(w[u].down)
    BY <1>0, <2>1, TakeDownFacts
  <2>3. BridgeFrame(n, d)
    BY <2>2 DEF BridgeFrame
  <2>4. CASE BridgeEnds(n, w, <<d>>)
    <3>1. w = TakeDown(wire, Far(n)) /\ wire[Far(n)].down # <<>>
      BY <2>1
    <3> HIDE DEF w, d
    <3> QED
      BY <1>0, <2>2, <2>3, <2>4, <3>1, BridgeEndsStep
  <2>5. CASE d \notin last /\ wire' = SendDown(w, l, <<d>>)
    <3> DEFINE v == SendDown(w, l, <<d>>)
    <3>n. u = Far(n) /\ l = <<n, "ssh">>
      OBVIOUS
    <3>0. v = SendDown(w, l, <<d>>)
      OBVIOUS
    <3> HIDE DEF l, w, d, v
    <3>1. /\ v \in [Links -> Streams] /\ Others(v, w, l) /\ v[l].up = w[l].up
          /\ v[l].gone = w[l].gone /\ v[l].shut = w[l].shut
          /\ Holds(v[l].down) \subseteq Holds(w[l].down) \cup {d}
      <4>0. w \in [Links -> Streams] /\ d \in Frames /\ l \in Links
        BY <1>0, <2>2
      <4>1. Sent(v, w, l, d)
        BY <4>0, <3>0, SendDownFacts
      <4> QED
        BY <4>1 DEF Sent
    <3>2. wire' = v /\ d # "error" /\ d = Head(wire[u].down)
      BY <2>5 DEF d, v
    <3> HIDE DEF u
    <3>3. \A k \in Links \ {u, l} : Kept(k)
      BY <2>2, <3>1, <3>2 DEF Kept, StaysClosed, Others
    <3>4. /\ w[l] = wire[l] /\ v[u] = w[u]
      BY <1>0, <2>2, <3>1 DEF Others
    <3>5. /\ StaysClosed(u)
          /\ wire'[u].up = wire[u].up
          /\ Holds(wire'[l].up) \subseteq Holds(wire[l].up)
          /\ Holds(wire'[u].down) \subseteq Holds(wire[u].down)
          /\ Holds(wire'[l].down) \subseteq Holds(wire[l].down) \cup {d}
      BY <2>2, <3>1, <3>2, <3>4 DEF StaysClosed
    <3>6. Took(u, d)
      BY <2>1, <2>2, <3>2, <3>4, <3>5 DEF Took
    <3> QED
      BY <2>3, <3>n, <3>2, <3>3, <3>5, <3>6 DEF BridgeStep
  <2> QED
    BY <1>2, <2>4, <2>5 DEF Relay
<1> QED
  BY <1>1, <1>2

LEMMA BridgeFrames ==
    ASSUME TypeOK, NEW n \in Conns, Bridge(n)
    PROVE  BridgeStep(n)
<1> DEFINE u == Far(n)
           l == <<n, "ssh">>
           w == TakeUp(wire, l)
           g == Head(wire[l].up)
<1>0. /\ wire \in [Links -> Streams] /\ u \in Links /\ l \in Links /\ u # l
      /\ "error" \in Frames /\ "hello" \in Frames
      /\ BridgeFrame(n, "error")
  BY LinkFacts, FrameFacts DEF TypeOK, BridgeFrame
<1>w. ASSUME wire[l].up # <<>>
      PROVE  /\ w \in [Links -> Streams] /\ Others(w, wire, l)
             /\ Holds(w[l].up) \subseteq Holds(wire[l].up)
             /\ g \in Frames
             /\ w[l].down = wire[l].down
             /\ w[l].gone = wire[l].gone /\ w[l].shut = wire[l].shut
  BY <1>0, <1>w, TakeUpFacts
<1>s. ASSUME wire[l].up # <<>>, NEW f \in Frames, f # "cancel",
             wire' = SendUp(w, u, f), bridge[n] \notin {"none", "ended"}
      PROVE  BridgeStep(n)
  <2> DEFINE v == SendUp(w, u, f)
  <2>1. /\ v \in [Links -> Streams] /\ Others(v, w, u)
        /\ Holds(v[u].up) = Holds(w[u].up) \cup {f}
        /\ v[u].down = w[u].down
        /\ v[u].gone = w[u].gone /\ v[u].shut = w[u].shut
    BY <1>0, <1>s, <1>w, SendUpFacts
  <2>2. wire' = v
    BY <1>s
  <2>n. u = Far(n) /\ l = <<n, "ssh">>
    OBVIOUS
  <2> HIDE DEF u, l, w, v
  <2>3. \A k \in Links \ {u, l} : Kept(k)
    BY <1>s, <1>w, <2>1, <2>2 DEF Kept, StaysClosed, Others
  <2>4. w[u] = wire[u] /\ v[l] = w[l]
    BY <1>0, <1>s, <1>w, <2>1 DEF Others
  <2>5. /\ StaysClosed(u)
        /\ "cancel" \in Holds(wire'[u].up) => "cancel" \in Holds(wire[u].up)
        /\ Holds(wire'[l].up) \subseteq Holds(wire[l].up)
        /\ wire'[u].down = wire[u].down
        /\ wire'[l].down = wire[l].down
    BY <1>s, <1>w, <2>1, <2>2, <2>4 DEF StaysClosed
  <2> QED
    BY <1>s, <2>n, <2>3, <2>5 DEF BridgeStep
<1>1. CASE BridgeHello(n)
  <2>0. bridge[n] \notin {"none", "ended"}
    BY <1>1 DEF BridgeHello
  <2>1. CASE BridgeEnds(n, wire, <<>>)
    BY <1>0, <2>0, <2>1, BridgeEndsStep
  <2>2. CASE wire[l].up # <<>> /\ BridgeEnds(n, w, <<"error">>)
    BY <1>0, <1>w, <2>0, <2>2, BridgeEndsStep
  <2>3. CASE UpHas(l, "hello") /\ wire' = SendUp(w, u, "hello")
    BY <1>0, <1>s, <2>0, <2>3 DEF UpHas
  <2> QED
    BY <1>1, <2>1, <2>2, <2>3 DEF BridgeHello
<1>2. CASE BridgeGreet(n)
  BY <1>2, RelayStep DEF BridgeGreet
<1>3. CASE BridgeRequest(n)
  <2>0. bridge[n] \notin {"none", "ended"}
    BY <1>3 DEF BridgeRequest
  <2>1. CASE BridgeEnds(n, wire, <<>>)
    BY <1>0, <2>0, <2>1, BridgeEndsStep
  <2>2. CASE wire[l].up # <<>> /\ BridgeEnds(n, w, <<"error">>)
    BY <1>0, <1>w, <2>0, <2>2, BridgeEndsStep
  <2>3. CASE wire[l].up # <<>> /\ g \notin Cancels /\ wire' = SendUp(w, u, g)
    <3>1. g \in Frames /\ g # "cancel"
      BY <1>w, <2>3 DEF Cancels
    <3> HIDE DEF g
    <3> QED
      BY <1>s, <2>0, <2>3, <3>1
  <2> QED
    BY <1>3, <2>1, <2>2, <2>3 DEF BridgeRequest
<1>4. CASE BridgeRelay(n)
  BY <1>4, RelayStep DEF BridgeRelay
<1> QED
  BY <1>1, <1>2, <1>3, <1>4 DEF Bridge

(* The daemon: it sends down what the request may say, and writes down the  *)
(* first ending it sends.                                                   *)
ServerStep(n) ==
    LET u == Far(n) IN
    /\ \A k \in Links \ {u} : Kept(k)
    /\ Holds(wire'[u].up) \subseteq Holds(wire[u].up)
    /\ next'[n] = "cancel" => next[n] = "cancel" \/ "cancel" \in Holds(wire[u].up)
    /\ "accepted" \in Holds(wire'[u].down)
         => "accepted" \in Holds(wire[u].down) \/ request[n] = "accepting"
    /\ final'[n] # "exit" => final[n] # "exit" /\ (InOrder(n) => InOrder(n)')
    /\ \A m \in Conns \ {n} : final'[m] = final[m]

LEMMA InOrderNext ==
    ASSUME NEW n \in Conns
    PROVE  InOrder(n)' <=>
             /\ Decided(wire'[Far(n)].down)
             /\ final'[n] = "error" /\ ~wire'[Far(n)].gone /\ ~wire'[Far(n)].shut
                  => "error" \in Holds(wire'[Far(n)].down)
BY DEF InOrder, Sendable

LEMMA SpeakStep ==
    ASSUME TypeOK, NEW n \in Conns, NEW f \in Frames,
           NEW w \in [Links -> Streams], NEW v,
           \/ w = wire
           \/ w = TakeUp(wire, Far(n)) /\ wire[Far(n)].up # <<>>,
           Sent(v, w, Far(n), f), Closes(wire', v),
           next'[n] = "cancel" => next[n] = "cancel",
           f = "accepted" => request[n] = "accepting",
           \/ Record(n, f)
           \/ f \notin {"exit", "error"} /\ final' = final,
           f = "exit" => Sendable(Far(n))
    PROVE  ServerStep(n)
<1> DEFINE u == Far(n)
<1>0. /\ wire \in [Links -> Streams] /\ u \in Links
      /\ final \in [Conns -> {"none", "exit", "error"}]
  BY LinkFacts DEF TypeOK
<1>1. /\ Others(w, wire, u) /\ Holds(w[u].up) \subseteq Holds(wire[u].up)
      /\ w[u].down = wire[u].down
      /\ w[u].gone = wire[u].gone /\ w[u].shut = wire[u].shut
  <2>1. CASE w = wire
    BY <2>1 DEF Others
  <2>2. CASE w = TakeUp(wire, u) /\ wire[u].up # <<>>
    BY <1>0, <2>2, TakeUpFacts
  <2> QED
    BY <2>1, <2>2
<1>2. /\ v \in [Links -> Streams] /\ Others(v, w, u)
      /\ v[u].up = w[u].up
      /\ v[u].gone = w[u].gone /\ v[u].shut = w[u].shut
      /\ Holds(v[u].down) \subseteq Holds(w[u].down) \cup {f}
      /\ Holds(w[u].down) \subseteq Holds(v[u].down)
      /\ ~w[u].gone /\ ~w[u].shut => f \in Holds(v[u].down)
      /\ Decided(w[u].down)
           /\ (f = "exit" /\ ~w[u].gone /\ ~w[u].shut => "error" \in Holds(w[u].down))
         => Decided(v[u].down)
  BY DEF Sent
<1>3. /\ \A k \in Links : /\ wire'[k].up = v[k].up /\ wire'[k].down = v[k].down
                          /\ v[k].gone => wire'[k].gone
                          /\ v[k].shut => wire'[k].shut
  BY DEF Closes
<1>n. u = Far(n)
  OBVIOUS
<1>o. InOrder(n) <=> /\ Decided(wire[u].down)
                     /\ final[n] = "error" /\ ~wire[u].gone /\ ~wire[u].shut
                          => "error" \in Holds(wire[u].down)
  BY DEF InOrder, Sendable
<1>p. InOrder(n)' <=> /\ Decided(wire'[u].down)
                      /\ final'[n] = "error" /\ ~wire'[u].gone /\ ~wire'[u].shut
                           => "error" \in Holds(wire'[u].down)
  BY InOrderNext
<1>q. f = "exit" => ~wire[u].gone /\ ~wire[u].shut
  BY DEF Sendable
<1> HIDE DEF u
<1>4. \A k \in Links \ {u} : Kept(k)
  BY <1>1, <1>2, <1>3 DEF Kept, StaysClosed, Others
<1>5. /\ Holds(wire'[u].up) \subseteq Holds(wire[u].up)
      /\ "accepted" \in Holds(wire'[u].down)
           => "accepted" \in Holds(wire[u].down) \/ request[n] = "accepting"
  BY <1>0, <1>1, <1>2, <1>3
<1>6. /\ \A m \in Conns \ {n} : final'[m] = final[m]
      /\ f \in {"exit", "error"} /\ final[n] = "none" => final'[n] = f
      /\ f \notin {"exit", "error"} \/ final[n] # "none" => final'[n] = final[n]
  BY <1>0 DEF Record
<1>7. ASSUME final'[n] # "exit"
      PROVE  final[n] # "exit" /\ (InOrder(n) => InOrder(n)')
  <2>1. final[n] # "exit" /\ (f = "exit" => final[n] = "error")
    BY <1>0, <1>6, <1>7
  <2>2. final'[n] = "error" => final[n] = "error" \/ f = "error"
    BY <1>0, <1>6, <1>7
  <2>3. ASSUME InOrder(n)
        PROVE  InOrder(n)'
    <3>1. Decided(v[u].down)
      BY <1>1, <1>2, <1>o, <1>q, <2>1, <2>3
    <3>2. ASSUME final'[n] = "error", ~wire'[u].gone, ~wire'[u].shut
          PROVE  "error" \in Holds(v[u].down)
      BY <1>0, <1>1, <1>2, <1>3, <1>o, <2>2, <2>3, <3>2
    <3> QED
      BY <1>0, <1>3, <1>p, <3>1, <3>2
  <2> QED
    BY <2>1, <2>3
<1> QED
  BY <1>n, <1>4, <1>5, <1>6, <1>7 DEF ServerStep

(* A step of the daemon that sends nothing.                                 *)
LEMMA SilentStep ==
    ASSUME TypeOK, NEW n \in Conns, UNCHANGED final,
           \/ Closes(wire', wire)
           \/ wire' = TakeUp(wire, Far(n)) /\ wire[Far(n)].up # <<>>,
           next'[n] = "cancel" => next[n] = "cancel"
                                    \/ "cancel" \in Holds(wire[Far(n)].up)
    PROVE  ServerStep(n)
<1> DEFINE u == Far(n)
<1>0. wire \in [Links -> Streams] /\ u \in Links
  BY LinkFacts DEF TypeOK
<1>1. /\ \A k \in Links \ {u} : Kept(k)
      /\ Holds(wire'[u].up) \subseteq Holds(wire[u].up)
      /\ wire'[u].down = wire[u].down /\ StaysClosed(u)
  <2>1. CASE Closes(wire', wire)
    BY <1>0, <2>1 DEF Closes, Kept, StaysClosed
  <2>2. CASE wire' = TakeUp(wire, u) /\ wire[u].up # <<>>
    BY <1>0, <2>2, TakeUpFacts DEF Others, Kept, StaysClosed
  <2> QED
    BY <2>1, <2>2
<1>2. InOrder(n) => InOrder(n)'
  BY <1>1, InOrderNext DEF InOrder, Sendable, StaysClosed
<1> QED
  BY <1>1, <1>2 DEF ServerStep

LEMMA ServerFrames ==
    ASSUME TypeOK, NEW n \in Conns, ServeConn(n) \/ ReadSecond(n) \/ Request(n)
    PROVE  ServerStep(n)
<1> DEFINE u == Far(n)
<1>0. /\ wire \in [Links -> Streams] /\ u \in Links
      /\ "error" \in Frames /\ "hello" \in Frames /\ "accepted" \in Frames
      /\ "report" \in Frames
  BY LinkFacts, FrameFacts DEF TypeOK
<1>w. Closes(wire, wire)
  BY <1>0 DEF Closes
<1>c. ASSUME Close(n, wire), UNCHANGED final, next'[n] = "cancel" => next[n] = "cancel"
      PROVE  ServerStep(n)
  <2>1. Closes(wire', wire)
    BY <1>0, <1>c, CloseConnFacts
  <2> QED
    BY <1>c, <2>1, SilentStep
<1>e. ASSUME CloseWithError(n, wire), next'[n] = "cancel" => next[n] = "cancel"
      PROVE  ServerStep(n)
  <2> DEFINE v == SendDown(wire, u, <<"error">>)
  <2>1. Closes(wire', v)
    BY <1>0, <1>e, CloseWithErrorFacts
  <2>2. Sent(v, wire, u, "error")
    BY <1>0, SendDownFacts
  <2>3. Record(n, "error")
    BY <1>e DEF CloseWithError
  <2> HIDE DEF v
  <2> QED
    BY <1>0, <1>e, <2>1, <2>2, <2>3, SpeakStep
<1>s. ASSUME NEW f \in Frames, wire' = SendDown(wire, u, <<f>>),
             next'[n] = "cancel" => next[n] = "cancel",
             f = "accepted" => request[n] = "accepting",
             \/ Record(n, f)
             \/ f \notin {"exit", "error"} /\ final' = final,
             f = "exit" => Sendable(u)
      PROVE  ServerStep(n)
  <2>1. Sent(wire', wire, u, f) /\ wire' \in [Links -> Streams]
    BY <1>0, <1>s, SendDownFacts
  <2>2. Closes(wire', wire')
    BY <2>1 DEF Closes
  <2> QED
    BY <1>0, <1>s, <2>1, <2>2, SpeakStep
<1>1. CASE ServeHello(n)
  <2>1. CASE CloseWithError(n, wire)
    BY <1>1, <1>e, <2>1 DEF ServeHello
  <2>2. CASE Close(n, wire) /\ UNCHANGED final
    BY <1>1, <1>c, <2>2 DEF ServeHello
  <2>3. CASE /\ wire[u].up # <<>>
             /\ wire' = SendDown(TakeUp(wire, u), u, <<"hello">>)
             /\ UNCHANGED <<next, final>>
    <3> DEFINE w == TakeUp(wire, u)
    <3>1. w \in [Links -> Streams]
      BY <1>0, <2>3, TakeUpFacts
    <3>2. Sent(wire', w, u, "hello") /\ wire' \in [Links -> Streams]
      BY <1>0, <2>3, <3>1, SendDownFacts
    <3>3. Closes(wire', wire')
      BY <3>2 DEF Closes
    <3>4. w = TakeUp(wire, Far(n)) /\ wire[Far(n)].up # <<>>
      BY <2>3
    <3> HIDE DEF w
    <3> QED
      BY <1>0, <2>3, <3>1, <3>2, <3>3, <3>4, SpeakStep
  <2> QED
    BY <1>1, <2>1, <2>2, <2>3 DEF ServeHello, UpHas
<1>2. CASE ServeRequest(n)
  <2>1. CASE Close(n, wire) /\ UNCHANGED <<next, final>>
    BY <1>c, <2>1
  <2>2. CASE CloseWithError(n, wire) /\ UNCHANGED next
    BY <1>e, <2>2
  <2>3. CASE /\ wire[u].up # <<>> /\ wire' = TakeUp(wire, u)
             /\ next' = [next EXCEPT ![n] = "reading"] /\ UNCHANGED final
    <3>1. next'[n] # "cancel"
      BY <2>3 DEF TypeOK
    <3> QED
      BY <2>3, <3>1, SilentStep
  <2> QED
    BY <1>2, <2>1, <2>2, <2>3 DEF ServeRequest
<1>3. CASE ReadSecond(n)
  <2>1. CASE next' = [next EXCEPT ![n] = "end"] /\ UNCHANGED wire
    <3>1. next'[n] # "cancel"
      BY <2>1 DEF TypeOK
    <3> QED
      BY <1>3, <1>w, <2>1, <3>1, SilentStep DEF ReadSecond
  <2>2. CASE /\ wire[u].up # <<>> /\ wire' = TakeUp(wire, u)
             /\ next' = [next EXCEPT ![n] = Head(wire[u].up)]
    <3>1. next'[n] \in Holds(wire[u].up)
      <4>1. next'[n] = Head(wire[u].up)
        BY <2>2 DEF TypeOK
      <4> QED
        BY <1>0, <2>2, <4>1, TakeUpFacts
    <3> QED
      BY <1>3, <2>2, <3>1, SilentStep DEF ReadSecond
  <2> QED
    BY <1>3, <2>1, <2>2 DEF ReadSecond
<1>4. CASE SelectDone(n)
  BY <1>4, <1>c DEF SelectDone
<1>5. CASE SelectCancel(n)
  BY <1>5, <1>w, SilentStep DEF SelectCancel
<1>6. CASE Drained(n)
  BY <1>6, <1>c, <1>e DEF Drained
<1>7. CASE Begin(n) \/ Finish(n)
  BY <1>7, <1>w, SilentStep DEF Begin, Finish, serverVars
<1>8. CASE SendAccepted(n)
  BY <1>0, <1>8, <1>s DEF SendAccepted, serverVars
<1>9. CASE Report(n)
  BY <1>0, <1>9, <1>s DEF Report, serverVars
<1>10. CASE SendNext(n)
  <2>1. CASE UNCHANGED <<wire, final, next>>
    BY <1>w, <2>1, SilentStep
  <2>2. CASE /\ plan[n] # <<>> /\ Sendable(u)
             /\ wire' = SendDown(wire, u, <<Head(plan[n])>>)
             /\ Record(n, Head(plan[n]))
    <3> DEFINE f == Head(plan[n])
    <3>1. f \in {"resource", "exit", "error"}
      <4>1. plan[n] \in Seq({"resource", "exit", "error"}) /\ plan[n] # <<>>
        BY <2>2 DEF TypeOK
      <4> QED
        BY <4>1
    <3>2. f \in Frames /\ f # "accepted"
      BY <3>1, FrameFacts
    <3>3. wire' = SendDown(wire, u, <<f>>) /\ Record(n, f)
      BY <2>2
    <3> HIDE DEF f
    <3> QED
      BY <1>10, <1>s, <2>2, <3>2, <3>3 DEF SendNext, serverVars
  <2> QED
    BY <1>10, <2>1, <2>2 DEF SendNext, serverVars
<1> QED
  BY <1>1, <1>2, <1>3, <1>4, <1>5, <1>6, <1>7, <1>8, <1>9, <1>10
  DEF ServeConn, Request

-----------------------------------------------------------------------------
(***************************************************************************)
(* The parts of the invariant, kept by every step.                         *)
(***************************************************************************)
LEMMA InitParts == Init => /\ BridgeOwned /\ IDStoredFirst /\ CancelRecognised
                           /\ DecisionKept /\ BridgeHonest /\ OutcomeTruth
<1> SUFFICES ASSUME Init
             PROVE  /\ BridgeOwned /\ IDStoredFirst /\ CancelRecognised
                    /\ DecisionKept /\ BridgeHonest /\ OutcomeTruth
  OBVIOUS
<1>1. \A l \in Links : wire[l].up = <<>> /\ wire[l].down = <<>>
  BY DEF Init, Silent
<1>2. Holds(<<>>) = {} /\ Decided(<<>>)
  BY DEF Holds, Decided
<1>3. \A n \in Conns : \A x \in {"unix", "ssh"} :
          Holds(wire[<<n, x>>].up) = {} /\ Holds(wire[<<n, x>>].down) = {}
  BY <1>1, <1>2, LinksOfConns
<1>4. \A n \in Conns : InOrder(n)
  BY <1>1, <1>2, LinkFacts DEF InOrder, Init
<1> QED
  BY <1>3, <1>4 DEF Init, BridgeOwned, IDStoredFirst, CancelRecognised,
     DecisionKept, BridgeHonest, OutcomeTruth

(* Steps of one connection leave the other connections alone.               *)
Untouched(m) ==
    /\ \A x \in {"unix", "ssh"} : Kept(<<m, x>>)
    /\ client'[m] = client[m] /\ told'[m] = told[m]
    /\ outcome'[m] = outcome[m] /\ bridge'[m] = bridge[m]
    /\ next'[m] = next[m] /\ request'[m] = request[m]
    /\ commandID'[m] = commandID[m] /\ refused'[m] = refused[m]
    /\ final'[m] = final[m]

LEMMA Elsewhere ==
    ASSUME TypeOK, NEW n \in Conns,
           Client(n) \/ Bridge(n) \/ ServeConn(n) \/ ReadSecond(n) \/ Request(n),
           NEW m \in Conns, m # n
    PROVE  Untouched(m)
<1>l. \A x \in {"unix", "ssh"} :
          <<m, x>> \in Links /\ <<m, x>> # Far(n) /\ <<m, x>> # <<n, "ssh">>
          /\ <<m, x>> # Near(n)
  BY LinksOfConns DEF Far, Near
<1>1. CASE Client(n)
  <2>1. \A x \in {"unix", "ssh"} : Kept(<<m, x>>)
    BY <1>1, <1>l, ClientFrames
  <2>2. client'[m] = client[m] /\ told'[m] = told[m] /\ outcome'[m] = outcome[m]
        /\ bridge'[m] = bridge[m]
    BY <1>1, ZenonT(120)
       DEF Client, Dial, Greeted, Receive, ReadEnd, SendSecond, Leave, Return,
                TypeOK
  <2>3. UNCHANGED <<serverVars, requestVars, final>>
    BY <1>1 DEF Client, Dial, Greeted, Receive, ReadEnd, SendSecond, Leave
  <2> QED
    BY <2>1, <2>2, <2>3 DEF serverVars, requestVars, Untouched
<1>2. CASE Bridge(n)
  <2>1. \A x \in {"unix", "ssh"} : Kept(<<m, x>>)
    BY <1>2, <1>l, BridgeFrames DEF BridgeStep
  <2>2. bridge'[m] = bridge[m]
    BY <1>2, ZenonT(60)
       DEF Bridge, BridgeHello, BridgeGreet, BridgeRequest, BridgeRelay,
                Relay, DaemonEnds, BridgeEnds, TypeOK
  <2>3. UNCHANGED <<clientVars, serverVars, requestVars, final>>
    BY <1>2 DEF Bridge, BridgeHello, BridgeGreet, BridgeRequest, BridgeRelay
  <2> QED
    BY <2>1, <2>2, <2>3 DEF clientVars, serverVars, requestVars, Untouched
<1>3. CASE ServeConn(n) \/ ReadSecond(n) \/ Request(n)
  <2>1. ServerStep(n)
    BY <1>3, ServerFrames
  <2>2. \A x \in {"unix", "ssh"} : Kept(<<m, x>>)
    BY <1>l, <2>1 DEF ServerStep
  <2>3. UNCHANGED <<clientVars, bridge>>
    BY <1>3 DEF ServeConn, ServeHello, ServeRequest, ReadSecond, SelectDone,
       SelectCancel, Drained, Request, Begin, SendAccepted, Report, Finish, SendNext
  <2>4. /\ next'[m] = next[m] /\ request'[m] = request[m]
        /\ commandID'[m] = commandID[m] /\ refused'[m] = refused[m]
    <3>1. DOMAIN next = Conns /\ DOMAIN request = Conns
          /\ DOMAIN commandID = Conns /\ DOMAIN refused = Conns
      BY DEF TypeOK
    <3>2. CASE ServeConn(n)
      BY <3>1, <3>2 DEF ServeConn, ServeHello, ServeRequest, SelectDone,
         SelectCancel, Drained, requestVars
    <3>3. CASE ReadSecond(n)
      BY <3>1, <3>3 DEF ReadSecond, requestVars
    <3>4. CASE Request(n)
      BY <3>1, <3>4 DEF Request, Begin, SendAccepted, Report, Finish, SendNext,
         serverVars
    <3> QED
      BY <1>3, <3>2, <3>3, <3>4
  <2>5. final'[m] = final[m]
    BY <2>1 DEF ServerStep
  <2> QED
    BY <2>2, <2>3, <2>4, <2>5 DEF clientVars, Untouched
<1> QED
  BY <1>1, <1>2, <1>3

LEMMA NextCases ==
    ASSUME TypeOK, [Next]_vars, NEW m \in Conns
    PROVE  \/ Untouched(m)
           \/ Client(m) \/ Bridge(m) \/ ServeConn(m) \/ ReadSecond(m) \/ Request(m)
<1>1. CASE Serve \/ Stop \/ UNCHANGED vars
  <2>1. \A x \in {"unix", "ssh"} : Kept(<<m, x>>)
    <3>1. wire \in [Links -> Streams]
      BY DEF TypeOK
    <3>2. CASE Serve
      BY <3>2, ServeWire, ClosesKeeps, LinksOfConns
    <3>3. CASE UNCHANGED wire
      BY <3>3 DEF Kept, StaysClosed
    <3> QED
      BY <1>1, <3>2, <3>3 DEF Stop, vars
  <2>2. UNCHANGED <<clientVars, bridge, requestVars, next, refused, final>>
    BY <1>1 DEF Serve, AcceptEnds, ServeReturns, CloseListener, CloseActive, Accept,
       Enter, Stop, vars, serverVars
  <2> QED
    BY <2>1, <2>2 DEF Untouched, clientVars, requestVars
<1>2. ASSUME NEW n \in Conns, n # m,
             Client(n) \/ Bridge(n) \/ ServeConn(n) \/ ReadSecond(n) \/ Request(n)
      PROVE  Untouched(m)
  BY <1>2, Elsewhere
<1> QED
  BY <1>1, <1>2 DEF Next

LEMMA BridgedFixed == [Next]_vars => UNCHANGED bridged
<1>1. ASSUME NEW n \in Conns, Client(n) \/ Bridge(n)
      PROVE  UNCHANGED bridged
  BY <1>1 DEF Client, Dial, Greeted, Receive, ReadEnd, SendSecond, Leave, Bridge,
     BridgeHello, BridgeGreet, BridgeRequest, BridgeRelay
<1>2. ASSUME NEW n \in Conns, ServeConn(n) \/ ReadSecond(n) \/ Request(n)
      PROVE  UNCHANGED bridged
  BY <1>2 DEF ServeConn, ServeHello, ServeRequest, ReadSecond, SelectDone,
     SelectCancel, Drained, Request, Begin, SendAccepted, Report, Finish, SendNext
<1>3. ASSUME Serve \/ Stop \/ UNCHANGED vars
      PROVE  UNCHANGED bridged
  BY <1>3 DEF Serve, AcceptEnds, ServeReturns, CloseListener, CloseActive, Accept,
     Enter, Stop, vars
<1> QED
  BY <1>1, <1>2, <1>3 DEF Next

LEMMA ServerLeaves ==
    ASSUME NEW n \in Conns, ServeConn(n) \/ ReadSecond(n) \/ Request(n)
    PROVE  UNCHANGED <<clientVars, bridge>>
BY DEF ServeConn, ServeHello, ServeRequest, ReadSecond, SelectDone, SelectCancel,
       Drained, Request, Begin, SendAccepted, Report, Finish, SendNext

LEMMA ClientLeaves ==
    ASSUME NEW n \in Conns, Client(n)
    PROVE  UNCHANGED <<serverVars, requestVars, final>>
BY DEF Client, Dial, Greeted, Receive, ReadEnd, SendSecond, Leave

LEMMA BridgeLeaves ==
    ASSUME NEW n \in Conns, Bridge(n)
    PROVE  UNCHANGED <<clientVars, serverVars, requestVars, final>>
BY DEF Bridge, BridgeHello, BridgeGreet, BridgeRequest, BridgeRelay

LEMMA BridgeOwnedStep ==
    ASSUME TypeOK, BridgeOwned, [Next]_vars
    PROVE  BridgeOwned'
<1> SUFFICES ASSUME NEW m \in Conns
             PROVE  /\ m \notin bridged => bridge'[m] = "none"
                    /\ client'[m] = "idle" => bridge'[m] = "none"
  BY BridgedFixed DEF BridgeOwned
<1>0. /\ m \notin bridged => bridge[m] = "none"
      /\ client[m] = "idle" => bridge[m] = "none"
      /\ DOMAIN client = Conns /\ DOMAIN bridge = Conns
  BY DEF BridgeOwned, TypeOK
<1>1. CASE Untouched(m)
  BY <1>0, <1>1 DEF Untouched
<1>2. CASE Dial(m)
  BY <1>0, <1>2 DEF Dial
<1>3. CASE Greeted(m) \/ Receive(m) \/ ReadEnd(m) \/ SendSecond(m) \/ Leave(m)
  <2>1. UNCHANGED bridge /\ client[m] # "idle" /\ client'[m] # "idle"
    BY <1>0, <1>3 DEF Greeted, Receive, ReadEnd, SendSecond, Leave, Return
  <2> QED
    BY <1>0, <2>1
<1>4. CASE Bridge(m)
  <2>1. bridge[m] # "none" /\ UNCHANGED client
    BY <1>4, BridgeFrames, BridgeLeaves DEF BridgeStep, clientVars
  <2> QED
    BY <1>0, <2>1
<1>5. CASE ServeConn(m) \/ ReadSecond(m) \/ Request(m)
  BY <1>0, <1>5, ServerLeaves DEF clientVars
<1> QED
  BY <1>1, <1>2, <1>3, <1>4, <1>5, NextCases DEF Client

(* The ID is stored before the accepted frame is sent.                      *)
LEMMA IDStoredFirstStep ==
    ASSUME TypeOK, IDStoredFirst, [Next]_vars
    PROVE  IDStoredFirst'
<1> DEFINE Unsaid(c, r, t, x, w, m) ==
               c \/ /\ r # "accepting" /\ ~t /\ x # "cancel"
                    /\ "accepted" \notin Holds(w[<<m, "unix">>].down)
                    /\ "accepted" \notin Holds(w[<<m, "ssh">>].down)
                    /\ "cancel" \notin Holds(w[<<m, "unix">>].up)
                    /\ "cancel" \notin Holds(w[<<m, "ssh">>].up)
<1> SUFFICES ASSUME NEW m \in Conns
             PROVE  Unsaid(commandID'[m], request'[m], told'[m], next'[m], wire', m)
  BY DEF IDStoredFirst
<1>0. Unsaid(commandID[m], request[m], told[m], next[m], wire, m)
  BY DEF IDStoredFirst
<1>t. /\ DOMAIN commandID = Conns /\ DOMAIN request = Conns
      /\ commandID \in [Conns -> BOOLEAN]
  BY DEF TypeOK
<1>l. /\ Far(m) = <<m, "unix">> /\ Near(m) \in {<<m, "unix">>, <<m, "ssh">>}
      /\ <<m, "unix">> \in Links /\ <<m, "ssh">> \in Links
      /\ <<m, "unix">> # <<m, "ssh">>
  BY LinksOfConns DEF Far, Near
<1>1. CASE Untouched(m)
  BY <1>0, <1>1 DEF Untouched, Kept
<1>2. CASE Client(m)
  <2>1. /\ \A k \in Links \ {Near(m)} : Kept(k)
        /\ "cancel" \in Holds(wire'[Near(m)].up)
             => "cancel" \in Holds(wire[Near(m)].up) \/ told[m]
        /\ \/ wire'[Near(m)].down = wire[Near(m)].down /\ (told'[m] => told[m])
           \/ \E d : ClientTook(m, d)
    BY <1>2, ClientFrames
  <2>2. commandID' = commandID /\ request' = request /\ next' = next
    BY <1>2, ClientLeaves DEF serverVars, requestVars
  <2>3. /\ Holds(wire'[Near(m)].down) \subseteq Holds(wire[Near(m)].down)
        /\ told'[m] => told[m] \/ "accepted" \in Holds(wire[Near(m)].down)
    BY <2>1 DEF ClientTook, Took
  <2> QED
    BY <1>0, <1>l, <2>1, <2>2, <2>3 DEF Kept
<1>3. CASE Bridge(m)
  <2>1. BridgeStep(m) /\ UNCHANGED <<clientVars, serverVars, requestVars>>
    BY <1>3, BridgeFrames, BridgeLeaves
  <2> QED
    BY <1>0, <1>l, <2>1
    DEF BridgeStep, BridgeFrame, clientVars, serverVars, requestVars
<1>4. CASE ServeConn(m) \/ ReadSecond(m) \/ Request(m)
  <2>1. ServerStep(m) /\ UNCHANGED told
    BY <1>4, ServerFrames, ServerLeaves DEF clientVars
  <2>2. /\ commandID[m] => commandID'[m]
        /\ request'[m] = "accepting" => commandID'[m] \/ request[m] = "accepting"
    <3>1. CASE Begin(m)
      BY <1>t, <3>1 DEF Begin
    <3>2. CASE SendAccepted(m) \/ Report(m) \/ Finish(m) \/ SendNext(m)
      BY <1>t, <3>2 DEF SendAccepted, Report, Finish, SendNext
    <3>3. CASE ServeConn(m) \/ ReadSecond(m)
      BY <1>t, <3>3 DEF ServeConn, ServeHello, ServeRequest, ReadSecond, SelectDone,
         SelectCancel, Drained, requestVars
    <3> QED
      BY <1>4, <3>1, <3>2, <3>3 DEF Request
  <2> QED
    BY <1>0, <1>l, <2>1, <2>2 DEF ServerStep, Kept
<1> QED
  BY <1>1, <1>2, <1>3, <1>4, NextCases

(* Hence no cancel that names the command is refused.                       *)
LEMMA CancelRecognisedStep ==
    ASSUME TypeOK, IDStoredFirst, CancelRecognised, [Next]_vars
    PROVE  CancelRecognised'
<1> SUFFICES ASSUME NEW m \in Conns PROVE ~refused'[m]
  BY DEF CancelRecognised
<1>0. ~refused[m] /\ DOMAIN refused = Conns
  BY DEF CancelRecognised, TypeOK
<1>1. CASE Untouched(m)
  BY <1>0, <1>1 DEF Untouched
<1>2. CASE SelectCancel(m)
  <2>1. next[m] = "cancel" => Named(m)
    BY DEF IDStoredFirst, Named
  <2> QED
    BY <1>0, <1>2, <2>1 DEF SelectCancel
<1>3. CASE Client(m) \/ Bridge(m) \/ Request(m) \/ ReadSecond(m) \/ ServeHello(m)
           \/ ServeRequest(m) \/ SelectDone(m) \/ Drained(m)
  <2>1. UNCHANGED refused
    BY <1>3, ClientLeaves, BridgeLeaves DEF serverVars, Request, Begin, SendAccepted,
       Report, Finish, SendNext, ReadSecond, ServeHello, ServeRequest, SelectDone,
       Drained
  <2> QED
    BY <1>0, <2>1
<1> QED
  BY <1>1, <1>2, <1>3, NextCases DEF ServeConn

LEMMA ClientStands ==
    ASSUME TypeOK, BridgeOwned, NEW n \in Conns, Client(n)
    PROVE  client[n] # "ended" /\ (bridge'[n] = "ended" <=> bridge[n] = "ended")
<1>0. DOMAIN bridge = Conns
  BY DEF TypeOK
<1>1. CASE Dial(n)
  BY <1>0, <1>1 DEF Dial, BridgeOwned
<1>2. CASE Greeted(n) \/ Receive(n) \/ ReadEnd(n) \/ SendSecond(n) \/ Leave(n)
  BY <1>2 DEF Greeted, Receive, ReadEnd, SendSecond, Leave
<1> QED
  BY <1>1, <1>2 DEF Client

(* The order of endings on the daemon's stream is the order it recorded.    *)
LEMMA DecisionKeptStep ==
    ASSUME TypeOK, BridgeOwned, DecisionKept, [Next]_vars
    PROVE  DecisionKept'
<1> SUFFICES ASSUME NEW m \in Conns, Open(m)', final'[m] # "exit"
             PROVE  InOrder(m)'
  BY DEF DecisionKept
<1> DEFINE u == Far(m)
<1>0. Open(m) /\ final[m] # "exit" => InOrder(m)
  BY DEF DecisionKept
<1>l. /\ u = <<m, "unix">> /\ u \in Links /\ u # <<m, "ssh">>
      /\ m \in bridged => Near(m) = <<m, "ssh">>
      /\ m \notin bridged => Near(m) = u
  BY LinkFacts
<1>b. UNCHANGED bridged
  BY BridgedFixed
<1>o. Open(m)' <=> IF m \in bridged THEN bridge'[m] # "ended" ELSE client'[m] # "ended"
  BY <1>b DEF Open
<1>k. ASSUME Kept(u), final'[m] = final[m], InOrder(m)
      PROVE  InOrder(m)'
  BY <1>k, InOrderNext DEF InOrder, Kept, StaysClosed, Sendable
<1>t. ASSUME NEW d, d # "error", Took(u, d), final'[m] = final[m], InOrder(m)
      PROVE  InOrder(m)'
  <2>1. Decided(wire'[u].down)
    BY <1>t DEF InOrder, Took
  <2>2. ASSUME final'[m] = "error", ~wire'[u].gone, ~wire'[u].shut
        PROVE  "error" \in Holds(wire'[u].down)
    <3>1. "error" \in Holds(wire[u].down)
      BY <1>t, <2>2 DEF InOrder, Took, StaysClosed, Sendable
    <3> QED
      BY <1>t, <3>1 DEF Took
  <2> QED
    BY <2>1, <2>2, InOrderNext
<1> HIDE DEF u
<1>1. CASE Untouched(m)
  BY <1>0, <1>1, <1>k, <1>l, <1>o DEF Untouched, Open
<1>2. CASE Client(m)
  <2>1. /\ \A k \in Links \ {Near(m)} : Kept(k)
        /\ StaysClosed(Near(m))
        /\ wire'[Near(m)].down = wire[Near(m)].down \/ \E d : ClientTook(m, d)
    BY <1>2, ClientFrames
  <2>2. /\ client[m] # "ended" /\ (bridge'[m] = "ended" <=> bridge[m] = "ended")
        /\ final' = final
    BY <1>2, ClientStands, ClientLeaves
  <2>3. InOrder(m)
    BY <1>0, <1>o, <2>2 DEF Open
  <2>4. CASE m \in bridged
    BY <1>k, <1>l, <2>1, <2>2, <2>3, <2>4
  <2>5. CASE m \notin bridged /\ wire'[u].down = wire[u].down
    BY <1>l, <2>1, <2>2, <2>3, <2>5, InOrderNext
    DEF InOrder, StaysClosed, Sendable, u
  <2>6. ASSUME m \notin bridged, NEW d, ClientTook(m, d)
        PROVE  InOrder(m)'
    <3>1. Took(u, d) /\ d # "error"
      BY <1>l, <1>o, <2>6 DEF ClientTook
    <3> QED
      BY <1>t, <2>2, <2>3, <3>1
  <2> QED
    BY <1>l, <2>1, <2>4, <2>5, <2>6
<1>3. CASE Bridge(m)
  <2>1. BridgeStep(m) /\ final' = final
    BY <1>3, BridgeFrames, BridgeLeaves
  <2>2. m \in bridged /\ bridge[m] # "ended"
    BY <2>1 DEF BridgeStep, BridgeOwned
  <2>3. InOrder(m) /\ bridge'[m] # "ended"
    BY <1>0, <1>o, <2>1, <2>2 DEF Open
  <2>4. /\ StaysClosed(u)
        /\ wire'[u].down = wire[u].down \/ \E d : d # "error" /\ Took(u, d)
    BY <2>1, <2>3 DEF BridgeStep, u
  <2>5. CASE wire'[u].down = wire[u].down
    BY <2>1, <2>3, <2>4, <2>5, InOrderNext DEF InOrder, StaysClosed, Sendable, u
  <2>6. ASSUME NEW d, d # "error", Took(u, d)
        PROVE  InOrder(m)'
    BY <1>t, <2>1, <2>3, <2>6
  <2> QED
    BY <2>4, <2>5, <2>6
<1>4. CASE ServeConn(m) \/ ReadSecond(m) \/ Request(m)
  <2>1. ServerStep(m) /\ UNCHANGED <<clientVars, bridge>>
    BY <1>4, ServerFrames, ServerLeaves
  <2>2. Open(m)
    BY <1>o, <2>1 DEF Open, clientVars
  <2> QED
    BY <1>0, <2>1, <2>2 DEF ServerStep
<1> QED
  BY <1>1, <1>2, <1>3, <1>4, NextCases

LEMMA BridgeHonestStep ==
    ASSUME TypeOK, BridgeOwned, DecisionKept, BridgeHonest, [Next]_vars
    PROVE  BridgeHonest'
<1> DEFINE l(m) == <<m, "ssh">>
<1> SUFFICES ASSUME NEW m \in Conns, m \in bridged, final'[m] # "exit"
             PROVE  "exit" \notin Holds(wire'[l(m)].down)
  <2>1. bridged' \subseteq Conns /\ bridged' = bridged
    BY BridgedFixed DEF TypeOK
  <2> QED
    BY <2>1 DEF BridgeHonest
<1>0. final[m] # "exit" => "exit" \notin Holds(wire[l(m)].down)
  BY DEF BridgeHonest
<1>l. Near(m) = l(m) /\ l(m) \in Links /\ l(m) # Far(m)
  BY LinkFacts
<1>1. CASE Untouched(m)
  BY <1>0, <1>1 DEF Untouched, Kept
<1>2. CASE Client(m)
  <2>1. /\ wire'[l(m)].down = wire[l(m)].down \/ \E d : ClientTook(m, d)
        /\ final' = final
    BY <1>2, <1>l, ClientFrames, ClientLeaves
  <2>2. Holds(wire'[l(m)].down) \subseteq Holds(wire[l(m)].down)
    BY <1>l, <2>1 DEF ClientTook, Took
  <2> QED
    BY <1>0, <2>1, <2>2
<1>3. CASE Bridge(m)
  <2>1. BridgeStep(m) /\ final' = final
    BY <1>3, BridgeFrames, BridgeLeaves
  <2>2. Decided(wire[Far(m)].down)
    BY <2>1 DEF BridgeStep, DecisionKept, Open, InOrder
  <2> QED
    BY <1>0, <2>1, <2>2 DEF BridgeStep, BridgeFrame
<1>4. CASE ServeConn(m) \/ ReadSecond(m) \/ Request(m)
  <2>1. ServerStep(m)
    BY <1>4, ServerFrames
  <2> QED
    BY <1>0, <1>l, <2>1 DEF ServerStep, Kept
<1> QED
  BY <1>1, <1>2, <1>3, <1>4, NextCases

LEMMA OutcomeTruthStep ==
    ASSUME TypeOK, BridgeOwned, DecisionKept, BridgeHonest, OutcomeTruth, [Next]_vars
    PROVE  OutcomeTruth'
<1> SUFFICES ASSUME NEW m \in Conns, outcome'[m] = "exit" PROVE final'[m] = "exit"
  BY DEF OutcomeTruth
<1>0. outcome[m] = "exit" => final[m] = "exit"
  BY DEF OutcomeTruth
<1>1. CASE Untouched(m)
  BY <1>0, <1>1 DEF Untouched
<1>2. CASE Client(m)
  <2>1. /\ outcome[m] = "exit" \/ Took(Near(m), "exit")
        /\ client[m] # "ended" /\ final' = final
    BY <1>2, ClientFrames, ClientStands, ClientLeaves DEF ClientTook
  <2>2. ASSUME Took(Near(m), "exit"), final[m] # "exit"
        PROVE  FALSE
    <3>1. "exit" \in Holds(wire[Near(m)].down) /\ ~Decided(wire[Near(m)].down)
      BY <2>2 DEF Took
    <3>2. CASE m \in bridged
      BY <2>2, <3>1, <3>2, LinkFacts DEF BridgeHonest
    <3>3. CASE m \notin bridged
      BY <2>1, <2>2, <3>1, <3>3, LinkFacts DEF DecisionKept, Open, InOrder
    <3> QED
      BY <3>2, <3>3
  <2> QED
    BY <1>0, <2>1, <2>2
<1>3. CASE Bridge(m)
  BY <1>0, <1>3, BridgeLeaves DEF clientVars
<1>4. CASE ServeConn(m) \/ ReadSecond(m) \/ Request(m)
  BY <1>0, <1>4, ServerFrames, ServerLeaves DEF ServerStep, clientVars
<1> QED
  BY <1>1, <1>2, <1>3, <1>4, NextCases

(***************************************************************************)
(* The theorems.                                                           *)
(***************************************************************************)
(* The invariant holds in every state of every behaviour.                   *)
LEMMA SpecIInv == Spec => []IInv
<1>1. Init => IInv
  BY InitTypeOK, InitParts DEF IInv
<1>2. IInv /\ [Next]_vars => IInv'
  BY NextTypeOK, BridgeOwnedStep, IDStoredFirstStep, CancelRecognisedStep,
     DecisionKeptStep, BridgeHonestStep, OutcomeTruthStep DEF IInv
<1> QED
  BY <1>1, <1>2, PTL DEF Spec

(* Every variable keeps its type: the daemon's record of the first ending,  *)
(* the frames on both kinds of stream, the state of client, bridge, server. *)
THEOREM TypeCorrect == Spec => []TypeOK
BY SpecIInv, PTL DEF IInv

(* A client that names its command in a cancel frame is never told that the *)
(* ID does not match, whatever the order of the goroutines of ServeConn.    *)
THEOREM CancelIsRecognised == Spec => []CancelRecognised
BY SpecIInv, PTL DEF IInv

(* A client that takes an exit frame for its result has the first ending    *)
(* the daemon sent, directly or through a bridge.                           *)
THEOREM OutcomeIsTrue == Spec => []OutcomeTruth
BY SpecIInv, PTL DEF IInv
=============================================================================
