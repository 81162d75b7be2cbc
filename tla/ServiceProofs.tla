---------------------------- MODULE ServiceProofs ----------------------------
(***************************************************************************)
(* The service, for every capacity of its channels and any number of       *)
(* clients, calls, subscribers and changes of leader:                      *)
(*   - PubSub: a stream has no gap, and its end is the last thing in it;   *)
(*   - Service: the apply loop never goes back, what it applies is what    *)
(*     the log holds there, and without a change of leader a client is     *)
(*     answered with the result of its own command.                        *)
(***************************************************************************)
EXTENDS Service, PubSub, TLAPS

-----------------------------------------------------------------------------
(* PubSub.                                                                 *)

Message == Nat \ {0}
Stages == {"off", "on", "ended", "over"}

\* m is the message of channel history sn at position p.
Is(sn, p, m) == p \in 1 .. Len(sn) /\ m = sn[p]

\* One subscriber: history sn of its channel, stage sg, first position st,
\* position ps, channels f and sc, lines ln; gn: is the connection gone?
\* Read in the order lines, second channel, first channel, what is on its way
\* is the run of messages between st and ps, perhaps with Done after it.
Stream(sn, sg, st, ps, f, sc, ln, gn) ==
    /\ sg = "off" => f = <<>> /\ sc = <<>> /\ ln = <<>>
    /\ sg = "over" => f = <<>>
    /\ gn => sc = <<>>
    /\ ps <= Len(sn)
    /\ \A k \in 1 .. Len(ln) :
          \/ ln[k] # Done /\ Is(sn, st + k, ln[k])
          \/ ln[k] = Done /\ k = Len(ln) /\ sg = "over" /\ sc = <<>>
    /\ \A k \in 1 .. Len(sc) :
          \/ sc[k] # Done /\ Is(sn, st + Len(ln) + k, sc[k])
          \/ sc[k] = Done /\ k = Len(sc) /\ sg = "over"
    /\ ~gn /\ sg # "over" =>
          /\ ps = st + Len(ln) + Len(sc) + Len(f)
          /\ \A k \in 1 .. Len(f) : f[k] = sn[st + Len(ln) + Len(sc) + k]

PubSubTypeInv ==
    /\ publishes \in Nat
    /\ published \in [Chan -> Seq(Message)]
    /\ stage \in [Sub -> Stages]
    /\ chan \in [Sub -> Chan]
    /\ start \in [Sub -> Nat] /\ pos \in [Sub -> Nat]
    /\ first \in [Sub -> Seq(Message)]
    /\ second \in [Sub -> Seq(Nat)] /\ line \in [Sub -> Seq(Nat)]
    /\ gone \in [Sub -> BOOLEAN]

StreamOf(s) ==
    Stream(published[chan[s]], stage[s], start[s], pos[s], first[s], second[s], line[s], gone[s])

PubSubInv == PubSubTypeInv /\ \A s \in Sub : StreamOf(s)

-----------------------------------------------------------------------------
(* What the steps do to one stream.                                        *)

LEMMA SeqAdd ==
  ASSUME NEW S, NEW q \in Seq(S), NEW e \in S
  PROVE  /\ Append(q, e) \in Seq(S) /\ Len(Append(q, e)) = Len(q) + 1 /\ Len(q) \in Nat
         /\ \A k \in 1 .. Len(q) : Append(q, e)[k] = q[k]
         /\ Append(q, e)[Len(q) + 1] = e
         /\ \A k \in 1 .. Len(q) + 1 : k \in 1 .. Len(q) \/ k = Len(q) + 1
  OBVIOUS

LEMMA QueueTail ==
  ASSUME NEW S, NEW q \in Seq(S), q # <<>>
  PROVE  /\ Tail(q) \in Seq(S) /\ Len(Tail(q)) = Len(q) - 1 /\ Len(q) \in Nat
         /\ Len(q) >= 1 /\ Head(q) = q[1] /\ q[1] \in S
         /\ \A k \in 1 .. Len(q) - 1 : Tail(q)[k] = q[k + 1] /\ k + 1 \in 1 .. Len(q)
  OBVIOUS

LEMMA SeqElement == ASSUME NEW S, NEW q \in Seq(S), NEW k \in 1 .. Len(q) PROVE q[k] \in S
  OBVIOUS

LEMMA SeqNone == Len(<<>>) = 0 /\ \A S : \A q \in Seq(S) : Len(q) = 0 <=> q = <<>>
  OBVIOUS

LEMMA Published ==
  ASSUME NEW sn \in Seq(Message), NEW m \in Message, NEW sg \in Stages, NEW st \in Nat,
         NEW ps \in Nat, NEW f \in Seq(Message), NEW sc \in Seq(Nat), NEW ln \in Seq(Nat),
         NEW gn \in BOOLEAN, Stream(sn, sg, st, ps, f, sc, ln, gn)
  PROVE  Stream(Append(sn, m), sg, st, ps, f, sc, ln, gn)
  <1> DEFINE t == Append(sn, m)
  <1>1. /\ Len(t) = Len(sn) + 1 /\ Len(sn) \in Nat
        /\ \A k \in 1 .. Len(sn) : t[k] = sn[k]
    BY SeqAdd
  <1>2. \A p : \A x : Is(sn, p, x) => Is(t, p, x)
    BY <1>1 DEF Is
  <1>3. Len(f) \in Nat /\ Len(sc) \in Nat /\ Len(ln) \in Nat
    OBVIOUS
  <1>4. ASSUME ~gn, sg # "over", NEW k \in 1 .. Len(f)
        PROVE  f[k] = t[st + Len(ln) + Len(sc) + k]
    <2>1. st + Len(ln) + Len(sc) + k \in 1 .. Len(sn)
      BY <1>1, <1>3, <1>4 DEF Stream
    <2> QED  BY <1>1, <1>4, <2>1 DEF Stream
  <1> HIDE DEF t
  <1>5. ps <= Len(t)
    BY <1>1 DEF Stream
  <1>6. Stream(t, sg, st, ps, f, sc, ln, gn)
    BY <1>2, <1>4, <1>5, Zenon DEF Stream
  <1> QED  BY <1>6 DEF t

LEMMA Subscribed ==
  ASSUME NEW sn \in Seq(Message), NEW st \in Nat, NEW ps \in Nat, NEW f, NEW sc, NEW ln,
         NEW gn \in BOOLEAN, Stream(sn, "off", st, ps, f, sc, ln, gn)
  PROVE  Stream(sn, "on", Len(sn), Len(sn), f, sc, ln, gn)
  <1>1. f = <<>> /\ sc = <<>> /\ ln = <<>> /\ Len(sn) \in Nat
    BY DEF Stream
  <1> QED  BY <1>1, SeqNone DEF Stream

LEMMA Took ==
  ASSUME NEW sn \in Seq(Message), NEW st \in Nat, NEW ps \in Nat, NEW f \in Seq(Message),
         NEW sc \in Seq(Nat), NEW ln \in Seq(Nat), NEW gn \in BOOLEAN,
         Stream(sn, "on", st, ps, f, sc, ln, gn), ps + 1 <= Len(sn)
  PROVE  Stream(sn, "on", st, ps + 1, Append(f, sn[ps + 1]), sc, ln, gn)
  <1>0. Len(sn) \in Nat /\ Len(sc) \in Nat /\ Len(ln) \in Nat
    OBVIOUS
  <1>1. sn[ps + 1] \in Message
    BY <1>0
  <1> DEFINE g == Append(f, sn[ps + 1])
  <1>2. /\ Len(g) = Len(f) + 1 /\ Len(f) \in Nat
        /\ \A k \in 1 .. Len(f) : g[k] = f[k]
        /\ g[Len(f) + 1] = sn[ps + 1]
        /\ \A k \in 1 .. Len(f) + 1 : k \in 1 .. Len(f) \/ k = Len(f) + 1
    BY <1>1, SeqAdd
  <1> HIDE DEF g
  <1>3. ASSUME ~gn
        PROVE  /\ ps + 1 = st + Len(ln) + Len(sc) + Len(g)
               /\ \A k \in 1 .. Len(g) : g[k] = sn[st + Len(ln) + Len(sc) + k]
    <2>1. /\ ps = st + Len(ln) + Len(sc) + Len(f)
          /\ \A k \in 1 .. Len(f) : f[k] = sn[st + Len(ln) + Len(sc) + k]
      BY <1>3 DEF Stream
    <2>2. /\ ps + 1 = st + Len(ln) + Len(sc) + Len(g)
          /\ st + Len(ln) + Len(sc) + (Len(f) + 1) = ps + 1
      BY <1>0, <1>2, <2>1
    <2> QED  BY <1>2, <2>1, <2>2, Zenon
  <1>4. Stream(sn, "on", st, ps + 1, g, sc, ln, gn)
    BY <1>3 DEF Stream
  <1> QED  BY <1>4 DEF g

LEMMA Ended ==
  ASSUME NEW sn, NEW st, NEW ps, NEW f, NEW sc, NEW ln, NEW gn,
         Stream(sn, "on", st, ps, f, sc, ln, gn)
  PROVE  Stream(sn, "ended", st, ps, f, sc, ln, gn)
  BY DEF Stream

LEMMA Relayed ==
  ASSUME NEW sn \in Seq(Message), NEW sg \in Stages, NEW st \in Nat, NEW ps \in Nat,
         NEW f \in Seq(Message), NEW sc \in Seq(Nat), NEW ln \in Seq(Nat),
         Stream(sn, sg, st, ps, f, sc, ln, FALSE), f # <<>>
  PROVE  Stream(sn, sg, st, ps, Tail(f), Append(sc, Head(f)), ln, FALSE)
  <1>1. /\ Len(Tail(f)) = Len(f) - 1 /\ Len(f) \in Nat /\ Len(f) >= 1
        /\ Head(f) = f[1] /\ f[1] \in Message
        /\ \A k \in 1 .. Len(f) - 1 : Tail(f)[k] = f[k + 1] /\ k + 1 \in 1 .. Len(f)
    BY QueueTail
  <1> DEFINE g == Tail(f)  d == Append(sc, Head(f))
  <1>2. /\ Len(d) = Len(sc) + 1 /\ Len(sc) \in Nat
        /\ \A k \in 1 .. Len(sc) : d[k] = sc[k]
        /\ d[Len(sc) + 1] = f[1]
        /\ \A k \in 1 .. Len(sc) + 1 : k \in 1 .. Len(sc) \/ k = Len(sc) + 1
    <2>1. Head(f) \in Nat
      BY <1>1 DEF Message
    <2> QED  BY <1>1, <2>1, SeqAdd
  <1>3. Len(ln) \in Nat /\ Len(sn) \in Nat
    OBVIOUS
  <1>4. sg \notin {"off", "over"}
    BY DEF Stream
  <1>5. /\ ps = st + Len(ln) + Len(sc) + Len(f) /\ ps <= Len(sn)
        /\ \A k \in 1 .. Len(f) : f[k] = sn[st + Len(ln) + Len(sc) + k]
    BY <1>4 DEF Stream
  <1> HIDE DEF g, d
  <1>6. Is(sn, st + Len(ln) + (Len(sc) + 1), f[1]) /\ f[1] # Done
    <2>1. 1 \in 1 .. Len(f) /\ st + Len(ln) + (Len(sc) + 1) = st + Len(ln) + Len(sc) + 1
      BY <1>1, <1>2, <1>3
    <2>2. f[1] = sn[st + Len(ln) + (Len(sc) + 1)]
      BY <1>5, <2>1
    <2>3. st + Len(ln) + (Len(sc) + 1) \in 1 .. Len(sn)
      BY <1>1, <1>2, <1>3, <1>5
    <2>4. f[1] # Done
      BY <1>1 DEF Message, Done
    <2> QED  BY <2>2, <2>3, <2>4 DEF Is
  <1>7. ASSUME NEW k \in 1 .. Len(d)
        PROVE  d[k] # Done /\ Is(sn, st + Len(ln) + k, d[k])
    <2>1. CASE k = Len(sc) + 1
      BY <1>2, <1>6, <2>1
    <2>2. CASE k \in 1 .. Len(sc)
      BY <1>2, <1>4, <2>2, Zenon DEF Stream
    <2> QED  BY <1>2, <2>1, <2>2
  <1>8. ASSUME NEW k \in 1 .. Len(g) PROVE g[k] = sn[st + Len(ln) + Len(d) + k]
    <2>1. k + 1 \in 1 .. Len(f) /\ g[k] = f[k + 1]
      BY <1>1, <1>8 DEF g
    <2>2. st + Len(ln) + Len(sc) + (k + 1) = st + Len(ln) + Len(d) + k
      BY <1>2, <1>3
    <2>3. f[k + 1] = sn[st + Len(ln) + Len(sc) + (k + 1)]
      BY <1>5, <2>1
    <2> QED  BY <2>1, <2>2, <2>3
  <1>9. ps = st + Len(ln) + Len(d) + Len(g)
    BY <1>1, <1>2, <1>3, <1>5 DEF g
  <1>10. \A k \in 1 .. Len(ln) : ln[k] # Done /\ Is(sn, st + k, ln[k])
    BY <1>4 DEF Stream
  <1>11. Stream(sn, sg, st, ps, g, d, ln, FALSE)
    BY <1>4, <1>5, <1>7, <1>8, <1>9, <1>10 DEF Stream
  <1> QED  BY <1>11, Zenon DEF g, d

\* With the connection gone, nothing is said about what is thrown away.
LEMMA Thrown ==
  ASSUME NEW sn, NEW sg, NEW st, NEW ps, NEW f \in Seq(Message), NEW sc, NEW ln,
         Stream(sn, sg, st, ps, f, sc, ln, TRUE), f # <<>>
  PROVE  Stream(sn, sg, st, ps, Tail(f), sc, ln, TRUE)
  BY DEF Stream

LEMMA SaidDone ==
  ASSUME NEW sn \in Seq(Message), NEW st \in Nat, NEW ps \in Nat,
         NEW sc \in Seq(Nat), NEW ln \in Seq(Nat),
         Stream(sn, "ended", st, ps, <<>>, sc, ln, FALSE)
  PROVE  Stream(sn, "over", st, ps, <<>>, Append(sc, Done), ln, FALSE)
  <1> DEFINE d == Append(sc, Done)
  <1>1. /\ Len(d) = Len(sc) + 1 /\ Len(sc) \in Nat
        /\ \A k \in 1 .. Len(sc) : d[k] = sc[k]
        /\ d[Len(sc) + 1] = Done
        /\ \A k \in 1 .. Len(sc) + 1 : k \in 1 .. Len(sc) \/ k = Len(sc) + 1
    <2>1. Done \in Nat
      BY DEF Done
    <2> QED  BY <2>1, SeqAdd
  <1> HIDE DEF d
  <1>2. \A k \in 1 .. Len(d) :
           \/ d[k] # Done /\ Is(sn, st + Len(ln) + k, d[k])
           \/ d[k] = Done /\ k = Len(d)
    BY <1>1, Zenon DEF Stream
  <1>3. \A k \in 1 .. Len(ln) : ln[k] # Done /\ Is(sn, st + k, ln[k])
    BY DEF Stream
  <1>4. ps <= Len(sn)
    BY DEF Stream
  <1>5. Stream(sn, "over", st, ps, <<>>, d, ln, FALSE)
    BY <1>2, <1>3, <1>4 DEF Stream
  <1> QED  BY <1>5, Zenon DEF d

LEMMA OverUnheard ==
  ASSUME NEW sn, NEW st, NEW ps, NEW sc, NEW ln,
         Stream(sn, "ended", st, ps, <<>>, sc, ln, TRUE)
  PROVE  Stream(sn, "over", st, ps, <<>>, sc, ln, TRUE)
  BY DEF Stream

LEMMA Left ==
  ASSUME NEW sn, NEW sg, NEW st, NEW ps, NEW f, NEW sc, NEW ln,
         Stream(sn, sg, st, ps, f, sc, ln, FALSE)
  PROVE  Stream(sn, sg, st, ps, f, <<>>, ln, TRUE)
  BY SeqNone DEF Stream

LEMMA Written ==
  ASSUME NEW sn \in Seq(Message), NEW sg \in Stages, NEW st \in Nat, NEW ps \in Nat,
         NEW f \in Seq(Message), NEW sc \in Seq(Nat), NEW ln \in Seq(Nat),
         Stream(sn, sg, st, ps, f, sc, ln, FALSE), sc # <<>>
  PROVE  Stream(sn, sg, st, ps, f, Tail(sc), Append(ln, Head(sc)), FALSE)
  <1>1. /\ Len(Tail(sc)) = Len(sc) - 1 /\ Len(sc) \in Nat /\ Len(sc) >= 1
        /\ Head(sc) = sc[1] /\ sc[1] \in Nat /\ Tail(sc) \in Seq(Nat)
        /\ \A k \in 1 .. Len(sc) - 1 : Tail(sc)[k] = sc[k + 1] /\ k + 1 \in 1 .. Len(sc)
    BY QueueTail
  <1> DEFINE d == Tail(sc)  e == Append(ln, Head(sc))
  <1>2. /\ Len(e) = Len(ln) + 1 /\ Len(ln) \in Nat
        /\ \A k \in 1 .. Len(ln) : e[k] = ln[k]
        /\ e[Len(ln) + 1] = sc[1]
        /\ \A k \in 1 .. Len(ln) + 1 : k \in 1 .. Len(ln) \/ k = Len(ln) + 1
    BY <1>1, SeqAdd
  <1>3. d \in Seq(Nat) /\ Len(d) = Len(sc) - 1
        /\ \A k \in 1 .. Len(d) : d[k] = sc[k + 1] /\ k + 1 \in 1 .. Len(sc)
    BY <1>1
  <1> HIDE DEF d, e
  <1>4. \A k \in 1 .. Len(ln) : ln[k] # Done /\ Is(sn, st + k, ln[k])
    BY DEF Stream
  <1>5. \/ sc[1] # Done /\ Is(sn, st + (Len(ln) + 1), sc[1])
        \/ sc[1] = Done /\ 1 = Len(sc) /\ sg = "over"
    <2>1. 1 \in 1 .. Len(sc) /\ st + (Len(ln) + 1) = st + Len(ln) + 1
      BY <1>1, <1>2
    <2> QED  BY <2>1, Zenon DEF Stream
  <1>6. 1 = Len(sc) => d = <<>>
    BY <1>1, <1>3, SeqNone
  <1>7. ASSUME NEW k \in 1 .. Len(e)
        PROVE  \/ e[k] # Done /\ Is(sn, st + k, e[k])
               \/ e[k] = Done /\ k = Len(e) /\ sg = "over" /\ d = <<>>
    <2>1. CASE k = Len(ln) + 1
      BY <1>2, <1>5, <1>6, <2>1
    <2>2. CASE k \in 1 .. Len(ln)
      BY <1>2, <1>4, <2>2, Zenon
    <2> QED  BY <1>2, <2>1, <2>2
  <1>8. ASSUME NEW k \in 1 .. Len(d)
        PROVE  \/ d[k] # Done /\ Is(sn, st + Len(e) + k, d[k])
               \/ d[k] = Done /\ k = Len(d) /\ sg = "over"
    <2>1. /\ k + 1 \in 1 .. Len(sc) /\ d[k] = sc[k + 1]
          /\ st + Len(ln) + (k + 1) = st + Len(e) + k /\ (k + 1 = Len(sc) => k = Len(d))
      <3>1. k + 1 \in 1 .. Len(sc) /\ d[k] = sc[k + 1]
        BY <1>3
      <3>2. st + Len(ln) + (k + 1) = st + Len(e) + k
        BY <1>2
      <3>3. k + 1 = Len(sc) => k = Len(d)
        <4>1. Len(d) = Len(sc) - 1 /\ Len(sc) \in Nat /\ k \in Int
          BY <1>1, <1>3
        <4> QED  BY <4>1
      <3> QED  BY <3>1, <3>2, <3>3
    <2>2. \/ sc[k + 1] # Done /\ Is(sn, st + Len(ln) + (k + 1), sc[k + 1])
          \/ sc[k + 1] = Done /\ k + 1 = Len(sc) /\ sg = "over"
      BY <2>1, SMTT(20) DEF Stream
    <2> QED  BY <2>1, <2>2
  <1>9. /\ sg = "over" => f = <<>>
        /\ sg # "off"
        /\ ps <= Len(sn)
    BY DEF Stream
  <1>10. ASSUME sg # "over"
         PROVE  /\ ps = st + Len(e) + Len(d) + Len(f)
                /\ \A k \in 1 .. Len(f) : f[k] = sn[st + Len(e) + Len(d) + k]
    <2>1. /\ ps = st + Len(ln) + Len(sc) + Len(f) /\ Len(f) \in Nat
          /\ \A k \in 1 .. Len(f) : f[k] = sn[st + Len(ln) + Len(sc) + k]
      BY <1>10 DEF Stream
    <2>2. st + Len(ln) + Len(sc) = st + Len(e) + Len(d)
      BY <1>1, <1>2, <1>3
    <2> QED  BY <2>1, <2>2, Zenon
  <1>11. Stream(sn, sg, st, ps, f, d, e, FALSE)
    BY <1>7, <1>8, <1>9, <1>10 DEF Stream
  <1> QED  BY <1>11, Zenon DEF d, e

-----------------------------------------------------------------------------
(* The steps of the system.                                                *)

LEMMA PubSubInitInv == ASSUME PubSubInit PROVE PubSubInv
  <1>1. PubSubTypeInv
    BY DEF PubSubInit, PubSubTypeInv, Stages
  <1>2. ASSUME NEW s \in Sub PROVE StreamOf(s)
    <2>1. /\ published[chan[s]] = <<>> /\ stage[s] = "off" /\ start[s] = 0 /\ pos[s] = 0
          /\ first[s] = <<>> /\ second[s] = <<>> /\ line[s] = <<>> /\ gone[s] = FALSE
      BY DEF PubSubInit
    <2>2. Stream(<<>>, "off", 0, 0, <<>>, <<>>, <<>>, FALSE)
      BY SeqNone DEF Stream
    <2> QED  BY <2>1, <2>2, Zenon DEF StreamOf
  <1> QED  BY <1>1, <1>2 DEF PubSubInv

\* A step of one subscriber's tasks leaves the other streams alone.
LEMMA OneStream ==
  ASSUME PubSubInv, NEW s \in Sub, PubSubTypeInv', UNCHANGED <<published, chan>>, StreamOf(s)',
         \A t \in Sub \ {s} :
            /\ stage'[t] = stage[t] /\ start'[t] = start[t] /\ pos'[t] = pos[t]
            /\ first'[t] = first[t] /\ second'[t] = second[t] /\ line'[t] = line[t]
            /\ gone'[t] = gone[t]
  PROVE  PubSubInv'
  <1>1. ASSUME NEW t \in Sub \ {s} PROVE StreamOf(t)'
    <2>1. StreamOf(t)
      BY DEF PubSubInv
    <2> QED  BY <2>1, Zenon DEF StreamOf
  <1> QED  BY <1>1 DEF PubSubInv

LEMMA StreamTypes ==
  ASSUME PubSubInv, NEW s \in Sub
  PROVE  /\ chan[s] \in Chan /\ published[chan[s]] \in Seq(Message) /\ stage[s] \in Stages
         /\ start[s] \in Nat /\ pos[s] \in Nat /\ first[s] \in Seq(Message)
         /\ second[s] \in Seq(Nat) /\ line[s] \in Seq(Nat) /\ gone[s] \in BOOLEAN
         /\ Stream(published[chan[s]], stage[s], start[s], pos[s], first[s], second[s],
                   line[s], gone[s])
  BY DEF PubSubInv, PubSubTypeInv, StreamOf

LEMMA SubscribeStep == ASSUME PubSubInv, NEW s \in Sub, Subscribe(s) PROVE PubSubInv'
  <1>1. Len(published[chan[s]]) \in Nat /\ stage[s] = "off"
    BY StreamTypes DEF Subscribe
  <1>2. PubSubTypeInv'
    BY <1>1 DEF PubSubInv, PubSubTypeInv, Subscribe, Stages
  <1>3. Stream(published[chan[s]], "on", Len(published[chan[s]]), Len(published[chan[s]]), first[s],
               second[s], line[s], gone[s])
    <2>1. Stream(published[chan[s]], "off", start[s], pos[s], first[s], second[s], line[s], gone[s])
      BY <1>1, StreamTypes, Zenon
    <2>2. /\ published[chan[s]] \in Seq(Message) /\ start[s] \in Nat /\ pos[s] \in Nat
          /\ gone[s] \in BOOLEAN
      BY StreamTypes, Zenon
    <2> QED  BY <2>1, <2>2, Subscribed, Zenon
  <1>4. StreamOf(s)'
    BY <1>3 DEF StreamOf, Subscribe, PubSubInv, PubSubTypeInv
  <1> QED  BY <1>2, <1>4, OneStream, Zenon DEF Subscribe, PubSubInv, PubSubTypeInv

LEMMA TakeStep == ASSUME PubSubInv, NEW s \in Sub, Take(s) PROVE PubSubInv'
  <1>1. /\ stage[s] = "on" /\ pos[s] + 1 <= Len(published[chan[s]]) /\ pos[s] + 1 \in Nat
        /\ published[chan[s]] \in Seq(Message)
    <2>0. pos[s] \in Nat /\ published[chan[s]] \in Seq(Message)
      BY StreamTypes, Zenon
    <2>1. pos[s] \in Nat /\ Len(published[chan[s]]) \in Nat /\ published[chan[s]] \in Seq(Message)
      BY <2>0
    <2>2. stage[s] = "on" /\ Len(published[chan[s]]) - pos[s] >= 1
      <3>1. stage[s] = "on" /\ Len(published[chan[s]]) - pos[s] \in 1 .. ChanCap
        BY Zenon DEF Take, Behind
      <3> QED  BY <2>1, <3>1, CapAssumption
    <2> QED  BY <2>1, <2>2
  <1>2. published[chan[s]][pos[s] + 1] \in Message
    <2>1. pos[s] + 1 \in 1 .. Len(published[chan[s]])
      BY <1>1, StreamTypes
    <2> QED  BY <1>1, <2>1, SeqElement
  <1>3. PubSubTypeInv'
    <2>1. first' \in [Sub -> Seq(Message)]
      <3>1. Append(first[s], published[chan[s]][pos[s] + 1]) \in Seq(Message)
        BY <1>2, StreamTypes, SeqAdd
      <3> QED  BY <3>1 DEF Take, PubSubInv, PubSubTypeInv
    <2> QED  BY <1>1, <2>1 DEF PubSubInv, PubSubTypeInv, Take
  <1>4. Stream(published[chan[s]], "on", start[s], pos[s] + 1,
               Append(first[s], published[chan[s]][pos[s] + 1]), second[s], line[s], gone[s])
    <2>1. Stream(published[chan[s]], "on", start[s], pos[s], first[s], second[s], line[s], gone[s])
      BY <1>1, StreamTypes, Zenon
    <2>2. /\ start[s] \in Nat /\ pos[s] \in Nat /\ first[s] \in Seq(Message)
          /\ second[s] \in Seq(Nat) /\ line[s] \in Seq(Nat) /\ gone[s] \in BOOLEAN
      BY StreamTypes, Zenon
    <2>3. ASSUME NEW sn, sn = published[chan[s]], NEW st, st = start[s], NEW ps, ps = pos[s],
                 NEW f, f = first[s], NEW sc, sc = second[s], NEW ln, ln = line[s],
                 NEW gn, gn = gone[s]
          PROVE  Stream(sn, "on", st, ps + 1, Append(f, sn[ps + 1]), sc, ln, gn)
      <3>1. /\ sn \in Seq(Message) /\ st \in Nat /\ ps \in Nat /\ f \in Seq(Message)
            /\ sc \in Seq(Nat) /\ ln \in Seq(Nat) /\ gn \in BOOLEAN /\ ps + 1 <= Len(sn)
        BY <1>1, <2>2, <2>3, Zenon
      <3>2. Stream(sn, "on", st, ps, f, sc, ln, gn)
        BY <2>1, <2>3, Zenon
      <3> QED  BY <3>1, <3>2, Took
    <2> QED  BY <2>3, Zenon
  <1>5. StreamOf(s)'
    BY <1>1, <1>4 DEF StreamOf, Take, PubSubInv, PubSubTypeInv
  <1> QED  BY <1>3, <1>5, OneStream, Zenon DEF Take, PubSubInv, PubSubTypeInv

LEMMA LaggedStep == ASSUME PubSubInv, NEW s \in Sub, Lagged(s) PROVE PubSubInv'
  <1>1. PubSubTypeInv'
    BY DEF PubSubInv, PubSubTypeInv, Lagged, Stages
  <1>2. Stream(published[chan[s]], "ended", start[s], pos[s], first[s], second[s], line[s], gone[s])
    BY StreamTypes, Ended, Zenon DEF Lagged
  <1>3. StreamOf(s)'
    BY <1>2 DEF StreamOf, Lagged, PubSubInv, PubSubTypeInv
  <1> QED  BY <1>1, <1>3, OneStream, Zenon DEF Lagged, PubSubInv, PubSubTypeInv

LEMMA ForwardStep == ASSUME PubSubInv, NEW s \in Sub, Relay(s) PROVE PubSubInv'
  <1>1. /\ first[s] # <<>> /\ first[s] \in Seq(Message) /\ second[s] \in Seq(Nat)
        /\ first' = [first EXCEPT ![s] = Tail(@)]
        /\ UNCHANGED <<publishes, published, stage, chan, start, pos, line, gone>>
    BY StreamTypes DEF Relay
  <1>2. Tail(first[s]) \in Seq(Message) /\ Head(first[s]) \in Nat
    BY <1>1, QueueTail DEF Message
  <1>3. first' \in [Sub -> Seq(Message)]
    BY <1>1, <1>2 DEF PubSubInv, PubSubTypeInv
  <1>4. CASE gone[s]
    <2>1. second' = second /\ gone[s] = TRUE
      BY <1>4 DEF Relay, PubSubInv, PubSubTypeInv
    <2>2. PubSubTypeInv'
      BY <1>1, <1>3, <2>1 DEF PubSubInv, PubSubTypeInv
    <2>3. Stream(published[chan[s]], stage[s], start[s], pos[s], Tail(first[s]), second[s],
                 line[s], TRUE)
      BY <1>1, <2>1, StreamTypes, Thrown, Zenon
    <2>4. StreamOf(s)'
      BY <1>1, <2>1, <2>3, Zenon DEF StreamOf, PubSubInv, PubSubTypeInv
    <2> QED  BY <1>1, <2>1, <2>2, <2>4, OneStream, Zenon DEF PubSubInv, PubSubTypeInv
  <1>5. CASE ~gone[s]
    <2>1. second' = [second EXCEPT ![s] = Append(@, Head(first[s]))] /\ gone[s] = FALSE
      BY <1>5 DEF Relay, PubSubInv, PubSubTypeInv
    <2>2. PubSubTypeInv'
      <3>1. Append(second[s], Head(first[s])) \in Seq(Nat)
        BY <1>1, <1>2, SeqAdd
      <3> QED  BY <1>1, <1>3, <2>1, <3>1, Zenon DEF PubSubInv, PubSubTypeInv
    <2>3. Stream(published[chan[s]], stage[s], start[s], pos[s], Tail(first[s]),
                 Append(second[s], Head(first[s])), line[s], FALSE)
      BY <1>1, <2>1, StreamTypes, Relayed, Zenon
    <2>4. StreamOf(s)'
      BY <1>1, <2>1, <2>3, Zenon DEF StreamOf, PubSubInv, PubSubTypeInv
    <2> QED  BY <1>1, <2>1, <2>2, <2>4, OneStream, Zenon DEF PubSubInv, PubSubTypeInv
  <1> QED  BY <1>4, <1>5, SMTT(20)

LEMMA RelayDoneStep == ASSUME PubSubInv, NEW s \in Sub, RelayDone(s) PROVE PubSubInv'
  <1>1. /\ first[s] = <<>> /\ stage[s] = "ended" /\ stage' = [stage EXCEPT ![s] = "over"]
        /\ second[s] \in Seq(Nat) /\ Done \in Nat
        /\ UNCHANGED <<publishes, published, chan, start, pos, first, line, gone>>
    BY StreamTypes, Zenon DEF RelayDone, Done
  <1>2. stage' \in [Sub -> Stages]
    BY <1>1 DEF PubSubInv, PubSubTypeInv, Stages
  <1>3. CASE gone[s]
    <2>1. second' = second /\ gone[s] = TRUE
      BY <1>3 DEF RelayDone, PubSubInv, PubSubTypeInv
    <2>2. PubSubTypeInv'
      BY <1>1, <1>2, <2>1 DEF PubSubInv, PubSubTypeInv
    <2>3. Stream(published[chan[s]], "over", start[s], pos[s], <<>>, second[s], line[s], TRUE)
      BY <1>1, <2>1, StreamTypes, OverUnheard, Zenon
    <2>4. StreamOf(s)'
      BY <1>1, <2>1, <2>3, Zenon DEF StreamOf, PubSubInv, PubSubTypeInv
    <2> QED  BY <1>1, <2>1, <2>2, <2>4, OneStream, Zenon DEF PubSubInv, PubSubTypeInv
  <1>4. CASE ~gone[s]
    <2>1. second' = [second EXCEPT ![s] = Append(@, Done)] /\ gone[s] = FALSE
      BY <1>4, SMTT(20) DEF RelayDone, PubSubInv, PubSubTypeInv
    <2>2. PubSubTypeInv'
      <3>1. Append(second[s], Done) \in Seq(Nat)
        BY <1>1, SeqAdd
      <3> QED  BY <1>1, <1>2, <2>1, <3>1 DEF PubSubInv, PubSubTypeInv
    <2>3. Stream(published[chan[s]], "over", start[s], pos[s], <<>>, Append(second[s], Done),
                 line[s], FALSE)
      BY <1>1, <2>1, StreamTypes, SaidDone, Zenon
    <2>4. StreamOf(s)'
      BY <1>1, <2>1, <2>3, Zenon DEF StreamOf, PubSubInv, PubSubTypeInv
    <2> QED  BY <1>1, <2>1, <2>2, <2>4, OneStream, Zenon DEF PubSubInv, PubSubTypeInv
  <1> QED  BY <1>3, <1>4

LEMMA WriteLineStep == ASSUME PubSubInv, NEW s \in Sub, WriteLine(s) PROVE PubSubInv'
  <1>1. /\ second[s] # <<>> /\ gone[s] = FALSE
        /\ second[s] \in Seq(Nat) /\ line[s] \in Seq(Nat)
        /\ line' = [line EXCEPT ![s] = Append(@, Head(second[s]))]
        /\ second' = [second EXCEPT ![s] = Tail(@)]
        /\ UNCHANGED <<publishes, published, stage, chan, start, pos, first, gone>>
    BY StreamTypes, Zenon DEF WriteLine
  <1>2. Tail(second[s]) \in Seq(Nat) /\ Head(second[s]) \in Nat
    BY <1>1, QueueTail
  <1>3. Append(line[s], Head(second[s])) \in Seq(Nat)
    BY <1>1, <1>2, SeqAdd
  <1>4. PubSubTypeInv'
    BY <1>1, <1>2, <1>3, Zenon DEF PubSubInv, PubSubTypeInv
  <1>5. Stream(published[chan[s]], stage[s], start[s], pos[s], first[s], Tail(second[s]),
               Append(line[s], Head(second[s])), FALSE)
    <2>1. /\ published[chan[s]] \in Seq(Message) /\ stage[s] \in Stages /\ start[s] \in Nat
          /\ pos[s] \in Nat /\ first[s] \in Seq(Message)
          /\ Stream(published[chan[s]], stage[s], start[s], pos[s], first[s], second[s],
                    line[s], FALSE)
      BY <1>1, StreamTypes, Zenon
    <2> QED  BY <1>1, <2>1, Written, Zenon
  <1>6. StreamOf(s)'
    BY <1>1, <1>5, Zenon DEF StreamOf, PubSubInv, PubSubTypeInv
  <1> QED  BY <1>1, <1>4, <1>6, OneStream, Zenon DEF PubSubInv, PubSubTypeInv

LEMMA LeaveStep == ASSUME PubSubInv, NEW s \in Sub, Leave(s) PROVE PubSubInv'
  <1>1. /\ gone[s] = FALSE /\ gone' = [gone EXCEPT ![s] = TRUE]
        /\ second' = [second EXCEPT ![s] = <<>>]
        /\ UNCHANGED <<publishes, published, stage, chan, start, pos, first, line>>
    BY StreamTypes, Zenon DEF Leave
  <1>2. PubSubTypeInv'
    BY <1>1 DEF PubSubInv, PubSubTypeInv
  <1>3. Stream(published[chan[s]], stage[s], start[s], pos[s], first[s], <<>>, line[s], TRUE)
    BY <1>1, StreamTypes, Left, Zenon
  <1>4. StreamOf(s)'
    BY <1>1, <1>3, Zenon DEF StreamOf, PubSubInv, PubSubTypeInv
  <1> QED  BY <1>1, <1>2, <1>4, OneStream, Zenon DEF PubSubInv, PubSubTypeInv

LEMMA PublishStep == ASSUME PubSubInv, NEW c \in Chan, Publish(c) PROVE PubSubInv'
  <1>1. /\ UNCHANGED <<stage, chan, start, pos, first, second, line, gone>>
        /\ publishes' = publishes + 1 /\ publishes + 1 \in Message /\ published \in [Chan -> Seq(Message)]
        /\ published' = published \/ published' = [published EXCEPT ![c] = Append(@, publishes + 1)]
    BY DEF Publish, PubSubInv, PubSubTypeInv, Message
  <1>2. Append(published[c], publishes + 1) \in Seq(Message)
    BY <1>1, SeqAdd
  <1>3. PubSubTypeInv'
    <2>1. published' \in [Chan -> Seq(Message)]
      BY <1>1, <1>2, Zenon
    <2>2. publishes' \in Nat
      BY <1>1 DEF Message
    <2> QED  BY <1>1, <2>1, <2>2 DEF PubSubInv, PubSubTypeInv
  <1>4. ASSUME NEW s \in Sub PROVE StreamOf(s)'
    <2>1. \/ published'[chan[s]] = published[chan[s]]
          \/ published'[chan[s]] = Append(published[chan[s]], publishes + 1)
      BY <1>1, StreamTypes, Zenon
    <2>2. Stream(Append(published[chan[s]], publishes + 1), stage[s], start[s], pos[s], first[s],
                 second[s], line[s], gone[s])
      <3>1. /\ published[chan[s]] \in Seq(Message) /\ stage[s] \in Stages /\ start[s] \in Nat
            /\ pos[s] \in Nat /\ first[s] \in Seq(Message) /\ second[s] \in Seq(Nat)
            /\ line[s] \in Seq(Nat) /\ gone[s] \in BOOLEAN
            /\ Stream(published[chan[s]], stage[s], start[s], pos[s], first[s], second[s],
                      line[s], gone[s])
        BY StreamTypes, Zenon
      <3>2. PICK m \in Message : m = publishes + 1
        BY <1>1, Zenon
      <3>3. Stream(Append(published[chan[s]], m), stage[s], start[s], pos[s], first[s],
                   second[s], line[s], gone[s])
        BY <3>1, Published, Zenon
      <3> QED  BY <3>2, <3>3, Zenon
    <2> QED  BY <1>1, <2>1, <2>2, StreamTypes, Zenon DEF StreamOf
  <1> QED  BY <1>3, <1>4 DEF PubSubInv

LEMMA PubSubStepInv == ASSUME PubSubInv, [PubSubNext]_pubsubVars PROVE PubSubInv'
  <1>1. CASE UNCHANGED pubsubVars
    BY <1>1 DEF PubSubInv, PubSubTypeInv, StreamOf, pubsubVars
  <1> QED  BY <1>1, SubscribeStep, TakeStep, LaggedStep, ForwardStep, RelayDoneStep,
              WriteLineStep, LeaveStep, PublishStep DEF PubSubNext, Tasks

LEMMA PubSubSafe == PubSubSpec => []PubSubInv
  <1>1. PubSubInit => PubSubInv
    BY PubSubInitInv
  <1>2. PubSubInv /\ [PubSubNext]_pubsubVars => PubSubInv'
    BY PubSubStepInv
  <1> QED  BY <1>1, <1>2, PTL DEF PubSubSpec

\* However slow a subscriber is and however small the channels are, what it
\* is sent is a gapless run of what was published since it subscribed
\* (efis.rs:787-798, macros/src/lib.rs:239-264).
THEOREM StreamHasNoGap == PubSubSpec => []NoGap
  <1>1. ASSUME PubSubInv PROVE NoGap
    <2>1. SUFFICES ASSUME NEW s \in Sub, NEW k \in DOMAIN line[s], line[s][k] # Done
                   PROVE  /\ start[s] + k \in DOMAIN published[chan[s]]
                          /\ line[s][k] = published[chan[s]][start[s] + k]
      BY DEF NoGap
    <2>2. /\ DOMAIN line[s] = 1 .. Len(line[s])
          /\ DOMAIN published[chan[s]] = 1 .. Len(published[chan[s]])
      <3>1. line[s] \in Seq(Nat) /\ published[chan[s]] \in Seq(Message)
        BY <1>1, StreamTypes, Zenon
      <3> QED  BY <3>1
    <2>3. Is(published[chan[s]], start[s] + k, line[s][k])
      BY <1>1, <2>1, <2>2, StreamTypes, Zenon DEF Stream
    <2> QED  BY <2>2, <2>3, Zenon DEF Is
  <1> QED  BY <1>1, PubSubSafe, PTL

\* Nothing follows the line that ends a stream.
THEOREM StreamEndsOnce == PubSubSpec => []DoneIsLast
  <1>1. ASSUME PubSubInv PROVE DoneIsLast
    <2>1. SUFFICES ASSUME NEW s \in Sub, NEW k \in DOMAIN line[s], line[s][k] = Done
                   PROVE  k = Len(line[s]) /\ stage[s] = "over"
      BY DEF DoneIsLast
    <2>2. DOMAIN line[s] = 1 .. Len(line[s])
      <3>1. line[s] \in Seq(Nat)
        BY <1>1, StreamTypes, Zenon
      <3> QED  BY <3>1
    <2> QED  BY <1>1, <2>1, <2>2, StreamTypes, Zenon DEF Stream
  <1> QED  BY <1>1, PubSubSafe, PTL

-----------------------------------------------------------------------------
(* Service.                                                                *)

IsSeq(s) == \E S : s \in Seq(S)

LogInv == IsSeq(log) /\ commit \in Nat

\* commit_chan carries the entries of the log by their index.
SentInv == IsSeq(sent) /\ \A k \in 1 .. Len(sent) : sent[k].index = k - 1

\* What the relay passed on is in order and comes before its position.
RelayInv ==
    /\ relay \in Int /\ -1 <= relay /\ relay <= Len(sent)
    /\ IsSeq(relayed)
    /\ \A k \in 1 .. Len(relayed) :
          relayed[k].index \in Nat /\ relayed[k].index < relay
    /\ \A j, k \in 1 .. Len(relayed) : j < k => relayed[j].index < relayed[k].index

\* What was applied comes before everything the apply loop has yet to see.
ApplyInv ==
    /\ apply \in Nat /\ apply <= Len(relayed)
    /\ IsSeq(applied)
    /\ \A i \in 1 .. Len(applied) :
          /\ applied[i].index \in Nat /\ applied[i].index < relay
          /\ \A k \in 1 .. Len(relayed) :
                apply < k => applied[i].index < relayed[k].index
    /\ \A i, j \in 1 .. Len(applied) : i < j => applied[i].index < applied[j].index

Inv == LogInv /\ SentInv /\ RelayInv /\ ApplyInv

-----------------------------------------------------------------------------

LEMMA SeqLen == ASSUME NEW s, IsSeq(s) PROVE Len(s) \in Nat /\ DOMAIN s = 1 .. Len(s)
  BY DEF IsSeq

LEMMA SeqAppend ==
  ASSUME NEW s, IsSeq(s), NEW e
  PROVE  /\ IsSeq(Append(s, e))
         /\ Len(Append(s, e)) = Len(s) + 1
         /\ \A k \in 1 .. Len(s) : Append(s, e)[k] = s[k]
         /\ Append(s, e)[Len(s) + 1] = e
  <1>1. PICK S : s \in Seq(S)
    BY DEF IsSeq
  <1>2. s \in Seq(S \cup {e})
    BY <1>1
  <1>3. Append(s, e) \in Seq(S \cup {e})
    BY <1>2
  <1> QED  BY <1>2, <1>3 DEF IsSeq

LEMMA SeqPrefix ==
  ASSUME NEW s, IsSeq(s), NEW n \in 0 .. Len(s) PROVE IsSeq(SubSeq(s, 1, n))
  <1>1. PICK S : s \in Seq(S)
    BY DEF IsSeq
  <1>2. SubSeq(s, 1, n) \in Seq(S)
    BY <1>1
  <1> QED  BY <1>2 DEF IsSeq

LEMMA SeqMake ==
  ASSUME NEW m \in Nat, NEW g, g = [k \in 1 .. m |-> g[k]]
  PROVE  IsSeq(g) /\ Len(g) = m
  <1>1. \A k \in 1 .. m : g[k] \in {g[i] : i \in 1 .. m}
    OBVIOUS
  <1>2. [k \in 1 .. m |-> g[k]] \in Seq({g[i] : i \in 1 .. m})
    BY <1>1, SMTT(20)
  <1>3. g \in Seq({g[i] : i \in 1 .. m})
    BY <1>2, Zenon
  <1>4. DOMAIN g = 1 .. m
    OBVIOUS
  <1>5. Len(g) = m
    BY <1>3, <1>4
  <1> QED  BY <1>3, <1>5, Zenon DEF IsSeq

LEMMA SeqConcat ==
  ASSUME NEW s, IsSeq(s), NEW g, IsSeq(g)
  PROVE  /\ IsSeq(s \o g) /\ Len(s \o g) = Len(s) + Len(g)
         /\ \A k \in 1 .. Len(s) : (s \o g)[k] = s[k]
         /\ \A k \in 1 .. Len(g) : (s \o g)[Len(s) + k] = g[k]
  <1>1. PICK S : s \in Seq(S)
    BY DEF IsSeq
  <1>2. PICK R : g \in Seq(R)
    BY DEF IsSeq
  <1>3. s \in Seq(S \cup R) /\ g \in Seq(S \cup R)
    BY <1>1, <1>2
  <1>4. s \o g \in Seq(S \cup R)
    BY <1>3
  <1>5. Len(s \o g) = Len(s) + Len(g) /\ Len(s) \in Nat /\ Len(g) \in Nat
    BY <1>3
  <1>6. \A k \in 1 .. Len(s) : (s \o g)[k] = s[k]
    BY <1>3, <1>5
  <1>7. \A k \in 1 .. Len(g) : (s \o g)[Len(s) + k] = g[k]
    BY <1>3, <1>5
  <1> QED  BY <1>4, <1>5, <1>6, <1>7, Zenon DEF IsSeq

LEMMA SeqCut ==
  ASSUME NEW n \in Int, NEW g, g = [k \in 1 .. n |-> g[k]]
  PROVE  IsSeq(g) /\ 1 .. Len(g) = 1 .. n
  <1>1. PICK m \in Nat : 1 .. n = 1 .. m
    <2>1. CASE n \in Nat
      BY <2>1
    <2>2. CASE n \notin Nat
      <3>1. 1 .. n = 1 .. 0
        BY <2>2
      <3> QED  BY <3>1
    <2> QED  BY <2>1, <2>2
  <1>2. g = [k \in 1 .. m |-> g[k]]
    BY <1>1
  <1>3. IsSeq(g) /\ Len(g) = m
    BY <1>2, SeqMake, Zenon
  <1> QED  BY <1>1, <1>3, Zenon

\* What send_commits adds to the channel continues the indexes.
LEMMA SeqExtend ==
  ASSUME NEW s, IsSeq(s), \A k \in 1 .. Len(s) : s[k].index = k - 1,
         NEW g, IsSeq(g), \A k \in 1 .. Len(g) : g[k].index = Len(s) + k - 1
  PROVE  /\ IsSeq(s \o g) /\ Len(s) <= Len(s \o g)
         /\ \A k \in 1 .. Len(s \o g) : (s \o g)[k].index = k - 1
  <1>1. Len(s) \in Nat /\ Len(g) \in Nat
    BY SeqLen
  <1>2. /\ IsSeq(s \o g) /\ Len(s \o g) = Len(s) + Len(g)
        /\ \A k \in 1 .. Len(s) : (s \o g)[k] = s[k]
        /\ \A k \in 1 .. Len(g) : (s \o g)[Len(s) + k] = g[k]
    <2>1. IsSeq(s \o g) /\ Len(s \o g) = Len(s) + Len(g)
      BY SeqConcat
    <2>2. \A k \in 1 .. Len(s) : (s \o g)[k] = s[k]
      BY SeqConcat
    <2>3. \A k \in 1 .. Len(g) : (s \o g)[Len(s) + k] = g[k]
      BY SeqConcat
    <2> QED  BY <2>1, <2>2, <2>3
  <1>3. ASSUME NEW k \in 1 .. Len(s) + Len(g) PROVE (s \o g)[k].index = k - 1
    <2>1. CASE k <= Len(s)
      BY <1>1, <1>2, <2>1
    <2>2. CASE k > Len(s)
      <3>1. k - Len(s) \in 1 .. Len(g) /\ Len(s) + (k - Len(s)) = k
        BY <1>1, <2>2
      <3>2. (s \o g)[k] = g[k - Len(s)]
        BY <1>2, <3>1
      <3>3. g[k - Len(s)].index = k - 1
        BY <1>1, <3>1
      <3> QED  BY <3>2, <3>3, Zenon
    <2> QED  BY <1>1, <2>1, <2>2
  <1> QED  BY <1>1, <1>2, <1>3

LEMMA InitInv == ASSUME ServiceInit PROVE Inv
  <1>1. IsSeq(<<>>) /\ Len(<<>>) = 0
    <2>1. <<>> \in Seq({})
      OBVIOUS
    <2> QED  BY <2>1 DEF IsSeq
  <1>2. LogInv
    BY <1>1 DEF ServiceInit, LogInv
  <1>3. SentInv
    BY <1>1 DEF ServiceInit, SentInv
  <1>4. RelayInv
    BY <1>1 DEF ServiceInit, RelayInv
  <1>5. ApplyInv
    BY <1>1 DEF ServiceInit, ApplyInv
  <1> QED  BY <1>2, <1>3, <1>4, <1>5 DEF Inv

-----------------------------------------------------------------------------
(* The steps.                                                              *)

\* The actor's log, as far as the commits depend on it.
LEMMA LogStep ==
  ASSUME Inv,
         TakeSubmit \/ TakeResult
            \/ \E k \in 0 .. Len(log), done \in BOOLEAN : ForeignAppend(k, done)
  PROVE  LogInv' /\ UNCHANGED <<sent, relay, relayed, apply, applied>>
  <1>1. IsSeq(log) /\ commit \in Nat /\ Len(log) \in Nat
    BY SeqLen DEF Inv, LogInv
  <1>2. CASE TakeSubmit
    <2>1. log' \in {log, Append(log, Head(mailbox).cmd)} /\ commit' = commit
      BY <1>2 DEF TakeSubmit
    <2>2. IsSeq(log')
      BY <1>1, <2>1, SeqAppend, Zenon
    <2> QED  BY <1>1, <1>2, <2>1, <2>2 DEF LogInv, TakeSubmit, pipeVars
  <1>3. CASE TakeResult
    BY <1>1, <1>3, Zenon DEF LogInv, TakeResult, pipeVars
  <1>4. ASSUME NEW k \in 0 .. Len(log), NEW done \in BOOLEAN, ForeignAppend(k, done)
        PROVE  LogInv' /\ UNCHANGED <<sent, relay, relayed, apply, applied>>
    <2>1. IsSeq(SubSeq(log, 1, k))
      BY <1>1, SeqPrefix
    <2>2. IsSeq(log')
      BY <1>4, <2>1, SeqAppend DEF ForeignAppend
    <2>3. commit' \in Nat
      BY <1>1, <1>4, SMTT(20) DEF ForeignAppend
    <2> QED  BY <1>4, <2>2, <2>3 DEF LogInv, ForeignAppend, pipeVars
  <1> QED  BY <1>2, <1>3, <1>4

LEMMA SendCommitStep == ASSUME Inv, TakeSendCommit PROVE Inv'
  <1> DEFINE new == [k \in 1 .. commit - Len(sent) |->
                       [index |-> Len(sent) + k - 1, cmd |-> log[Len(sent) + k]]]
  <1>1. IsSeq(sent) /\ Len(sent) \in Nat /\ commit \in Nat
    BY SeqLen DEF Inv, LogInv, SentInv
  <1>2. /\ commit - Len(sent) \in Int
        /\ new = [k \in 1 .. commit - Len(sent) |-> new[k]]
        /\ \A k \in 1 .. commit - Len(sent) : new[k].index = Len(sent) + k - 1
    BY <1>1
  <1>3. sent' = sent \o new
    BY DEF TakeSendCommit
  <1>4. UNCHANGED <<log, commit, relay, relayed, apply, applied>>
    BY DEF TakeSendCommit
  <1> HIDE DEF new
  <1>5. SentInv' /\ Len(sent) <= Len(sent')
    <2>1. \A k \in 1 .. Len(sent) : sent[k].index = k - 1
      BY DEF Inv, SentInv
    <2>2. IsSeq(new) /\ 1 .. Len(new) = 1 .. commit - Len(sent)
      BY <1>2, SeqCut, Zenon
    <2>3. \A k \in 1 .. Len(new) : new[k].index = Len(sent) + k - 1
      BY <1>2, <2>2, Zenon
    <2>4. /\ IsSeq(sent \o new) /\ Len(sent) <= Len(sent \o new)
          /\ \A k \in 1 .. Len(sent \o new) : (sent \o new)[k].index = k - 1
      BY <1>1, <2>1, <2>2, <2>3, SeqExtend
    <2> QED  BY <1>3, <2>4, Zenon DEF SentInv
  <1>6. Len(sent') \in Nat
    BY <1>5, SeqLen DEF SentInv
  <1>7. RelayInv'
    BY <1>1, <1>4, <1>5, <1>6, SMTT(20) DEF Inv, RelayInv
  <1> QED  BY <1>4, <1>5, <1>7 DEF Inv, LogInv, ApplyInv

\* The relay moves forward, and passes nothing on.
LEMMA SkipStep ==
  ASSUME Inv, SubscribeCommits \/ RelayLag PROVE Inv'
  <1>1. IsSeq(sent) /\ Len(sent) \in Nat /\ relay \in Int /\ -1 <= relay
    BY SeqLen DEF Inv, SentInv, RelayInv
  <1>2. relay' \in Int /\ relay <= relay' /\ relay' <= Len(sent)
    BY <1>1, ServiceCapAssumption DEF SubscribeCommits, RelayLag
  <1>3. UNCHANGED <<log, commit, sent, relayed, apply, applied>>
    BY DEF SubscribeCommits, RelayLag, actorVars
  <1>4. RelayInv'
    BY <1>1, <1>2, <1>3, SMTT(20) DEF Inv, RelayInv
  <1>5. ApplyInv'
    BY <1>1, <1>2, <1>3 DEF Inv, ApplyInv
  <1> QED  BY <1>3, <1>4, <1>5 DEF Inv, LogInv, SentInv

\* The entry that the relay passes on.
LEMMA RelayNext ==
  ASSUME Inv, RelayCommit
  PROVE  /\ IsSeq(sent) /\ Len(sent) \in Nat /\ relay \in Int /\ 0 <= relay
         /\ relay + 1 \in 1 .. Len(sent) /\ IsSeq(relayed) /\ Len(relayed) \in Nat
  <1>1. IsSeq(sent) /\ IsSeq(relayed) /\ relay \in Int /\ -1 <= relay
    BY Zenon DEF Inv, SentInv, RelayInv
  <1>2. Len(sent) \in Nat /\ Len(relayed) \in Nat
    BY <1>1, SeqLen, Zenon
  <1>3. relay # -1 /\ relay < Len(sent)
    BY Zenon DEF RelayCommit
  <1>4. 0 <= relay /\ relay + 1 \in 1 .. Len(sent)
    BY <1>1, <1>2, <1>3
  <1> QED  BY <1>1, <1>2, <1>4, Zenon

LEMMA RelayStep == ASSUME Inv, RelayCommit PROVE Inv'
  <1>1. /\ IsSeq(sent) /\ Len(sent) \in Nat /\ relay \in Int /\ 0 <= relay
        /\ relay + 1 \in 1 .. Len(sent) /\ IsSeq(relayed) /\ Len(relayed) \in Nat
    BY RelayNext, Zenon
  <1> DEFINE e == sent[relay + 1]
  <1>2. e.index = relay
    BY <1>1 DEF Inv, SentInv
  <1>3. /\ relayed' = Append(relayed, e) /\ relay' = relay + 1
        /\ UNCHANGED <<log, commit, sent, apply, applied>>
    BY DEF RelayCommit, actorVars
  <1> HIDE DEF e
  <1>4. /\ IsSeq(relayed') /\ Len(relayed') = Len(relayed) + 1
        /\ \A k \in 1 .. Len(relayed) : relayed'[k] = relayed[k]
        /\ relayed'[Len(relayed) + 1] = e
    BY <1>1, <1>3, SeqAppend
  <1>5. \A k \in 1 .. Len(relayed') : k \in 1 .. Len(relayed) \/ k = Len(relayed) + 1
    BY <1>1, <1>4
  <1>6. RelayInv'
    <2>1. /\ relay' \in Int /\ -1 <= relay' /\ relay' <= Len(sent')
      BY <1>1, <1>3
    <2>2. \A k \in 1 .. Len(relayed') :
             relayed'[k].index \in Nat /\ relayed'[k].index < relay'
      BY <1>1, <1>2, <1>3, <1>4, <1>5 DEF Inv, RelayInv
    <2>3. ASSUME NEW j \in 1 .. Len(relayed'), NEW k \in 1 .. Len(relayed'), j < k
          PROVE  relayed'[j].index < relayed'[k].index
      <3>1. j \in 1 .. Len(relayed)
        BY <1>1, <1>4, <2>3
      <3> QED  BY <1>2, <1>4, <1>5, <2>3, <3>1, Zenon DEF Inv, RelayInv
    <2> QED  BY <1>4, <2>1, <2>2, <2>3 DEF RelayInv
  <1>7. ApplyInv'
    <2>1. apply' \in Nat /\ apply' <= Len(relayed')
      BY <1>1, <1>3, <1>4, SMTT(20) DEF Inv, ApplyInv
    <2>2. ASSUME NEW i \in 1 .. Len(applied)
          PROVE  /\ applied[i].index \in Nat /\ applied[i].index < relay'
                 /\ \A k \in 1 .. Len(relayed') :
                       apply < k => applied[i].index < relayed'[k].index
      BY <1>1, <1>2, <1>3, <1>4, <1>5, SMTT(20) DEF Inv, ApplyInv
    <2> QED  BY <1>3, <2>1, <2>2, Zenon DEF Inv, ApplyInv
  <1> QED  BY <1>3, <1>6, <1>7 DEF Inv, LogInv, SentInv

LEMMA ApplyLagStep == ASSUME Inv, ApplyLag PROVE Inv'
  <1>1. Len(relayed) \in Nat /\ apply \in Nat
    BY SeqLen DEF Inv, RelayInv, ApplyInv
  <1>2. apply' \in Nat /\ apply <= apply' /\ apply' <= Len(relayed)
    <2>1. Len(relayed) - apply > RelayCap /\ apply' = Len(relayed) - RelayCap
      BY Zenon DEF ApplyLag
    <2> QED  BY <1>1, <2>1, ServiceCapAssumption
  <1>3. UNCHANGED <<log, commit, sent, relay, relayed, applied>>
    BY DEF ApplyLag, actorVars
  <1>4. ApplyInv'
    BY <1>1, <1>2, <1>3 DEF Inv, ApplyInv
  <1> QED  BY <1>3, <1>4 DEF Inv, LogInv, SentInv, RelayInv

\* The entry that the apply loop takes.
LEMMA ApplyNext ==
  ASSUME Inv, ApplyEntry
  PROVE  /\ Len(relayed) \in Nat /\ apply \in Nat /\ apply + 1 \in 1 .. Len(relayed)
         /\ IsSeq(applied) /\ Len(applied) \in Nat
  <1>1. apply \in Nat /\ IsSeq(relayed) /\ IsSeq(applied)
    BY Zenon DEF Inv, RelayInv, ApplyInv
  <1>2. Len(relayed) \in Nat /\ Len(applied) \in Nat
    BY <1>1, SeqLen, Zenon
  <1>3. apply < Len(relayed)
    BY Zenon DEF ApplyEntry
  <1>4. apply + 1 \in 1 .. Len(relayed)
    BY <1>1, <1>2, <1>3
  <1> QED  BY <1>1, <1>2, <1>4, Zenon

LEMMA ApplyStep == ASSUME Inv, ApplyEntry PROVE Inv'
  <1>1. /\ Len(relayed) \in Nat /\ apply \in Nat /\ apply + 1 \in 1 .. Len(relayed)
        /\ IsSeq(applied) /\ Len(applied) \in Nat
    BY ApplyNext, Zenon
  <1> DEFINE e == relayed[apply + 1]
  <1>2. e.index \in Nat /\ e.index < relay
    BY <1>1 DEF Inv, RelayInv
  <1>3. \A i \in 1 .. Len(applied) : applied[i].index < e.index
    BY <1>1 DEF Inv, ApplyInv
  <1>4. \A k \in 1 .. Len(relayed) : apply + 1 < k => e.index < relayed[k].index
    BY <1>1 DEF Inv, RelayInv
  <1>5. /\ apply' = apply + 1 /\ applied' = Append(applied, e)
        /\ UNCHANGED <<log, commit, sent, relay, relayed>>
    BY Zenon DEF ApplyEntry, actorVars
  <1> HIDE DEF e
  <1>6. /\ IsSeq(applied') /\ Len(applied') = Len(applied) + 1
        /\ \A i \in 1 .. Len(applied) : applied'[i] = applied[i]
        /\ applied'[Len(applied) + 1] = e
    BY <1>1, <1>5, SeqAppend
  <1>7. \A i \in 1 .. Len(applied') : i \in 1 .. Len(applied) \/ i = Len(applied) + 1
    BY <1>1, <1>6
  <1>8. ApplyInv'
    <2>1. apply' \in Nat /\ apply' <= Len(relayed')
      BY <1>1, <1>5
    <2>2. ASSUME NEW i \in 1 .. Len(applied')
          PROVE  /\ applied'[i].index \in Nat /\ applied'[i].index < relay
                 /\ \A k \in 1 .. Len(relayed) :
                       apply + 1 < k => applied'[i].index < relayed[k].index
      <3>1. CASE i = Len(applied) + 1
        BY <1>2, <1>4, <1>6, <3>1, SMTT(20)
      <3>2. CASE i \in 1 .. Len(applied)
        BY <1>1, <1>6, <3>2, SMTT(20) DEF Inv, ApplyInv
      <3> QED  BY <1>7, <3>1, <3>2
    <2>3. ASSUME NEW i \in 1 .. Len(applied'), NEW j \in 1 .. Len(applied'), i < j
          PROVE  applied'[i].index < applied'[j].index
      <3>1. i \in 1 .. Len(applied)
        BY <1>1, <1>6, <2>3
      <3> QED  BY <1>3, <1>6, <1>7, <2>3, <3>1, SMTT(20) DEF Inv, ApplyInv
    <2> QED  BY <1>5, <1>6, <2>1, <2>2, <2>3, Zenon DEF ApplyInv
  <1> QED  BY <1>5, <1>8, Zenon DEF Inv, LogInv, SentInv, RelayInv

LEMMA StepInv == ASSUME Inv, [ServiceNext]_serviceVars PROVE Inv'
  <1>1. ASSUME UNCHANGED <<log, commit, sent, relay, relayed, apply, applied>>
        PROVE  Inv'
    BY <1>1, Zenon DEF Inv, LogInv, SentInv, RelayInv, ApplyInv
  <1>2. ASSUME LogInv', UNCHANGED <<sent, relay, relayed, apply, applied>> PROVE Inv'
    BY <1>2, Zenon DEF Inv, SentInv, RelayInv, ApplyInv
  <1>3. ASSUME NEW c \in Client, Load(c) \/ Send(c) \/ Register(c) \/ Timeout(c)
        PROVE  Inv'
    BY <1>1, <1>3 DEF Load, Send, Register, Timeout, actorVars, pipeVars
  <1>4. CASE SelfSend \/ TakeAES \/ StepDown \/ StepUp \/ UNCHANGED serviceVars
             \/ \E t \in acks : AckReply(t)
    BY <1>1, <1>4, Zenon DEF SelfSend, TakeAES, StepDown, StepUp, AckReply, serviceVars, pipeVars
  <1> QED  BY <1>2, <1>3, <1>4, LogStep, SendCommitStep, SkipStep, RelayStep,
              ApplyLagStep, ApplyStep DEF ServiceNext, Actor

\* However small the two channels are, however late their receivers
\* subscribe and however often the leader changes, no entry is applied twice
\* or after a later one (consensus.rs:841-858, efis.rs:203-235).
THEOREM AppliesInOrder == ServiceSpec => []AppliedIncreasing
  <1>1. ServiceInit => Inv
    BY InitInv
  <1>2. Inv /\ [ServiceNext]_serviceVars => Inv'
    BY StepInv
  <1>3. Inv => AppliedIncreasing
    BY SeqLen DEF Inv, ApplyInv, AppliedIncreasing
  <1> QED  BY <1>1, <1>2, <1>3, PTL DEF ServiceSpec

-----------------------------------------------------------------------------
(* What is applied is what the log has.                                    *)

FromSent(s) == \A k \in 1 .. Len(s) : \E g \in 1 .. Len(sent) : s[k] = sent[g]

\* Only committed entries are sent, and no committed entry is replaced.
AgreeInv ==
    /\ Len(sent) <= commit /\ commit <= Len(log)
    /\ \A k \in 1 .. Len(sent) : sent[k].cmd = log[k]
    /\ FromSent(relayed) /\ FromSent(applied)

\* What was sent is in the log.
LEMMA SentInLog == ASSUME Inv, AgreeInv PROVE \A g \in 1 .. Len(sent) : g \in 1 .. Len(log)
  <1>1. /\ IsSeq(sent) /\ IsSeq(log) /\ commit \in Nat
        /\ Len(sent) <= commit /\ commit <= Len(log)
    BY Zenon DEF AgreeInv, Inv, LogInv, SentInv
  <1>2. Len(sent) \in Nat /\ Len(log) \in Nat
    BY <1>1, SeqLen, Zenon
  <1> QED  BY <1>1, <1>2

\* The log keeps what is committed, and nothing is sent.
LEMMA AgreeKept ==
  ASSUME Inv, AgreeInv, UNCHANGED <<sent, relayed, applied>>,
         commit' \in Nat, commit <= commit', commit' <= Len(log'),
         \A k \in 1 .. commit : log'[k] = log[k]
  PROVE  AgreeInv'
  <1>1. commit \in Nat /\ Len(sent) \in Nat
    BY SeqLen DEF Inv, LogInv, SentInv
  <1>2. Len(sent) <= commit'
    BY <1>1 DEF AgreeInv
  <1>3. ASSUME NEW k \in 1 .. Len(sent) PROVE sent[k].cmd = log'[k]
    <2>1. k \in 1 .. commit
      BY <1>1 DEF AgreeInv
    <2>2. sent[k].cmd = log[k]
      BY Zenon DEF AgreeInv
    <2> QED  BY <2>1, <2>2, Zenon
  <1>4. FromSent(relayed)' /\ FromSent(applied)'
    BY Zenon DEF AgreeInv, FromSent
  <1> QED  BY <1>2, <1>3, <1>4, Zenon DEF AgreeInv

LEMMA AgreeLogStep ==
  ASSUME Inv, AgreeInv,
         TakeSubmit \/ TakeResult
            \/ \E k \in 0 .. Len(log), done \in BOOLEAN : ForeignAppend(k, done)
  PROVE  AgreeInv'
  <1>1. /\ IsSeq(log) /\ commit \in Nat /\ Len(log) \in Nat
        /\ commit <= Len(log)
    BY SeqLen DEF Inv, LogInv, AgreeInv
  <1>2. CASE TakeSubmit
    <2>1. /\ log' \in {log, Append(log, Head(mailbox).cmd)} /\ commit' = commit
          /\ UNCHANGED <<sent, relayed, applied>>
      BY <1>2, Zenon DEF TakeSubmit, pipeVars
    <2>2. Len(log) <= Len(log') /\ \A k \in 1 .. Len(log) : log'[k] = log[k]
      <3>1. CASE log' = log
        BY <1>1, <3>1
      <3>2. CASE log' = Append(log, Head(mailbox).cmd)
        <4>1. /\ Len(log') = Len(log) + 1
              /\ \A k \in 1 .. Len(log) : log'[k] = log[k]
          BY <1>1, <3>2, SeqAppend
        <4> QED  BY <1>1, <4>1
      <3> QED  BY <2>1, <3>1, <3>2
    <2>3. Len(log') \in Nat
      BY LogStep, SeqLen DEF LogInv
    <2>4. commit' \in Nat /\ commit <= commit' /\ commit' <= Len(log')
      BY <1>1, <2>1, <2>2, <2>3
    <2>5. \A k \in 1 .. commit : k \in 1 .. Len(log)
      BY <1>1
    <2>6. \A k \in 1 .. commit : log'[k] = log[k]
      BY <2>2, <2>5, Zenon
    <2> QED  BY <2>1, <2>4, <2>6, AgreeKept, Zenon
  <1>3. CASE TakeResult
    <2>1. /\ commit' \in {commit, Len(log)} /\ log' = log
          /\ UNCHANGED <<sent, relayed, applied>>
      BY <1>3, Zenon DEF TakeResult, pipeVars
    <2>2. commit' \in Nat /\ commit <= commit' /\ commit' <= Len(log')
      BY <1>1, <2>1
    <2> QED  BY <2>1, <2>2, AgreeKept, Zenon
  <1>4. ASSUME NEW n \in 0 .. Len(log), NEW done \in BOOLEAN, ForeignAppend(n, done)
        PROVE  AgreeInv'
    <2>1. /\ n >= commit /\ log' = Append(SubSeq(log, 1, n), <<Other, n + 1>>)
          /\ commit' \in {commit, n + 1}
          /\ UNCHANGED <<sent, relayed, applied>>
      BY <1>4, Zenon DEF ForeignAppend, pipeVars
    <2>2. /\ IsSeq(SubSeq(log, 1, n)) /\ Len(SubSeq(log, 1, n)) = n
          /\ \A k \in 1 .. n : SubSeq(log, 1, n)[k] = log[k]
      <3>1. PICK S : log \in Seq(S)
        BY <1>1 DEF IsSeq
      <3> QED  BY <1>1, <3>1, SeqPrefix
    <2>3. Len(log') = n + 1 /\ \A k \in 1 .. n : log'[k] = log[k]
      BY <2>1, <2>2, SeqAppend
    <2>4. commit' \in Nat /\ commit <= commit' /\ commit' <= Len(log')
      BY <1>1, <2>1, <2>3
    <2>5. \A k \in 1 .. commit : k \in 1 .. n
      BY <1>1, <2>1
    <2>6. \A k \in 1 .. commit : log'[k] = log[k]
      BY <2>3, <2>5, Zenon
    <2> QED  BY <2>1, <2>4, <2>6, AgreeKept, Zenon
  <1> QED  BY <1>2, <1>3, <1>4

LEMMA AgreeSendStep == ASSUME Inv, AgreeInv, TakeSendCommit PROVE AgreeInv'
  <1> DEFINE new == [k \in 1 .. commit - Len(sent) |->
                       [index |-> Len(sent) + k - 1, cmd |-> log[Len(sent) + k]]]
  <1>1. /\ IsSeq(sent) /\ Len(sent) \in Nat /\ commit \in Nat
        /\ commit - Len(sent) \in Nat
    BY SeqLen DEF Inv, LogInv, SentInv, AgreeInv
  <1>2. /\ new = [k \in 1 .. commit - Len(sent) |-> new[k]]
        /\ \A k \in 1 .. commit - Len(sent) : new[k].cmd = log[Len(sent) + k]
    BY <1>1, Zenon
  <1>3. sent' = sent \o new /\ UNCHANGED <<log, commit, relayed, applied>>
    BY Zenon DEF TakeSendCommit
  <1> HIDE DEF new
  <1>4. IsSeq(new) /\ Len(new) = commit - Len(sent)
    BY <1>1, <1>2, SeqMake
  <1>5. /\ Len(sent') = Len(sent) + Len(new)
        /\ \A k \in 1 .. Len(sent) : sent'[k] = sent[k]
        /\ \A k \in 1 .. Len(new) : sent'[Len(sent) + k] = new[k]
    BY <1>1, <1>3, <1>4, SeqConcat
  <1>6. Len(sent') = commit
    BY <1>1, <1>4, <1>5
  <1>7. ASSUME NEW k \in 1 .. commit PROVE sent'[k].cmd = log[k]
    <2>1. CASE k <= Len(sent)
      <3>1. k \in 1 .. Len(sent)
        BY <1>1, <2>1
      <3> QED  BY <1>5, <3>1, Zenon DEF AgreeInv
    <2>2. CASE k > Len(sent)
      <3>1. k - Len(sent) \in 1 .. commit - Len(sent) /\ Len(sent) + (k - Len(sent)) = k
        BY <1>1, <2>2
      <3>2. sent'[k] = new[k - Len(sent)]
        BY <1>4, <1>5, <3>1, Zenon
      <3>3. new[k - Len(sent)].cmd = log[k]
        BY <1>2, <3>1, Zenon
      <3> QED  BY <3>2, <3>3, Zenon
    <2> QED  BY <1>1, <2>1, <2>2
  <1>8. \A g \in 1 .. Len(sent) : g \in 1 .. Len(sent')
    BY <1>1, <1>6
  <1>a. ASSUME NEW s, FromSent(s)
        PROVE  \A k \in 1 .. Len(s) : \E g \in 1 .. Len(sent') : s[k] = sent'[g]
    <2> TAKE k \in 1 .. Len(s)
    <2>1. PICK g \in 1 .. Len(sent) : s[k] = sent[g]
      BY <1>a, Zenon DEF FromSent
    <2> QED  BY <1>5, <1>8, <2>1, Zenon
  <1>9. FromSent(relayed)' /\ FromSent(applied)'
    <2>1. /\ \A k \in 1 .. Len(relayed) : \E g \in 1 .. Len(sent') : relayed[k] = sent'[g]
          /\ \A k \in 1 .. Len(applied) : \E g \in 1 .. Len(sent') : applied[k] = sent'[g]
      BY <1>a, Zenon DEF AgreeInv
    <2> QED  BY <1>3, <2>1, Zenon DEF FromSent
  <1>10. Len(sent') <= commit
    BY <1>1, <1>6
  <1> QED  BY <1>3, <1>6, <1>7, <1>9, <1>10, Zenon DEF AgreeInv

\* What is passed on was sent.
LEMMA AgreeRelayStep == ASSUME Inv, AgreeInv, RelayCommit \/ ApplyEntry PROVE AgreeInv'
  <1>1. ASSUME NEW s, IsSeq(s), FromSent(s), NEW e, NEW g \in 1 .. Len(sent), e = sent[g]
        PROVE  FromSent(Append(s, e))
    <2>1. /\ Len(s) \in Nat /\ Len(Append(s, e)) = Len(s) + 1
          /\ \A k \in 1 .. Len(s) : Append(s, e)[k] = s[k]
          /\ Append(s, e)[Len(s) + 1] = e
      BY <1>1, SeqLen, SeqAppend
    <2>2. \A k \in 1 .. Len(Append(s, e)) : k \in 1 .. Len(s) \/ k = Len(s) + 1
      BY <2>1
    <2> QED  BY <1>1, <2>1, <2>2, Zenon DEF FromSent
  <1>2. CASE RelayCommit
    <2>1. relay + 1 \in 1 .. Len(sent) /\ IsSeq(relayed)
      BY <1>2, RelayNext, Zenon
    <2>2. /\ relayed' = Append(relayed, sent[relay + 1])
          /\ UNCHANGED <<sent, applied, log, commit>>
      BY <1>2, Zenon DEF RelayCommit, actorVars
    <2>3. FromSent(Append(relayed, sent[relay + 1]))
      BY <1>1, <2>1, Zenon DEF AgreeInv
    <2> QED  BY <2>2, <2>3, Zenon DEF AgreeInv, FromSent
  <1>3. CASE ApplyEntry
    <2>1. apply + 1 \in 1 .. Len(relayed) /\ IsSeq(applied)
      BY <1>3, ApplyNext, Zenon
    <2>2. /\ applied' = Append(applied, relayed[apply + 1])
          /\ UNCHANGED <<sent, relayed, log, commit>>
      BY <1>3, Zenon DEF ApplyEntry, actorVars
    <2>3. PICK g \in 1 .. Len(sent) : relayed[apply + 1] = sent[g]
      BY <2>1, Zenon DEF AgreeInv, FromSent
    <2>4. FromSent(Append(applied, relayed[apply + 1]))
      BY <1>1, <2>1, <2>3, Zenon DEF AgreeInv
    <2> QED  BY <2>2, <2>4, Zenon DEF AgreeInv, FromSent
  <1> QED  BY <1>2, <1>3

LEMMA AgreeStep ==
  ASSUME Inv, AgreeInv, [ServiceNext]_serviceVars PROVE AgreeInv'
  <1>1. ASSUME UNCHANGED <<log, commit, sent, relayed, applied>> PROVE AgreeInv'
    BY <1>1, Zenon DEF AgreeInv, FromSent
  <1>2. ASSUME NEW c \in Client, Load(c) \/ Send(c) \/ Register(c) \/ Timeout(c)
        PROVE  AgreeInv'
    BY <1>1, <1>2, Zenon DEF Load, Send, Register, Timeout, actorVars, pipeVars
  <1>3. CASE SelfSend \/ TakeAES \/ StepDown \/ StepUp \/ UNCHANGED serviceVars
             \/ \E t \in acks : AckReply(t)
    BY <1>1, <1>3, Zenon
    DEF SelfSend, TakeAES, StepDown, StepUp, AckReply, serviceVars, pipeVars
  <1>4. CASE SubscribeCommits \/ RelayLag \/ ApplyLag
    BY <1>1, <1>4, Zenon DEF SubscribeCommits, RelayLag, ApplyLag, actorVars
  <1> QED  BY <1>2, <1>3, <1>4, AgreeLogStep, AgreeSendStep, AgreeRelayStep, Zenon
           DEF ServiceNext, Actor

LEMMA InitAgree == ASSUME ServiceInit PROVE AgreeInv
  <1>1. Len(<<>>) = 0 /\ 0 <= 0 /\ \A k : k \notin 1 .. 0
    OBVIOUS
  <1> QED  BY <1>1, Zenon DEF ServiceInit, AgreeInv, FromSent

\* However often the leader changes, and however far the relay and the apply
\* loop fall behind, what was applied at an index is what the log has there:
\* only committed entries are sent, and append_entries of another leader
\* replaces no committed one (consensus.rs:806-830).
THEOREM AppliedIsLogged == ServiceSpec => []AppliedAgrees
  <1>1. ServiceInit => AgreeInv
    BY InitAgree
  <1>2. Inv /\ AgreeInv => AppliedAgrees
    <2> SUFFICES ASSUME Inv, AgreeInv, NEW i \in DOMAIN applied
                 PROVE  /\ applied[i].index < Len(log)
                        /\ applied[i].cmd = log[applied[i].index + 1]
      BY Zenon DEF AppliedAgrees
    <2>1. i \in 1 .. Len(applied)
      BY SeqLen, Zenon DEF Inv, ApplyInv
    <2>2. PICK g \in 1 .. Len(sent) : applied[i] = sent[g]
      BY <2>1, Zenon DEF AgreeInv, FromSent
    <2>3. sent[g].index = g - 1 /\ sent[g].cmd = log[g]
      BY Zenon DEF Inv, SentInv, AgreeInv
    <2>4. Len(sent) \in Nat /\ Len(log) \in Nat /\ Len(sent) <= Len(log)
      BY SeqLen DEF Inv, SentInv, LogInv, AgreeInv
    <2>5. g - 1 < Len(log) /\ (g - 1) + 1 = g
      BY <2>4
    <2> QED  BY <2>2, <2>3, <2>5, Zenon
  <1>3. Inv /\ [ServiceNext]_serviceVars => Inv'
    BY StepInv
  <1>4. ServiceInit => Inv
    BY InitInv
  <1> QED  BY <1>1, <1>2, <1>3, <1>4, AgreeStep, PTL DEF ServiceSpec

-----------------------------------------------------------------------------
(***************************************************************************)
(* Whose answer a call gets.  While the leader stays and no two calls are  *)
(* given the same index, each call is given its index after the commands   *)
(* of all earlier calls were appended: the n-th call gets index n - 1, its *)
(* command is the n-th of the log, and at most one command is on its way   *)
(* to the log.                                                             *)
(***************************************************************************)

Cmd == (Client \cup {Other}) \X Nat
CallRecord ==
    [at : {"idle", "loaded", "sent", "waiting"}, n : Nat, index : Nat,
     ans : [res : {"none", "ok", "err"}, cmd : Cmd, own : Cmd]]
Submitted(k) == mailbox[k].kind = "Submit"

CallInv ==
    /\ call \in [Client -> CallRecord] /\ calls \in Nat /\ changes \in Nat
    /\ log_index \in Nat /\ indexes \in Seq(Nat)
    /\ \A i \in DOMAIN subs : subs[i] \in Client \X Nat

MailInv ==
    /\ IsSeq(mailbox) /\ IsSeq(out) /\ log \in Seq(Cmd)
    /\ \A k \in 1 .. Len(mailbox) : Submitted(k) => mailbox[k].cmd \in Client \X Nat
    /\ \A k \in 1 .. Len(out) : out[k].kind # "Submit"

Undisturbed ==
    changes = 0 /\ \A i, j \in DOMAIN indexes : indexes[i] = indexes[j] => i = j

\* The commands that are still of interest to someone.
Underway ==
    {<<c, call[c].n>> : c \in {d \in Client : call[d].at # "idle"}}
      \cup {mailbox[k].cmd : k \in {h \in 1 .. Len(mailbox) : Submitted(h)}}
      \cup {log[k] : k \in 1 .. Len(log)}
      \cup {subs[i] : i \in DOMAIN subs}

CountInv ==
    /\ leader /\ log_index = Len(log)
    /\ Len(indexes) = calls /\ \A k \in 1 .. calls : indexes[k] = k - 1
    /\ Len(log) <= calls /\ calls <= Len(log) + 1
    /\ \A k \in 1 .. Len(log) : log[k][2] = k

UniqueInv ==
    /\ \A a, b \in Underway : a[2] = b[2] => a = b
    /\ \A a \in Underway : a[2] \in 1 .. calls

PendingInv ==
    /\ \A c \in Client : call[c].at = "loaded" =>
          call[c].n = Len(log) + 1 /\ \A k \in 1 .. Len(mailbox) : ~Submitted(k)
    /\ \A k \in 1 .. Len(mailbox) : Submitted(k) => mailbox[k].cmd[2] = Len(log) + 1
    /\ \A k, h \in 1 .. Len(mailbox) : Submitted(k) /\ Submitted(h) => k = h

IndexInv ==
    /\ \A c \in Client : call[c].at \in {"loaded", "sent"} => call[c].index = call[c].n - 1
    /\ \A i \in DOMAIN subs : subs[i][2] = i + 1

OwnAnswer == \A c \in Client : call[c].ans.res = "ok" => call[c].ans.cmd = call[c].ans.own

OwnInv == CountInv /\ UniqueInv /\ PendingInv /\ IndexInv /\ OwnAnswer

LEMMA SeqTail ==
  ASSUME NEW s, IsSeq(s), s # <<>>
  PROVE  /\ IsSeq(Tail(s)) /\ Len(s) \in Nat /\ Len(s) >= 1 /\ Len(Tail(s)) = Len(s) - 1
         /\ \A k \in 1 .. Len(s) - 1 : Tail(s)[k] = s[k + 1]
         /\ Head(s) = s[1]
  <1>1. PICK S : s \in Seq(S)
    BY DEF IsSeq
  <1>2. Len(s) \in Nat /\ Len(s) >= 1
    BY <1>1
  <1>3. Tail(s) \in Seq(S) /\ Len(Tail(s)) = Len(s) - 1
    BY <1>1, <1>2
  <1>4. \A k \in 1 .. Len(s) - 1 : Tail(s)[k] = s[k + 1]
    BY <1>1, <1>2
  <1>5. Head(s) = s[1]
    BY <1>1, <1>2
  <1> QED  BY <1>2, <1>3, <1>4, <1>5 DEF IsSeq

\* What the actor sends to itself is no command.
LEMMA OwnMessages ==
  /\ \A s \in {<<>>, <<SendAES>>, <<SendCommit>>, <<SendCommit, SendAES>>} :
       IsSeq(s) /\ \A k \in 1 .. Len(s) : s[k].kind # "Submit"
  /\ \A t : AppendEntryResult(t).kind # "Submit"
  <1>1. SendAES.kind # "Submit" /\ SendCommit.kind # "Submit"
    BY DEF SendAES, SendCommit
  <1>2. \A t : AppendEntryResult(t).kind # "Submit"
    BY DEF AppendEntryResult
  <1>3. IsSeq(<<>>) /\ \A k \in 1 .. Len(<<>>) : <<>>[k].kind # "Submit"
    <2>1. <<>> \in Seq({})
      OBVIOUS
    <2> QED  BY <2>1 DEF IsSeq
  <1>4. ASSUME NEW a, a.kind # "Submit"
        PROVE  IsSeq(<<a>>) /\ \A k \in 1 .. Len(<<a>>) : <<a>>[k].kind # "Submit"
    <2>1. <<a>> \in Seq({a}) /\ Len(<<a>>) = 1 /\ <<a>>[1] = a
      OBVIOUS
    <2>2. \A k \in 1 .. 1 : k = 1
      OBVIOUS
    <2> QED  BY <1>4, <2>1, <2>2, Zenon DEF IsSeq
  <1>5. ASSUME NEW a, a.kind # "Submit", NEW b, b.kind # "Submit"
        PROVE  IsSeq(<<a, b>>) /\ \A k \in 1 .. Len(<<a, b>>) : <<a, b>>[k].kind # "Submit"
    <2>1. <<a, b>> \in Seq({a, b}) /\ Len(<<a, b>>) = 2 /\ <<a, b>>[1] = a /\ <<a, b>>[2] = b
      OBVIOUS
    <2>2. \A k \in 1 .. 2 : k = 1 \/ k = 2
      OBVIOUS
    <2> QED  BY <1>5, <2>1, <2>2, Zenon DEF IsSeq
  <1> QED  BY <1>1, <1>2, <1>3, <1>4, <1>5, Zenon

\* A mailbox that loses its first message, or gains one that is no command.
LEMMA MailKept ==
  ASSUME IsSeq(mailbox),
         \/ mailbox' = mailbox
         \/ mailbox # <<>> /\ mailbox' = Tail(mailbox)
         \/ \E x : x.kind # "Submit" /\ mailbox' = Append(mailbox, x)
  PROVE  /\ IsSeq(mailbox')
         /\ \E d \in {0, 1} : \A k \in 1 .. Len(mailbox') : Submitted(k)' =>
              k + d \in 1 .. Len(mailbox) /\ mailbox'[k] = mailbox[k + d]
  <1>1. CASE mailbox' = mailbox
    <2>1. Len(mailbox) \in Nat
      BY SeqLen
    <2>2. \A k \in 1 .. Len(mailbox) : k + 0 \in 1 .. Len(mailbox) /\ k + 0 = k
      BY <2>1
    <2> QED  BY <1>1, <2>2, Zenon
  <1>2. CASE mailbox # <<>> /\ mailbox' = Tail(mailbox)
    <2>1. /\ IsSeq(mailbox') /\ Len(mailbox) \in Nat /\ Len(mailbox') = Len(mailbox) - 1
          /\ \A k \in 1 .. Len(mailbox) - 1 : mailbox'[k] = mailbox[k + 1]
      BY <1>2, SeqTail
    <2>2. \A k \in 1 .. Len(mailbox') : k + 1 \in 1 .. Len(mailbox)
      BY <2>1
    <2> QED  BY <2>1, <2>2, Zenon
  <1>3. ASSUME NEW x, x.kind # "Submit", mailbox' = Append(mailbox, x)
        PROVE  /\ IsSeq(mailbox')
               /\ \E d \in {0, 1} : \A k \in 1 .. Len(mailbox') : Submitted(k)' =>
                    k + d \in 1 .. Len(mailbox) /\ mailbox'[k] = mailbox[k + d]
    <2>1. /\ IsSeq(mailbox') /\ Len(mailbox') = Len(mailbox) + 1 /\ Len(mailbox) \in Nat
          /\ \A k \in 1 .. Len(mailbox) : mailbox'[k] = mailbox[k]
          /\ mailbox'[Len(mailbox) + 1] = x
      BY <1>3, SeqAppend, SeqLen
    <2>2. \A k \in 1 .. Len(mailbox') :
            \/ k = Len(mailbox) + 1
            \/ k \in 1 .. Len(mailbox) /\ k + 0 \in 1 .. Len(mailbox) /\ k + 0 = k
      BY <2>1
    <2> QED  BY <1>3, <2>1, <2>2, Zenon DEF Submitted
  <1> QED  BY <1>1, <1>2, <1>3

\* The types of the calls.
LEMMA CallStep ==
  ASSUME Inv, AgreeInv, CallInv, MailInv, [ServiceNext]_serviceVars
  PROVE  CallInv'
  <1>0. /\ call \in [Client -> CallRecord] /\ calls \in Nat /\ changes \in Nat
        /\ log_index \in Nat /\ indexes \in Seq(Nat)
        /\ \A i \in DOMAIN subs : subs[i] \in Client \X Nat
    BY Zenon DEF CallInv
  <1>1. ASSUME NEW c \in Client PROVE call[c] \in CallRecord /\ call[c].n \in Nat
    <2>1. call[c] \in CallRecord
      BY <1>0, Zenon
    <2> QED  BY <2>1 DEF CallRecord
  <1>2. ASSUME NEW c \in Client, NEW res \in {"none", "ok", "err"}, NEW cmd \in Cmd
        PROVE  Answered(c, res, cmd) \in CallRecord
    <2>1. <<c, call[c].n>> \in Cmd
      BY <1>1 DEF Cmd
    <2> QED  BY <2>1 DEF Answered, Idle, CallRecord
  <1>3. NoCmd \in Cmd
    BY DEF NoCmd, Cmd
  <1>4. ASSUME NEW c \in Client, NEW at \in {"idle", "loaded", "sent", "waiting"}
        PROVE  [call[c] EXCEPT !.at = at] \in CallRecord
    BY <1>1 DEF CallRecord
  <1>5. ASSUME NEW c \in Client, Load(c) PROVE CallInv'
    <2> DEFINE r == [at |-> "loaded", n |-> calls + 1, index |-> log_index, ans |-> NoAnswer]
    <2>1. r \in CallRecord
      <3>1. NoAnswer \in [res : {"none", "ok", "err"}, cmd : Cmd, own : Cmd]
        BY <1>3 DEF NoAnswer
      <3> QED  BY <1>0, <3>1 DEF CallRecord
    <2>2. /\ call' = [call EXCEPT ![c] = r] /\ calls' = calls + 1
          /\ indexes' = Append(indexes, log_index)
          /\ UNCHANGED <<changes, log_index, subs>>
      BY <1>5, Zenon DEF Load, actorVars, termVars
    <2> HIDE DEF r
    <2>3. call' \in [Client -> CallRecord]
      BY <1>0, <2>1, <2>2, Zenon
    <2>4. calls' \in Nat /\ indexes' \in Seq(Nat)
      BY <1>0, <2>2
    <2> QED  BY <1>0, <2>2, <2>3, <2>4, Zenon DEF CallInv
  <1>6. ASSUME NEW c \in Client, Send(c) PROVE CallInv'
    <2>1. /\ call' = [call EXCEPT ![c] = [call[c] EXCEPT !.at = "sent"]]
          /\ UNCHANGED <<calls, changes, log_index, indexes, subs>>
      BY <1>6, Zenon DEF Send, termVars
    <2>2. call' \in [Client -> CallRecord]
      BY <1>0, <1>4, <2>1, Zenon
    <2> QED  BY <1>0, <2>1, <2>2, Zenon DEF CallInv
  <1>7. ASSUME NEW c \in Client, Register(c) PROVE CallInv'
    <2> DEFINE i == call[c].index
               old == IF i \in DOMAIN subs THEN subs[i] ELSE NoCmd
               waiting == [call EXCEPT ![c] = [call[c] EXCEPT !.at = "waiting"]]
    <2>1. /\ subs' = [k \in DOMAIN subs \cup {i} |->
                        IF k = i THEN <<c, call[c].n>> ELSE subs[k]]
          /\ call' = IF Waits(old)
                     THEN [waiting EXCEPT ![old[1]] = Answered(old[1], "err", NoCmd)]
                     ELSE waiting
          /\ UNCHANGED <<calls, changes, log_index, indexes>>
      BY <1>7, Zenon DEF Register, actorVars, termVars
    <2>2. waiting \in [Client -> CallRecord]
      BY <1>0, <1>4, Zenon
    <2> HIDE DEF waiting, old
    <2>3. call' \in [Client -> CallRecord]
      BY <1>2, <1>3, <2>1, <2>2, Zenon DEF Waits
    <2>4. <<c, call[c].n>> \in Client \X Nat
      BY <1>1
    <2>5. \A k \in DOMAIN subs' : subs'[k] \in Client \X Nat
      BY <1>0, <2>1, <2>4, Zenon
    <2> QED  BY <1>0, <2>1, <2>3, <2>5, Zenon DEF CallInv
  <1>8. ASSUME NEW c \in Client, Timeout(c) PROVE CallInv'
    <2>1. /\ call' = [call EXCEPT ![c] = Answered(c, "err", NoCmd)]
          /\ UNCHANGED <<calls, changes, log_index, indexes, subs>>
      BY <1>8, Zenon DEF Timeout, actorVars, termVars
    <2>2. call' \in [Client -> CallRecord]
      BY <1>0, <1>2, <1>3, <2>1, Zenon
    <2> QED  BY <1>0, <2>1, <2>2, Zenon DEF CallInv
  <1>9. CASE ApplyEntry
    <2> DEFINE e == relayed[apply + 1]
               w == IF e.index \in DOMAIN subs THEN subs[e.index] ELSE NoCmd
    <2>1. /\ subs' = [k \in DOMAIN subs \ {e.index} |-> subs[k]]
          /\ call' = IF Waits(w) THEN [call EXCEPT ![w[1]] = Answered(w[1], "ok", e.cmd)]
                     ELSE call
          /\ UNCHANGED <<calls, changes, log_index, indexes>>
      BY <1>9, Zenon DEF ApplyEntry, actorVars, termVars
    <2>2. e.cmd \in Cmd
      <3>1. apply + 1 \in 1 .. Len(relayed)
        BY <1>9, ApplyNext, Zenon
      <3>2. PICK g \in 1 .. Len(sent) : e = sent[g]
        BY <3>1, Zenon DEF AgreeInv, FromSent
      <3>3. e.cmd = log[g]
        BY <3>2, Zenon DEF AgreeInv
      <3>4. g \in 1 .. Len(log)
        BY SentInLog, Zenon
      <3>5. log \in Seq(Cmd)
        BY Zenon DEF MailInv
      <3> QED  BY <3>3, <3>4, <3>5
    <2> HIDE DEF e, w
    <2>3. call' \in [Client -> CallRecord]
      BY <1>0, <1>2, <2>1, <2>2, Zenon DEF Waits
    <2>4. \A k \in DOMAIN subs' : subs'[k] \in Client \X Nat
      BY <1>0, <2>1, Zenon
    <2> QED  BY <1>0, <2>1, <2>3, <2>4, Zenon DEF CallInv
  <1>10. ASSUME UNCHANGED <<call, calls, indexes, subs>>, changes' \in Nat, log_index' \in Nat
         PROVE  CallInv'
    BY <1>0, <1>10, Zenon DEF CallInv
  <1>11. CASE \/ SelfSend \/ TakeAES \/ TakeResult \/ TakeSendCommit \/ StepUp
              \/ SubscribeCommits \/ RelayLag \/ RelayCommit \/ ApplyLag
              \/ UNCHANGED serviceVars \/ \E t \in acks : AckReply(t)
    BY <1>0, <1>10, <1>11, Zenon
    DEF SelfSend, TakeAES, TakeResult, TakeSendCommit, StepUp, SubscribeCommits, RelayLag,
        RelayCommit, ApplyLag, AckReply, serviceVars, callVars, actorVars, termVars
  <1>12. CASE TakeSubmit \/ StepDown
    <2>1. /\ log_index' \in {log_index, log_index + 1} /\ changes' \in {changes, changes + 1}
          /\ UNCHANGED <<call, calls, indexes, subs>>
      BY <1>12, Zenon DEF TakeSubmit, StepDown, callVars, termVars
    <2>2. log_index' \in Nat /\ changes' \in Nat
      BY <1>0, <2>1
    <2> QED  BY <1>10, <2>1, <2>2, Zenon
  <1>13. ASSUME NEW k \in 0 .. Len(log), NEW done \in BOOLEAN, ForeignAppend(k, done)
         PROVE  CallInv'
    <2>1. log_index' = k + 1 /\ changes' = changes /\ UNCHANGED <<call, calls, indexes, subs>>
      BY <1>13, Zenon DEF ForeignAppend, callVars, termVars
    <2>2. log_index' \in Nat
      BY <2>1
    <2> QED  BY <1>0, <1>10, <2>1, <2>2, Zenon
  <1> QED  BY <1>5, <1>6, <1>7, <1>8, <1>9, <1>11, <1>12, <1>13, Zenon DEF ServiceNext, Actor

\* The types of the messages.
LEMMA MailStep ==
  ASSUME CallInv, MailInv, [ServiceNext]_serviceVars
  PROVE  MailInv'
  <1>0. /\ IsSeq(mailbox) /\ IsSeq(out) /\ log \in Seq(Cmd)
        /\ \A k \in 1 .. Len(mailbox) : Submitted(k) => mailbox[k].cmd \in Client \X Nat
        /\ \A k \in 1 .. Len(out) : out[k].kind # "Submit"
    BY Zenon DEF MailInv
  <1>1. ASSUME \/ mailbox' = mailbox
               \/ mailbox # <<>> /\ mailbox' = Tail(mailbox)
               \/ \E x : x.kind # "Submit" /\ mailbox' = Append(mailbox, x)
        PROVE  /\ IsSeq(mailbox')
               /\ \A k \in 1 .. Len(mailbox') : Submitted(k)' =>
                    mailbox'[k].cmd \in Client \X Nat
    BY <1>0, <1>1, MailKept, Zenon DEF Submitted
  <1>2. ASSUME out' \in {out, <<>>, <<SendAES>>, <<SendCommit>>, <<SendCommit, SendAES>>}
        PROVE  IsSeq(out') /\ \A k \in 1 .. Len(out') : out'[k].kind # "Submit"
    BY <1>0, <1>2, OwnMessages, Zenon
  <1>3. ASSUME NEW c \in Client, Send(c) PROVE MailInv'
    <2>1. /\ mailbox' = Append(mailbox, Submit(<<c, call[c].n>>)) /\ UNCHANGED <<out, log>>
      BY <1>3, Zenon DEF Send
    <2>2. /\ IsSeq(mailbox') /\ Len(mailbox') = Len(mailbox) + 1 /\ Len(mailbox) \in Nat
          /\ \A k \in 1 .. Len(mailbox) : mailbox'[k] = mailbox[k]
          /\ mailbox'[Len(mailbox) + 1] = Submit(<<c, call[c].n>>)
      BY <1>0, <2>1, SeqAppend, SeqLen
    <2>3. Submit(<<c, call[c].n>>).cmd \in Client \X Nat
      <3>1. call[c] \in CallRecord
        BY Zenon DEF CallInv
      <3>2. <<c, call[c].n>> \in Client \X Nat
        BY <3>1, SMTT(20) DEF CallRecord
      <3> QED  BY <3>2 DEF Submit
    <2>4. \A k \in 1 .. Len(mailbox') : k \in 1 .. Len(mailbox) \/ k = Len(mailbox) + 1
      BY <2>2
    <2>5. \A k \in 1 .. Len(mailbox') : Submitted(k)' => mailbox'[k].cmd \in Client \X Nat
      BY <1>0, <2>2, <2>3, <2>4, Zenon DEF Submitted
    <2> QED  BY <1>0, <2>1, <2>2, <2>5, Zenon DEF MailInv
  <1>4. CASE SelfSend
    <2>1. /\ out # <<>> /\ mailbox' = Append(mailbox, Head(out)) /\ out' = Tail(out)
          /\ log' = log
      BY <1>4, Zenon DEF SelfSend
    <2>2. /\ IsSeq(out') /\ Len(out) \in Nat /\ Len(out) >= 1 /\ Len(out') = Len(out) - 1
          /\ \A k \in 1 .. Len(out) - 1 : out'[k] = out[k + 1]
          /\ Head(out) = out[1]
      BY <1>0, <2>1, SeqTail, Zenon
    <2>3. 1 \in 1 .. Len(out) /\ \A k \in 1 .. Len(out') : k + 1 \in 1 .. Len(out)
      BY <2>2
    <2>4. Head(out).kind # "Submit" /\ \A k \in 1 .. Len(out') : out'[k].kind # "Submit"
      BY <1>0, <2>2, <2>3, Zenon
    <2> QED  BY <1>0, <1>1, <2>1, <2>2, <2>4, Zenon DEF MailInv
  <1>5. CASE TakeSubmit
    <2>1. /\ mailbox # <<>> /\ mailbox' = Tail(mailbox) /\ Head(mailbox).kind = "Submit"
          /\ log' \in {log, Append(log, Head(mailbox).cmd)} /\ out' \in {out, <<SendAES>>}
      BY <1>5, Zenon DEF TakeSubmit, Takes
    <2>2. Head(mailbox) = mailbox[1] /\ 1 \in 1 .. Len(mailbox)
      <3>1. Head(mailbox) = mailbox[1] /\ Len(mailbox) \in Nat /\ Len(mailbox) >= 1
        BY <1>0, <2>1, SeqTail, Zenon
      <3> QED  BY <3>1
    <2>3. Head(mailbox).cmd \in Client \X Nat
      BY <1>0, <2>1, <2>2, Zenon DEF Submitted
    <2>4. Head(mailbox).cmd \in Cmd
      BY <2>3 DEF Cmd
    <2>5. log' \in Seq(Cmd)
      <3>1. \A x \in Cmd : Append(log, x) \in Seq(Cmd)
        BY <1>0
      <3> QED  BY <1>0, <2>1, <2>4, <3>1, Zenon
    <2> QED  BY <1>1, <1>2, <2>1, <2>5, Zenon DEF MailInv
  <1>6. CASE TakeAES \/ TakeResult \/ TakeSendCommit
    <2>1. /\ mailbox # <<>> /\ mailbox' = Tail(mailbox) /\ log' = log
          /\ out' \in {out, <<SendCommit, SendAES>>}
      BY <1>6, Zenon DEF TakeAES, TakeResult, TakeSendCommit, Takes
    <2> QED  BY <1>0, <1>1, <1>2, <2>1, Zenon DEF MailInv
  <1>7. ASSUME NEW t \in acks, AckReply(t) PROVE MailInv'
    <2>1. /\ mailbox' = Append(mailbox, AppendEntryResult(t)) /\ UNCHANGED <<out, log>>
      BY <1>7, Zenon DEF AckReply
    <2> QED  BY <1>0, <1>1, <2>1, OwnMessages, Zenon DEF MailInv
  <1>8. CASE StepDown \/ StepUp
    <2>1. UNCHANGED <<mailbox, log>> /\ out' \in {out, <<SendAES>>}
      BY <1>8, Zenon DEF StepDown, StepUp
    <2> QED  BY <1>0, <1>1, <1>2, <2>1, Zenon DEF MailInv
  <1>9. ASSUME NEW k \in 0 .. Len(log), NEW done \in BOOLEAN, ForeignAppend(k, done)
        PROVE  MailInv'
    <2>1. /\ log' = Append(SubSeq(log, 1, k), <<Other, k + 1>>)
          /\ mailbox' = mailbox /\ out' \in {<<>>, <<SendCommit>>}
      BY <1>9, Zenon DEF ForeignAppend
    <2>2. SubSeq(log, 1, k) \in Seq(Cmd)
      BY <1>0
    <2>3. <<Other, k + 1>> \in Cmd
      BY DEF Cmd
    <2>4. log' \in Seq(Cmd)
      BY <2>1, <2>2, <2>3
    <2> QED  BY <1>1, <1>2, <2>1, <2>4, Zenon DEF MailInv
  <1>10. ASSUME UNCHANGED <<mailbox, out, log>> PROVE MailInv'
    BY <1>0, <1>1, <1>2, <1>10, Zenon DEF MailInv
  <1>11. ASSUME NEW c \in Client, Load(c) \/ Register(c) \/ Timeout(c) PROVE MailInv'
    BY <1>10, <1>11, Zenon DEF Load, Register, Timeout, actorVars
  <1>12. CASE SubscribeCommits \/ RelayLag \/ RelayCommit \/ ApplyLag \/ ApplyEntry
              \/ UNCHANGED serviceVars
    BY <1>10, <1>12, Zenon DEF SubscribeCommits, RelayLag, RelayCommit, ApplyLag,
                               ApplyEntry, actorVars, serviceVars
  <1> QED  BY <1>3, <1>4, <1>5, <1>6, <1>7, <1>8, <1>9, <1>11, <1>12, Zenon
           DEF ServiceNext, Actor

\* A step that only moves calls forward keeps the order of the commands, if
\* what it answers is right.
LEMMA OwnKept ==
  ASSUME CallInv, MailInv, OwnInv,
         UNCHANGED <<leader, log, log_index, calls, indexes>>,
         \/ mailbox' = mailbox
         \/ mailbox # <<>> /\ mailbox' = Tail(mailbox)
         \/ \E x : x.kind # "Submit" /\ mailbox' = Append(mailbox, x),
         \A c \in Client : call'[c].at # "idle" =>
           /\ call[c].at # "idle" /\ call'[c].n = call[c].n
           /\ call'[c].at = "loaded" => call[c].at = "loaded"
           /\ call'[c].at \in {"loaded", "sent"} =>
                call[c].at \in {"loaded", "sent"} /\ call'[c].index = call[c].index,
         \A i \in DOMAIN subs' : subs'[i] \in Underway /\ subs'[i][2] = i + 1,
         OwnAnswer'
  PROVE  OwnInv'
  <1>1. PICK d \in {0, 1} : \A k \in 1 .. Len(mailbox') : Submitted(k)' =>
          k + d \in 1 .. Len(mailbox) /\ mailbox'[k] = mailbox[k + d]
    BY MailKept, Zenon DEF MailInv
  <1>2. \A k \in 1 .. Len(mailbox') : Submitted(k)' =>
          /\ k + d \in 1 .. Len(mailbox) /\ mailbox'[k] = mailbox[k + d]
          /\ Submitted(k + d)
    BY <1>1, Zenon DEF Submitted
  <1>n. "loaded" # "idle" /\ "sent" # "idle"
    OBVIOUS
  <1>3. CountInv'
    BY Zenon DEF OwnInv, CountInv
  <1>4. Underway' \subseteq Underway
    <2>1. ASSUME NEW c \in Client, call'[c].at # "idle"
          PROVE  <<c, call'[c].n>> \in Underway
      <3>1. call[c].at # "idle" /\ call'[c].n = call[c].n
        BY <2>1, Zenon
      <3>2. <<c, call[c].n>> \in Underway
        BY <3>1, Zenon DEF Underway
      <3> QED  BY <3>1, <3>2
    <2>2. ASSUME NEW k \in 1 .. Len(mailbox'), Submitted(k)'
          PROVE  mailbox'[k].cmd \in Underway
      BY <1>2, <2>2, Zenon DEF Underway
    <2>3. ASSUME NEW k \in 1 .. Len(log') PROVE log'[k] \in Underway
      BY <2>3, Zenon DEF Underway
    <2>4. ASSUME NEW a \in Underway'
          PROVE  \/ \E c \in Client : call'[c].at # "idle" /\ a = <<c, call'[c].n>>
                 \/ \E k \in 1 .. Len(mailbox') : Submitted(k)' /\ a = mailbox'[k].cmd
                 \/ \E k \in 1 .. Len(log') : a = log'[k]
                 \/ \E i \in DOMAIN subs' : a = subs'[i]
      BY Zenon DEF Underway
    <2> QED  BY <2>1, <2>2, <2>3, <2>4, Zenon
  <1>5. UniqueInv'
    BY <1>4, Zenon DEF OwnInv, UniqueInv
  <1>6. PendingInv'
    <2>1. ASSUME NEW c \in Client, call'[c].at = "loaded"
          PROVE  /\ call'[c].n = Len(log') + 1
                 /\ \A k \in 1 .. Len(mailbox') : ~Submitted(k)'
      BY <1>2, <1>n, <2>1, Zenon DEF OwnInv, PendingInv
    <2>2. ASSUME NEW k \in 1 .. Len(mailbox'), Submitted(k)'
          PROVE  mailbox'[k].cmd[2] = Len(log') + 1
      <3>1. mailbox'[k] = mailbox[k + d] /\ mailbox[k + d].cmd[2] = Len(log) + 1
        BY <1>2, <2>2, Zenon DEF OwnInv, PendingInv
      <3> QED  BY <3>1, Zenon
    <2>3. ASSUME NEW k \in 1 .. Len(mailbox'), NEW h \in 1 .. Len(mailbox'),
                 Submitted(k)', Submitted(h)'
          PROVE  k = h
      <3>1. k + d = h + d
        BY <1>2, <2>3, Zenon DEF OwnInv, PendingInv
      <3> QED  BY <3>1
    <2> QED  BY <2>1, <2>2, <2>3, Zenon DEF PendingInv
  <1>7. IndexInv'
    BY <1>n, Zenon DEF OwnInv, IndexInv
  <1> QED  BY <1>3, <1>5, <1>6, <1>7, Zenon DEF OwnInv

\* The actor's other messages, the channels, and the replies.
LEMMA OwnQuietStep ==
  ASSUME CallInv, MailInv, OwnInv, UNCHANGED <<call, subs>>,
         UNCHANGED <<leader, log, log_index, calls, indexes>>,
         \/ mailbox' = mailbox
         \/ mailbox # <<>> /\ mailbox' = Tail(mailbox)
         \/ \E x : x.kind # "Submit" /\ mailbox' = Append(mailbox, x)
  PROVE  OwnInv'
  <1>1. \A i \in DOMAIN subs' : subs'[i] \in Underway /\ subs'[i][2] = i + 1
    BY Zenon DEF OwnInv, IndexInv, Underway
  <1>2. OwnAnswer'
    BY Zenon DEF OwnInv, OwnAnswer
  <1> QED  BY <1>1, <1>2, OwnKept, Zenon

\* What changes for one call, what stays for the others.
LEMMA PairFields == ASSUME NEW a, NEW b PROVE <<a, b>>[1] = a /\ <<a, b>>[2] = b
  OBVIOUS

LEMMA ZeroBefore == \A m : 0 \notin 1 .. m
  OBVIOUS

LEMMA CallFields ==
  ASSUME CallInv, NEW c \in Client, NEW res, NEW cmd,
         NEW at \in {"idle", "loaded", "sent", "waiting"}
  PROVE  /\ Answered(c, res, cmd).at = "idle"
         /\ Answered(c, res, cmd).ans =
              [res |-> res, cmd |-> cmd, own |-> <<c, call[c].n>>]
         /\ [call[c] EXCEPT !.at = at].at = at
         /\ [call[c] EXCEPT !.at = at].n = call[c].n
         /\ [call[c] EXCEPT !.at = at].index = call[c].index
         /\ [call[c] EXCEPT !.at = at].ans = call[c].ans
  <1>1. call[c] \in CallRecord
    BY Zenon DEF CallInv
  <1>2. Answered(c, res, cmd).at = "idle"
    BY DEF Answered, Idle
  <1>3. Answered(c, res, cmd).ans = [res |-> res, cmd |-> cmd, own |-> <<c, call[c].n>>]
    BY DEF Answered, Idle
  <1> QED  BY <1>1, <1>2, <1>3 DEF CallRecord

LEMMA OwnTimeoutStep ==
  ASSUME CallInv, MailInv, OwnInv, NEW c \in Client, Timeout(c)
  PROVE  OwnInv'
  <1>1. /\ call' = [call EXCEPT ![c] = Answered(c, "err", NoCmd)]
        /\ UNCHANGED <<leader, log, log_index, calls, indexes, mailbox, subs>>
    BY Zenon DEF Timeout, actorVars, termVars
  <1>2. call \in [Client -> CallRecord]
    BY Zenon DEF CallInv
  <1>3. /\ call'[c].at = "idle" /\ call'[c].ans.res # "ok"
        /\ \A b \in Client \ {c} : call'[b] = call[b]
    <2>1. /\ call'[c] = Answered(c, "err", NoCmd)
          /\ \A b \in Client \ {c} : call'[b] = call[b]
      BY <1>1, <1>2, Zenon
    <2>2. /\ call'[c].at = "idle"
          /\ call'[c].ans = [res |-> "err", cmd |-> NoCmd, own |-> <<c, call[c].n>>]
      BY <2>1, CallFields
    <2>3. /\ "err" # "ok"
          /\ [res |-> "err", cmd |-> NoCmd, own |-> <<c, call[c].n>>].res = "err"
      OBVIOUS
    <2> QED  BY <2>1, <2>2, <2>3, Zenon
  <1>4. \A i \in DOMAIN subs' : subs'[i] \in Underway /\ subs'[i][2] = i + 1
    BY <1>1, Zenon DEF OwnInv, IndexInv, Underway
  <1>5. OwnAnswer'
    BY <1>3, Zenon DEF OwnInv, OwnAnswer
  <1>6. \A b \in Client : call'[b].at # "idle" => call'[b] = call[b]
    BY <1>3, Zenon
  <1> QED  BY <1>1, <1>4, <1>5, <1>6, OwnKept, Zenon

\* A waiter takes the place of the one that had the same index.
LEMMA OwnRegisterStep ==
  ASSUME CallInv, MailInv, OwnInv, NEW c \in Client, Register(c)
  PROVE  OwnInv'
  <1> DEFINE i == call[c].index
             old == IF i \in DOMAIN subs THEN subs[i] ELSE NoCmd
             waiting == [call EXCEPT ![c] = [call[c] EXCEPT !.at = "waiting"]]
  <1>1. /\ call[c].at = "sent"
        /\ subs' = [k \in DOMAIN subs \cup {i} |->
                      IF k = i THEN <<c, call[c].n>> ELSE subs[k]]
        /\ call' = IF Waits(old)
                   THEN [waiting EXCEPT ![old[1]] = Answered(old[1], "err", NoCmd)]
                   ELSE waiting
        /\ UNCHANGED <<leader, log, log_index, calls, indexes, mailbox>>
    BY Zenon DEF Register, actorVars, termVars
  <1>2. call \in [Client -> CallRecord] /\ call[c].n \in Nat /\ call[c].index \in Nat
    <2>1. call \in [Client -> CallRecord]
      BY Zenon DEF CallInv
    <2>2. call[c] \in CallRecord
      BY <2>1, Zenon
    <2> QED  BY <2>1, <2>2 DEF CallRecord
  <1>n. /\ "sent" # "idle" /\ "waiting" # "idle" /\ "waiting" # "loaded" /\ "waiting" # "sent"
        /\ "err" # "ok" /\ "waiting" \in {"idle", "loaded", "sent", "waiting"}
    OBVIOUS
  <1>3. \A b \in Client \ {c} : waiting[b] = call[b]
    BY <1>2, Zenon
  <1>4. /\ waiting[c].at = "waiting" /\ waiting[c].n = call[c].n
        /\ waiting[c].ans = call[c].ans
    <2>1. waiting[c] = [call[c] EXCEPT !.at = "waiting"]
      BY <1>2, Zenon
    <2> QED  BY <1>n, <2>1, CallFields, Zenon
  <1>5. DOMAIN waiting = Client
    BY <1>2, Zenon
  <1> HIDE DEF waiting, old
  <1>6. ASSUME NEW b \in Client
        PROVE  call'[b] = waiting[b] \/ call'[b] = Answered(b, "err", NoCmd)
    BY <1>1, <1>5, Zenon DEF Waits
  <1>7. ASSUME NEW b \in Client
        PROVE  Answered(b, "err", NoCmd).at = "idle" /\ Answered(b, "err", NoCmd).ans.res = "err"
    BY DEF Answered, Idle
  <1>8. ASSUME NEW b \in Client, call'[b].at # "idle"
        PROVE  /\ call[b].at # "idle" /\ call'[b].n = call[b].n
               /\ call'[b].at = "loaded" => call[b].at = "loaded"
               /\ call'[b].at \in {"loaded", "sent"} =>
                    call[b].at \in {"loaded", "sent"} /\ call'[b].index = call[b].index
    <2>1. call'[b] = waiting[b]
      BY <1>6, <1>7, <1>8, Zenon
    <2>2. CASE b = c
      BY <1>1, <1>4, <1>n, <2>1, <2>2, Zenon
    <2>3. CASE b # c
      BY <1>3, <1>8, <2>1, <2>3, Zenon
    <2> QED  BY <2>2, <2>3, Zenon
  <1>9. ASSUME NEW k \in DOMAIN subs'
        PROVE  subs'[k] \in Underway /\ subs'[k][2] = k + 1
    <2>1. CASE k = i
      <3>1. subs'[k] = <<c, call[c].n>>
        BY <1>1, <2>1, Zenon
      <3>2. <<c, call[c].n>> \in Underway
        BY <1>1, <1>n, Zenon DEF Underway
      <3>3. call[c].index = call[c].n - 1
        BY <1>1, Zenon DEF OwnInv, IndexInv
      <3>4. call[c].n = call[c].index + 1
        BY <1>2, <3>3
      <3>5. <<c, call[c].n>>[2] = call[c].n
        OBVIOUS
      <3>6. call[c].index = k
        BY <2>1, Zenon
      <3> QED  BY <3>1, <3>2, <3>4, <3>5, <3>6, Zenon
    <2>2. CASE k # i
      <3>1. k \in DOMAIN subs /\ subs'[k] = subs[k]
        BY <1>1, <2>2, Zenon
      <3> QED  BY <3>1, Zenon DEF OwnInv, IndexInv, Underway
    <2> QED  BY <2>1, <2>2, Zenon
  <1>10. ASSUME NEW b \in Client, call'[b].ans.res = "ok"
         PROVE  call'[b].ans.cmd = call'[b].ans.own
    <2>1. call'[b] = waiting[b]
      BY <1>6, <1>7, <1>10, <1>n, Zenon
    <2>2. waiting[b].ans = call[b].ans
      BY <1>3, <1>4, Zenon
    <2> QED  BY <1>10, <2>1, <2>2, Zenon DEF OwnInv, OwnAnswer
  <1>11. OwnAnswer'
    BY <1>10, Zenon DEF OwnAnswer
  <1> QED  BY <1>1, <1>8, <1>9, <1>11, OwnKept, Zenon

\* The apply loop answers the call whose command it applied.
LEMMA OwnApplyStep ==
  ASSUME Inv, AgreeInv, CallInv, MailInv, OwnInv, ApplyEntry
  PROVE  OwnInv'
  <1> DEFINE e == relayed[apply + 1]
             w == IF e.index \in DOMAIN subs THEN subs[e.index] ELSE NoCmd
  <1>1. /\ subs' = [k \in DOMAIN subs \ {e.index} |-> subs[k]]
        /\ call' = IF Waits(w) THEN [call EXCEPT ![w[1]] = Answered(w[1], "ok", e.cmd)]
                   ELSE call
        /\ UNCHANGED <<leader, log, log_index, calls, indexes, mailbox>>
    BY Zenon DEF ApplyEntry, actorVars, termVars
  <1>2. call \in [Client -> CallRecord] /\ calls \in Nat
    BY Zenon DEF CallInv
  <1>3. PICK g \in 1 .. Len(log) : e.index = g - 1 /\ e.cmd = log[g]
    <2>1. apply + 1 \in 1 .. Len(relayed)
      BY ApplyNext, Zenon
    <2>2. PICK g \in 1 .. Len(sent) : e = sent[g]
      BY <2>1, Zenon DEF AgreeInv, FromSent
    <2>3. sent[g].cmd = log[g] /\ sent[g].index = g - 1
      BY Zenon DEF AgreeInv, Inv, SentInv
    <2>4. g \in 1 .. Len(log)
      BY SentInLog, Zenon
    <2> QED  BY <2>2, <2>3, <2>4, Zenon
  <1> HIDE DEF e
  <1>n. "waiting" # "idle"
    OBVIOUS
  <1>4. ASSUME Waits(w)
        PROVE  e.cmd = <<w[1], call[w[1]].n>>
    <2>1. /\ w[1] \in Client /\ call[w[1]].at = "waiting" /\ call[w[1]].n = w[2]
      BY <1>4, Zenon DEF Waits
    <2>2. <<w[1], call[w[1]].n>> \in Underway
      BY <1>n, <2>1, Zenon DEF Underway
    <2>3. call[w[1]].n \in 1 .. calls
      <3>1. <<w[1], call[w[1]].n>>[2] \in 1 .. calls
        BY <2>2, Zenon DEF OwnInv, UniqueInv
      <3> QED  BY <3>1, PairFields, Zenon
    <2>4. w # NoCmd
      <3>1. NoCmd[2] = 0
        BY PairFields, Zenon DEF NoCmd
      <3> HIDE DEF w
      <3> QED  BY <2>1, <2>3, <3>1, ZeroBefore, Zenon
    <2>5. e.index \in DOMAIN subs /\ w = subs[e.index]
      BY <2>4, Zenon
    <2> HIDE DEF w
    <2>6. w[2] = e.index + 1
      BY <2>5, Zenon DEF OwnInv, IndexInv
    <2>7. w[2] = g
      BY <1>3, <2>6
    <2>8. log[g] \in Underway /\ log[g][2] = g
      BY Zenon DEF Underway, OwnInv, CountInv
    <2>9. <<w[1], call[w[1]].n>>[2] = g
      BY <2>1, <2>7
    <2>10. log[g] = <<w[1], call[w[1]].n>>
      BY <2>2, <2>8, <2>9, Zenon DEF OwnInv, UniqueInv
    <2> QED  BY <1>3, <2>10, Zenon
  <1> HIDE DEF w
  <1>5. ASSUME NEW b \in Client
        PROVE  \/ call'[b] = call[b]
               \/ /\ call'[b] = Answered(b, "ok", e.cmd)
                  /\ e.cmd = <<b, call[b].n>>
    BY <1>1, <1>2, <1>4, Zenon DEF Waits
  <1>6. ASSUME NEW b \in Client, e.cmd = <<b, call[b].n>>
        PROVE  /\ Answered(b, "ok", e.cmd).at = "idle"
               /\ Answered(b, "ok", e.cmd).ans.cmd = Answered(b, "ok", e.cmd).ans.own
    BY <1>6, Zenon DEF Answered, Idle
  <1>7. \A b \in Client : call'[b].at # "idle" => call'[b] = call[b]
    BY <1>5, <1>6, Zenon
  <1>8. OwnAnswer'
    BY <1>5, <1>6, Zenon DEF OwnInv, OwnAnswer
  <1>9. \A k \in DOMAIN subs' : subs'[k] \in Underway /\ subs'[k][2] = k + 1
    BY <1>1, Zenon DEF OwnInv, IndexInv, Underway
  <1> QED  BY <1>1, <1>7, <1>8, <1>9, OwnKept, Zenon

LEMMA OwnSendStep ==
  ASSUME CallInv, MailInv, OwnInv, NEW c \in Client, Send(c)
  PROVE  OwnInv'
  <1> DEFINE cmd == <<c, call[c].n>>
  <1>1. /\ call[c].at = "loaded"
        /\ mailbox' = Append(mailbox, Submit(cmd))
        /\ call' = [call EXCEPT ![c] = [call[c] EXCEPT !.at = "sent"]]
        /\ UNCHANGED <<leader, log, log_index, calls, indexes, subs>>
    BY Zenon DEF Send, termVars
  <1>n. /\ "loaded" # "idle" /\ "sent" # "loaded" /\ "sent" # "idle"
        /\ "sent" \in {"idle", "loaded", "sent", "waiting"}
    OBVIOUS
  <1>2. /\ call'[c] = [call[c] EXCEPT !.at = "sent"]
        /\ \A b \in Client \ {c} : call'[b] = call[b]
    <2>1. call \in [Client -> CallRecord]
      BY Zenon DEF CallInv
    <2> QED  BY <1>1, <2>1, Zenon
  <1>3. /\ call'[c].at = "sent" /\ call'[c].n = call[c].n
        /\ call'[c].index = call[c].index /\ call'[c].ans = call[c].ans
    BY <1>2, <1>n, CallFields
  <1>4. Submit(cmd).cmd = cmd /\ cmd[2] = call[c].n
    BY DEF Submit
  <1>5. cmd \in Underway
    BY <1>1, <1>n, Zenon DEF Underway
  <1> HIDE DEF cmd
  <1>6. /\ call[c].n = Len(log) + 1 /\ \A k \in 1 .. Len(mailbox) : ~Submitted(k)
    BY <1>1, Zenon DEF OwnInv, PendingInv
  <1>7. /\ Len(mailbox) \in Nat /\ Len(mailbox') = Len(mailbox) + 1
        /\ \A k \in 1 .. Len(mailbox) : mailbox'[k] = mailbox[k]
        /\ mailbox'[Len(mailbox) + 1] = Submit(cmd)
    <2>1. IsSeq(mailbox)
      BY Zenon DEF MailInv
    <2> QED  BY <1>1, <2>1, SeqAppend, SeqLen
  <1>8. ASSUME NEW k \in 1 .. Len(mailbox'), Submitted(k)'
        PROVE  k = Len(mailbox) + 1 /\ mailbox'[k].cmd = cmd
    <2>1. k \in 1 .. Len(mailbox) \/ k = Len(mailbox) + 1
      BY <1>7
    <2> QED  BY <1>4, <1>6, <1>7, <1>8, <2>1, Zenon DEF Submitted
  <1>9. Underway' \subseteq Underway
    <2>1. ASSUME NEW b \in Client, call'[b].at # "idle"
          PROVE  <<b, call'[b].n>> \in Underway
      <3>1. call[b].at # "idle" /\ call'[b].n = call[b].n
        BY <1>1, <1>2, <1>3, <1>n, <2>1, Zenon
      <3>2. <<b, call[b].n>> \in Underway
        BY <3>1, Zenon DEF Underway
      <3> QED  BY <3>1, <3>2
    <2>2. ASSUME NEW a \in Underway'
          PROVE  \/ \E b \in Client : call'[b].at # "idle" /\ a = <<b, call'[b].n>>
                 \/ \E k \in 1 .. Len(mailbox') : Submitted(k)' /\ a = mailbox'[k].cmd
                 \/ \E k \in 1 .. Len(log) : a = log[k]
                 \/ \E i \in DOMAIN subs : a = subs[i]
      BY <1>1, Zenon DEF Underway
    <2>3. /\ \A k \in 1 .. Len(log) : log[k] \in Underway
          /\ \A i \in DOMAIN subs : subs[i] \in Underway
      BY Zenon DEF Underway
    <2> QED  BY <1>5, <1>8, <2>1, <2>2, <2>3, Zenon
  <1>10. ASSUME NEW b \in Client, call'[b].at = "loaded" PROVE FALSE
    <2>1. b # c /\ call[b].at = "loaded"
      BY <1>2, <1>3, <1>10, <1>n, Zenon
    <2>2. call[b].n = Len(log) + 1
      BY <2>1, Zenon DEF OwnInv, PendingInv
    <2>3. <<b, call[b].n>> \in Underway /\ <<c, call[c].n>> \in Underway
      BY <1>5, <1>n, <2>1, Zenon DEF Underway, cmd
    <2>4. <<b, call[b].n>>[2] = <<c, call[c].n>>[2]
      BY <1>6, <2>2
    <2>5. <<b, call[b].n>> = <<c, call[c].n>>
      BY <2>3, <2>4, Zenon DEF OwnInv, UniqueInv
    <2> QED  BY <2>1, <2>5
  <1>11. CountInv'
    BY <1>1, Zenon DEF OwnInv, CountInv
  <1>12. UniqueInv'
    BY <1>1, <1>9, Zenon DEF OwnInv, UniqueInv
  <1>13. PendingInv'
    <2>1. \A k \in 1 .. Len(mailbox') : Submitted(k)' => mailbox'[k].cmd[2] = Len(log') + 1
      BY <1>1, <1>4, <1>6, <1>8, Zenon
    <2>2. \A k, h \in 1 .. Len(mailbox') : Submitted(k)' /\ Submitted(h)' => k = h
      BY <1>8, Zenon
    <2> QED  BY <1>10, <2>1, <2>2, Zenon DEF PendingInv
  <1>14. IndexInv'
    <2>1. ASSUME NEW b \in Client, call'[b].at \in {"loaded", "sent"}
          PROVE  call'[b].index = call'[b].n - 1
      <3>1. /\ call[b].at \in {"loaded", "sent"}
            /\ call'[b].index = call[b].index /\ call'[b].n = call[b].n
        <4>1. CASE b = c
          BY <1>1, <1>3, <4>1, Zenon
        <4>2. CASE b # c
          BY <1>2, <2>1, <4>2, Zenon
        <4> QED  BY <4>1, <4>2, Zenon
      <3>2. call[b].index = call[b].n - 1
        BY <3>1, Zenon DEF OwnInv, IndexInv
      <3> QED  BY <3>1, <3>2, Zenon
    <2> QED  BY <1>1, <2>1, Zenon DEF OwnInv, IndexInv
  <1>15. OwnAnswer'
    <2>1. \A b \in Client : call'[b].ans = call[b].ans
      BY <1>2, <1>3, Zenon
    <2> QED  BY <2>1, Zenon DEF OwnInv, OwnAnswer
  <1> QED  BY <1>11, <1>12, <1>13, <1>14, <1>15, Zenon DEF OwnInv

\* The command on its way is the next one of the log.
LEMMA OwnSubmitStep ==
  ASSUME CallInv, MailInv, OwnInv, TakeSubmit
  PROVE  OwnInv'
  <1> DEFINE cmd == Head(mailbox).cmd
  <1>1. /\ mailbox # <<>> /\ Head(mailbox).kind = "Submit" /\ mailbox' = Tail(mailbox)
        /\ log' = Append(log, cmd) /\ log_index' = log_index + 1
        /\ UNCHANGED <<call, leader, calls, indexes, subs>>
    BY Zenon DEF TakeSubmit, Takes, OwnInv, CountInv, callVars, termVars
  <1>2. /\ Len(mailbox) \in Nat /\ Len(mailbox) >= 1 /\ Len(mailbox') = Len(mailbox) - 1
        /\ \A k \in 1 .. Len(mailbox) - 1 : mailbox'[k] = mailbox[k + 1]
        /\ Head(mailbox) = mailbox[1]
    BY <1>1, SeqTail DEF MailInv
  <1>3. 1 \in 1 .. Len(mailbox) /\ Submitted(1)
    BY <1>1, <1>2 DEF Submitted
  <1>4. cmd = mailbox[1].cmd
    BY <1>2, Zenon
  <1> HIDE DEF cmd
  <1>5. cmd \in Underway /\ cmd[2] = Len(log) + 1
    BY <1>3, <1>4, Zenon DEF Underway, OwnInv, PendingInv
  <1>6. /\ Len(log) \in Nat /\ Len(log') = Len(log) + 1
        /\ \A k \in 1 .. Len(log) : log'[k] = log[k]
        /\ log'[Len(log) + 1] = cmd
    <2>1. IsSeq(log)
      BY DEF MailInv, IsSeq
    <2> QED  BY <1>1, <2>1, SeqAppend, SeqLen
  <1>7. ASSUME NEW k \in 1 .. Len(mailbox'), Submitted(k)' PROVE FALSE
    <2>1. k + 1 \in 1 .. Len(mailbox) /\ mailbox'[k] = mailbox[k + 1] /\ k + 1 # 1
      BY <1>2
    <2>2. Submitted(k + 1)
      BY <1>7, <2>1, Zenon DEF Submitted
    <2> QED  BY <1>3, <2>1, <2>2, Zenon DEF OwnInv, PendingInv
  <1>8. \A b \in Client : call[b].at # "loaded"
    BY <1>3, Zenon DEF OwnInv, PendingInv
  <1>9. \A k \in 1 .. Len(log') : k \in 1 .. Len(log) \/ k = Len(log) + 1
    BY <1>6
  <1>10. Underway' \subseteq Underway
    <2>1. ASSUME NEW a \in Underway'
          PROVE  \/ \E b \in Client : call[b].at # "idle" /\ a = <<b, call[b].n>>
                 \/ \E k \in 1 .. Len(mailbox') : Submitted(k)' /\ a = mailbox'[k].cmd
                 \/ \E k \in 1 .. Len(log') : a = log'[k]
                 \/ \E i \in DOMAIN subs : a = subs[i]
      BY <1>1, Zenon DEF Underway
    <2>2. /\ \A b \in Client : call[b].at # "idle" => <<b, call[b].n>> \in Underway
          /\ \A k \in 1 .. Len(log) : log[k] \in Underway
          /\ \A i \in DOMAIN subs : subs[i] \in Underway
      BY Zenon DEF Underway
    <2>3. \A k \in 1 .. Len(log') : log'[k] \in Underway
      BY <1>5, <1>6, <1>9, <2>2, Zenon
    <2> QED  BY <1>7, <2>1, <2>2, <2>3, Zenon
  <1>11. CountInv'
    <2>1. cmd[2] \in 1 .. calls
      BY <1>5, Zenon DEF OwnInv, UniqueInv
    <2>2. /\ log_index = Len(log) /\ Len(log) <= calls /\ calls <= Len(log) + 1
          /\ \A k \in 1 .. Len(log) : log[k][2] = k
      BY Zenon DEF OwnInv, CountInv
    <2>3. calls \in Nat
      BY Zenon DEF CallInv
    <2>4. log_index' = Len(log') /\ Len(log') <= calls /\ calls <= Len(log') + 1
      BY <1>1, <1>5, <1>6, <2>1, <2>2, <2>3
    <2>5. \A k \in 1 .. Len(log') : log'[k][2] = k
      BY <1>5, <1>6, <1>9, <2>2, Zenon
    <2> QED  BY <1>1, <2>4, <2>5, Zenon DEF OwnInv, CountInv
  <1>12. UniqueInv'
    BY <1>1, <1>10, Zenon DEF OwnInv, UniqueInv
  <1>13. PendingInv'
    BY <1>1, <1>7, <1>8, Zenon DEF PendingInv
  <1>14. IndexInv' /\ OwnAnswer'
    BY <1>1, Zenon DEF OwnInv, IndexInv, OwnAnswer
  <1> QED  BY <1>11, <1>12, <1>13, <1>14, Zenon DEF OwnInv

\* A call whose index is its own finds all earlier commands in the log.
LEMMA OwnLoadStep ==
  ASSUME CallInv, MailInv, OwnInv, Undisturbed', NEW c \in Client, Load(c)
  PROVE  OwnInv'
  <1> DEFINE r == [at |-> "loaded", n |-> calls + 1, index |-> log_index, ans |-> NoAnswer]
             cmd == <<c, calls + 1>>
  <1>1. /\ call' = [call EXCEPT ![c] = r] /\ calls' = calls + 1
        /\ indexes' = Append(indexes, log_index)
        /\ UNCHANGED <<leader, log, log_index, mailbox, subs>>
    BY Zenon DEF Load, actorVars, termVars
  <1>2. /\ calls \in Nat /\ log_index \in Nat /\ indexes \in Seq(Nat)
        /\ call \in [Client -> CallRecord]
    BY Zenon DEF CallInv
  <1>3. /\ leader /\ log_index = Len(log)
        /\ Len(indexes) = calls /\ \A k \in 1 .. calls : indexes[k] = k - 1
        /\ Len(log) <= calls /\ calls <= Len(log) + 1
        /\ \A k \in 1 .. Len(log) : log[k][2] = k
    BY Zenon DEF OwnInv, CountInv
  <1>4. /\ call'[c] = r /\ \A b \in Client \ {c} : call'[b] = call[b]
    BY <1>1, <1>2, Zenon
  <1>5. /\ r.at = "loaded" /\ r.n = calls + 1 /\ r.index = log_index /\ r.ans.res = "none"
        /\ "none" # "ok" /\ cmd[2] = calls + 1
    BY DEF NoAnswer
  <1> HIDE DEF r, cmd
  <1>6. /\ Len(indexes') = calls + 1 /\ DOMAIN indexes' = 1 .. calls + 1
        /\ \A k \in 1 .. calls : indexes'[k] = indexes[k]
        /\ indexes'[calls + 1] = log_index
    <2>1. IsSeq(indexes)
      BY <1>2 DEF IsSeq
    <2>2. /\ IsSeq(indexes') /\ Len(indexes') = calls + 1
          /\ \A k \in 1 .. calls : indexes'[k] = indexes[k]
          /\ indexes'[calls + 1] = log_index
      <3>1. /\ IsSeq(Append(indexes, log_index))
            /\ Len(Append(indexes, log_index)) = Len(indexes) + 1
            /\ \A k \in 1 .. Len(indexes) : Append(indexes, log_index)[k] = indexes[k]
            /\ Append(indexes, log_index)[Len(indexes) + 1] = log_index
        BY <2>1, SeqAppend, Zenon
      <3> QED  BY <1>1, <1>3, <3>1, Zenon
    <2> QED  BY <2>2, SeqLen, Zenon
  <1>7. Len(log) = calls
    <2> SUFFICES ASSUME Len(log) # calls PROVE FALSE
      OBVIOUS
    <2>1. calls \in 1 .. calls /\ log_index = calls - 1
      BY <1>2, <1>3
    <2>2. indexes'[calls] = indexes'[calls + 1]
      BY <1>3, <1>6, <2>1, Zenon
    <2>3. calls \in DOMAIN indexes' /\ calls + 1 \in DOMAIN indexes' /\ calls # calls + 1
      BY <1>2, <1>6, <2>1
    <2> QED  BY <2>2, <2>3, Zenon DEF Undisturbed
  <1>8. \A b \in Client : call[b].at # "loaded"
    <2> SUFFICES ASSUME NEW b \in Client, call[b].at = "loaded" PROVE FALSE
      OBVIOUS
    <2>1. <<b, call[b].n>> \in Underway
      <3>1. "loaded" # "idle"
        OBVIOUS
      <3> QED  BY <3>1, Zenon DEF Underway
    <2>2. <<b, call[b].n>>[2] \in 1 .. calls
      BY <2>1, Zenon DEF OwnInv, UniqueInv
    <2>3. call[b].n = Len(log) + 1
      BY Zenon DEF OwnInv, PendingInv
    <2> QED  BY <1>2, <1>7, <2>2, <2>3
  <1>9. \A k \in 1 .. Len(mailbox) : ~Submitted(k)
    <2> SUFFICES ASSUME NEW k \in 1 .. Len(mailbox), Submitted(k) PROVE FALSE
      OBVIOUS
    <2>1. mailbox[k].cmd \in Underway
      BY Zenon DEF Underway
    <2>2. mailbox[k].cmd[2] \in 1 .. calls /\ mailbox[k].cmd[2] = Len(log) + 1
      BY <2>1, Zenon DEF OwnInv, UniqueInv, PendingInv
    <2> QED  BY <1>2, <1>7, <2>2
  <1>10. Underway' \subseteq Underway \cup {cmd}
    <2>1. ASSUME NEW a \in Underway'
          PROVE  \/ \E b \in Client : call'[b].at # "idle" /\ a = <<b, call'[b].n>>
                 \/ a \in Underway
      BY <1>1, Zenon DEF Underway, Submitted
    <2>2. ASSUME NEW b \in Client, call'[b].at # "idle"
          PROVE  <<b, call'[b].n>> \in Underway \cup {cmd}
      <3>1. CASE b = c
        BY <1>4, <1>5, <3>1 DEF cmd
      <3>2. CASE b # c
        <4>1. call'[b] = call[b]
          BY <1>4, <3>2, Zenon
        <4> QED  BY <2>2, <4>1, Zenon DEF Underway
      <3> QED  BY <3>1, <3>2
    <2> QED  BY <2>1, <2>2, Zenon
  <1>11. CountInv'
    <2>1. \A k \in 1 .. calls + 1 : indexes'[k] = k - 1
      <3> SUFFICES ASSUME NEW k \in 1 .. calls + 1 PROVE indexes'[k] = k - 1
        OBVIOUS
      <3>1. k \in 1 .. calls \/ k = calls + 1
        BY <1>2
      <3> QED  BY <1>2, <1>3, <1>6, <1>7, <3>1
    <2>2. Len(log) <= calls + 1 /\ calls + 1 <= Len(log) + 1
      BY <1>2, <1>7
    <2> QED  BY <1>1, <1>3, <1>6, <2>1, <2>2, Zenon DEF CountInv
  <1>12. UniqueInv'
    <2>1. \A a \in Underway : a[2] \in 1 .. calls
      BY Zenon DEF OwnInv, UniqueInv
    <2>2. \A a \in Underway : a[2] # cmd[2] /\ a[2] \in 1 .. calls + 1
      BY <1>2, <1>5, <2>1, SMTT(20)
    <2>3. cmd[2] \in 1 .. calls + 1
      BY <1>2, <1>5
    <2>4. \A a, b \in Underway : a[2] = b[2] => a = b
      BY Zenon DEF OwnInv, UniqueInv
    <2>5. \A a, b \in Underway \cup {cmd} : a[2] = b[2] => a = b
      BY <2>2, <2>4, Zenon
    <2>6. \A a \in Underway \cup {cmd} : a[2] \in 1 .. calls + 1
      BY <2>2, <2>3, Zenon
    <2> QED  BY <1>1, <1>10, <2>5, <2>6, Zenon DEF UniqueInv
  <1>13. PendingInv'
    <2>1. ASSUME NEW b \in Client, call'[b].at = "loaded"
          PROVE  call'[b].n = Len(log') + 1
      <3>1. b = c
        BY <1>4, <1>8, <2>1, Zenon
      <3> QED  BY <1>1, <1>4, <1>5, <1>7, <3>1, Zenon
    <2>2. \A k \in 1 .. Len(mailbox') : ~Submitted(k)'
      BY <1>1, <1>9, Zenon DEF Submitted
    <2> QED  BY <2>1, <2>2, Zenon DEF PendingInv
  <1>14. IndexInv'
    <2>1. call'[c].index = call'[c].n - 1
      <3>1. log_index = (calls + 1) - 1
        BY <1>2, <1>3, <1>7
      <3> QED  BY <1>4, <1>5, <3>1, Zenon
    <2> QED  BY <1>1, <1>4, <2>1, Zenon DEF OwnInv, IndexInv
  <1>15. OwnAnswer'
    BY <1>4, <1>5, Zenon DEF OwnInv, OwnAnswer
  <1> QED  BY <1>11, <1>12, <1>13, <1>14, <1>15, Zenon DEF OwnInv

\* Every step, while nothing has disturbed the indices.
LEMMA OwnStep ==
  ASSUME Inv, AgreeInv, CallInv, MailInv, Undisturbed => OwnInv,
         [ServiceNext]_serviceVars, Undisturbed'
  PROVE  OwnInv'
  <1>1. indexes' = indexes \/ \E x : indexes' = Append(indexes, x)
    BY Zenon DEF ServiceNext, Actor, serviceVars, callVars, Load, Send, Register, Timeout,
       SelfSend, TakeSubmit, TakeAES, TakeResult, TakeSendCommit, AckReply, StepDown, StepUp,
       ForeignAppend, SubscribeCommits, RelayLag, RelayCommit, ApplyLag, ApplyEntry
  <1>2. changes' = changes \/ StepDown
    BY Zenon DEF ServiceNext, Actor, serviceVars, actorVars, termVars, Load, Send, Register,
       Timeout, SelfSend, TakeSubmit, TakeAES, TakeResult, TakeSendCommit, AckReply, StepUp,
       ForeignAppend, SubscribeCommits, RelayLag, RelayCommit, ApplyLag, ApplyEntry
  <1>3. changes' = 0 /\ changes \in Nat /\ IsSeq(indexes)
    <2>1. changes' = 0 /\ changes \in Nat /\ indexes \in Seq(Nat)
      BY Zenon DEF Undisturbed, CallInv
    <2> QED  BY <2>1 DEF IsSeq
  <1>4. ~StepDown
    <2> SUFFICES ASSUME StepDown PROVE FALSE
      OBVIOUS
    <2>1. changes' = changes + 1
      BY Zenon DEF StepDown
    <2> QED  BY <1>3, <2>1
  <1>5. ASSUME NEW i \in DOMAIN indexes, NEW j \in DOMAIN indexes, indexes[i] = indexes[j]
        PROVE  i = j
    <2>1. /\ i \in DOMAIN indexes' /\ indexes'[i] = indexes[i]
          /\ j \in DOMAIN indexes' /\ indexes'[j] = indexes[j]
      <3>1. CASE indexes' = indexes
        BY <3>1, Zenon
      <3>2. ASSUME NEW x, indexes' = Append(indexes, x) PROVE <2>1!:
        <4>1. /\ DOMAIN indexes = 1 .. Len(indexes) /\ Len(indexes) \in Nat
              /\ DOMAIN indexes' = 1 .. Len(indexes')
          BY <1>3, <3>2, SeqLen, SeqAppend, SMTT(20)
        <4>2. /\ Len(indexes') = Len(indexes) + 1
              /\ \A k \in 1 .. Len(indexes) : indexes'[k] = indexes[k]
          BY <1>3, <3>2, SeqAppend
        <4> QED  BY <4>1, <4>2, SMTT(20)
      <3> QED  BY <1>1, <3>1, <3>2, Zenon
    <2> QED  BY <1>5, <2>1, Zenon DEF Undisturbed
  <1>6. OwnInv
    BY <1>2, <1>3, <1>4, <1>5, Zenon DEF Undisturbed
  <1>7. leader
    BY <1>6, Zenon DEF OwnInv, CountInv
  <1>8. ASSUME UNCHANGED <<call, subs>>, UNCHANGED <<leader, log, log_index, calls, indexes>>,
               \/ mailbox' = mailbox
               \/ mailbox # <<>> /\ mailbox' = Tail(mailbox)
               \/ \E x : x.kind # "Submit" /\ mailbox' = Append(mailbox, x)
        PROVE  OwnInv'
    BY <1>6, <1>8, OwnQuietStep, Zenon
  <1>9. ASSUME NEW c \in Client, Load(c) \/ Send(c) \/ Register(c) \/ Timeout(c)
        PROVE  OwnInv'
    BY <1>6, <1>9, OwnLoadStep, OwnSendStep, OwnRegisterStep, OwnTimeoutStep, Zenon
  <1>10. CASE TakeSubmit \/ ApplyEntry
    BY <1>6, <1>10, OwnSubmitStep, OwnApplyStep, Zenon
  <1>11. CASE SelfSend
    <2>1. out # <<>> /\ mailbox' = Append(mailbox, Head(out))
      BY <1>11, Zenon DEF SelfSend
    <2>2. Head(out).kind # "Submit"
      <3>1. 1 \in 1 .. Len(out) /\ Head(out) = out[1]
        BY <2>1, SeqTail DEF MailInv
      <3> QED  BY <3>1, Zenon DEF MailInv
    <2> QED  BY <1>8, <1>11, <2>1, <2>2, Zenon DEF SelfSend, callVars, termVars
  <1>12. CASE TakeAES \/ TakeResult \/ TakeSendCommit
    BY <1>8, <1>12, Zenon DEF TakeAES, TakeResult, TakeSendCommit, Takes, callVars, termVars
  <1>13. ASSUME NEW t \in acks, AckReply(t) PROVE OwnInv'
    BY <1>8, <1>13, OwnMessages, Zenon DEF AckReply, callVars, termVars
  <1>14. CASE SubscribeCommits \/ RelayLag \/ RelayCommit \/ ApplyLag \/ UNCHANGED serviceVars
    BY <1>8, <1>14, Zenon DEF SubscribeCommits, RelayLag, RelayCommit, ApplyLag, serviceVars,
       callVars, actorVars, termVars
  <1>15. ~StepUp /\ \A k \in 0 .. Len(log), done \in BOOLEAN : ~ForeignAppend(k, done)
    BY <1>7, Zenon DEF StepUp, ForeignAppend
  <1> QED  BY <1>4, <1>9, <1>10, <1>11, <1>12, <1>13, <1>14, <1>15, Zenon DEF ServiceNext, Actor

\* A call that ends with a value has the value of its own command, unless the
\* leader changed or two calls were given the same index before: the index
\* that submit returns is the one its command gets in the log, and the apply
\* loop answers whoever waits at an index with the entry of that index
\* (efis.rs:19-43, efis.rs:238-253, consensus.rs:835-839).
THEOREM OwnAnswers == ServiceSpec => []OwnAnswerUnlessShared
  <1> DEFINE Own == Undisturbed => OwnInv
  <1>0. /\ Len(<<>>) = 0 /\ DOMAIN <<>> = {} /\ IsSeq(<<>>) /\ \A k : k \notin 1 .. 0
        /\ 0 \in Nat /\ 0 <= 0 /\ 0 <= 0 + 1 /\ <<>> \in Seq(Nat) /\ <<>> \in Seq(Cmd)
    <2>1. <<>> \in Seq({}) /\ <<>> \in Seq(Nat) /\ <<>> \in Seq(Cmd)
      OBVIOUS
    <2> QED  BY <2>1 DEF IsSeq
  <1>a. /\ Idle(NoAnswer) \in CallRecord /\ Idle(NoAnswer).at = "idle"
        /\ Idle(NoAnswer).ans.res = "none"
    BY DEF Idle, NoAnswer, NoCmd, CallRecord, Cmd
  <1>b. /\ "idle" \notin {"loaded", "sent"} /\ "none" # "ok"
    OBVIOUS
  <1>1. ServiceInit => CallInv /\ MailInv
    BY <1>0, <1>a, Zenon DEF ServiceInit, CallInv, MailInv
  <1>2. ServiceInit => Own
    <2> SUFFICES ASSUME ServiceInit PROVE OwnInv
      OBVIOUS
    <2>1. /\ \A c \in Client : call[c].at = "idle" /\ call[c].ans.res = "none"
          /\ mailbox = <<>> /\ log = <<>> /\ subs = <<>> /\ indexes = <<>> /\ leader
          /\ calls = 0 /\ log_index = 0
      BY <1>a, Zenon DEF ServiceInit
    <2>2. CountInv
      BY <1>0, <2>1, Zenon DEF CountInv
    <2>3. UniqueInv
      <3>1. \A a : a \notin Underway
        BY <1>0, <2>1, Zenon DEF Underway
      <3> QED  BY <3>1, Zenon DEF UniqueInv
    <2>4. PendingInv
      BY <1>0, <1>b, <2>1, Zenon DEF PendingInv
    <2>5. IndexInv /\ OwnAnswer
      BY <1>0, <1>b, <2>1, Zenon DEF IndexInv, OwnAnswer
    <2> QED  BY <2>2, <2>3, <2>4, <2>5, Zenon DEF OwnInv
  <1>3. Own => OwnAnswerUnlessShared
    BY Zenon DEF OwnAnswerUnlessShared, Undisturbed, OwnInv, OwnAnswer
  <1>4. Inv /\ AgreeInv /\ CallInv /\ MailInv /\ Own /\ [ServiceNext]_serviceVars => Own'
    BY OwnStep, Zenon
  <1>5. Inv /\ AgreeInv /\ CallInv /\ MailInv /\ [ServiceNext]_serviceVars
          => Inv' /\ AgreeInv' /\ CallInv' /\ MailInv'
    BY StepInv, AgreeStep, CallStep, MailStep, Zenon
  <1>6. ServiceInit => Inv /\ AgreeInv
    BY InitInv, InitAgree, Zenon
  <1> QED
    <2> HIDE DEF Own
    <2> QED  BY <1>1, <1>2, <1>3, <1>4, <1>5, <1>6, PTL DEF ServiceSpec

=============================================================================
