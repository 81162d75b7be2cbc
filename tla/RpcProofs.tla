------------------------------ MODULE RpcProofs ------------------------------
(***************************************************************************)
(* Rpc, for any number of calls, lost connections and dropped streams, and *)
(* whatever the streams carry: a request is sent and executed once, and    *)
(* the protocol implements RpcCall.  Until a receiver is dropped or an     *)
(* item reads "done", every reply reaches its caller and every stream      *)
(* arrives in order.                                                       *)
(***************************************************************************)
EXTENDS Rpc, TLAPS

Has(s, i) == \E k \in 1 .. Len(s) : s[k] = i
Distinct(s) == \A k, l \in 1 .. Len(s) : s[k] = s[l] => k = l

What == Texts \cup {"reply", "error", "refused", "done"}

Status == [at : {"new", "made", "dropped", "over"},
           kind : Kinds \cup {"none"},
           ans : {"none", "redirect", "ok", "error", "lost"},
           by : Call \cup {Nobody}]

TypeInv ==
    /\ request \in [Call -> Status]
    /\ inbox \in Seq(Call) /\ c2s \in Seq(Call)
    /\ io \in Call \cup {Nobody}
    /\ s2c \in Seq([id : Call, what : What])
    /\ handler \in [at : {"read", "run", "stream"}, id : Call \cup {Nobody}]
    /\ handler.at # "read" => handler.id \in Call
    /\ orphans \subseteq Call /\ ran \subseteq Call

Running(i) == handler.at = "run" /\ handler.id = i

\* Where a request can be: in the inbox, on the wire, in the hands of a
\* handler, with or without its connection, or executed.  It is in one place.
Once(i) ==
    /\ Has(inbox, i) => ~Has(c2s, i) /\ ~Running(i) /\ i \notin orphans /\ i \notin ran
    /\ Has(c2s, i) => ~Running(i) /\ i \notin orphans /\ i \notin ran
    /\ Running(i) => i \notin orphans /\ i \notin ran
    /\ i \in orphans => i \notin ran

\* Before the call is made it is in none.
Fresh(i) ==
    request[i].at = "new" =>
        ~Has(inbox, i) /\ ~Has(c2s, i) /\ ~Running(i) /\ i \notin orphans /\ i \notin ran

PlaceInv ==
    /\ Distinct(inbox) /\ Distinct(c2s)
    /\ \A i \in Call : Once(i) /\ Fresh(i)

Inv == TypeInv /\ PlaceInv

-----------------------------------------------------------------------------
(* Sequences.                                                              *)

LEMMA AppendHas ==
  ASSUME NEW S, NEW s \in Seq(S), NEW e \in S
  PROVE  /\ Append(s, e) \in Seq(S)
         /\ \A i : Has(Append(s, e), i) <=> Has(s, i) \/ i = e
         /\ Distinct(s) /\ ~Has(s, e) => Distinct(Append(s, e))
  <1>1. /\ Append(s, e) \in Seq(S) /\ Len(Append(s, e)) = Len(s) + 1 /\ Len(s) \in Nat
        /\ \A k \in 1 .. Len(s) : Append(s, e)[k] = s[k]
        /\ Append(s, e)[Len(s) + 1] = e
    OBVIOUS
  <1>2. \A k : k \in 1 .. Len(s) + 1 <=> k \in 1 .. Len(s) \/ k = Len(s) + 1
    BY <1>1
  <1>3. \A i : Has(Append(s, e), i) <=> Has(s, i) \/ i = e
    BY <1>1, <1>2 DEF Has
  <1>4. ASSUME Distinct(s), ~Has(s, e) PROVE Distinct(Append(s, e))
    BY <1>1, <1>2, <1>4 DEF Has, Distinct
  <1> QED  BY <1>1, <1>3, <1>4

LEMMA TailHas ==
  ASSUME NEW S, NEW s \in Seq(S), s # <<>>, Distinct(s)
  PROVE  /\ Tail(s) \in Seq(S) /\ Head(s) \in S /\ Has(s, Head(s))
         /\ \A i : Has(Tail(s), i) <=> Has(s, i) /\ i # Head(s)
         /\ Distinct(Tail(s))
  <1>1. /\ Tail(s) \in Seq(S) /\ Len(Tail(s)) = Len(s) - 1 /\ Len(s) \in Nat
        /\ Len(s) >= 1 /\ Head(s) = s[1] /\ s[1] \in S
        /\ \A k \in 1 .. Len(s) - 1 : Tail(s)[k] = s[k + 1]
    OBVIOUS
  <1>2. Has(s, Head(s))
    BY <1>1 DEF Has
  <1>3. ASSUME NEW i, Has(Tail(s), i) PROVE Has(s, i) /\ i # Head(s)
    <2>1. PICK k \in 1 .. Len(s) - 1 : Tail(s)[k] = i
      BY <1>1, <1>3 DEF Has
    <2>2. k + 1 \in 1 .. Len(s) /\ 1 \in 1 .. Len(s) /\ k + 1 # 1 /\ s[k + 1] = i
      BY <1>1, <2>1
    <2>3. s[k + 1] # s[1]
      BY <2>2 DEF Distinct
    <2> QED  BY <1>1, <2>2, <2>3 DEF Has
  <1>4. ASSUME NEW i, Has(s, i), i # Head(s) PROVE Has(Tail(s), i)
    <2>1. PICK k \in 1 .. Len(s) : s[k] = i
      BY <1>4 DEF Has
    <2>2. k # 1
      BY <1>1, <1>4, <2>1
    <2>3. k - 1 \in 1 .. Len(s) - 1 /\ (k - 1) + 1 = k
      BY <1>1, <2>2
    <2>4. Tail(s)[k - 1] = i
      BY <1>1, <2>1, <2>3
    <2> QED  BY <1>1, <2>3, <2>4 DEF Has
  <1>5. Distinct(Tail(s))
    <2>1. SUFFICES ASSUME NEW k \in 1 .. Len(s) - 1, NEW l \in 1 .. Len(s) - 1,
                          Tail(s)[k] = Tail(s)[l]
                   PROVE  k = l
      BY <1>1 DEF Distinct
    <2>2. k + 1 \in 1 .. Len(s) /\ l + 1 \in 1 .. Len(s) /\ s[k + 1] = s[l + 1]
      BY <1>1, <2>1
    <2>3. k + 1 = l + 1
      BY <2>2 DEF Distinct
    <2> QED  BY <2>3
  <1> QED  BY <1>1, <1>2, <1>3, <1>4, <1>5

LEMMA EmptyHas == Distinct(<<>>) /\ \A i : ~Has(<<>>, i)
  BY DEF Has, Distinct

LEMMA RestOf ==
  ASSUME NEW S, NEW s \in Seq(S), NEW k \in 0 .. Len(s)
  PROVE  /\ SubSeq(s, k + 1, Len(s)) \in Seq(S)
         /\ SubSeq(s, 1, k) \in Seq(S)
  OBVIOUS

LEMMA NextOf ==
  ASSUME NEW S, NEW s \in Seq(S), s # <<>> PROVE Head(s) \in S /\ Tail(s) \in Seq(S)
  OBVIOUS

LEMMA Longer ==
  ASSUME NEW S, NEW s \in Seq(S), NEW e \in S
  PROVE  /\ Append(s, e) \in Seq(S) /\ Len(s) \in Nat /\ Len(Append(s, e)) = Len(s) + 1
         /\ Append(s, e)[Len(Append(s, e))] = e
  OBVIOUS

LEMMA NotEmpty == ASSUME NEW S, NEW s \in Seq(S), NEW k \in 1 .. Len(s) PROVE s # <<>>
  OBVIOUS

LEMMA OneMore == ASSUME NEW S, NEW s \in Seq(S), NEW e \in S PROVE Append(s, e) \in Seq(S)
  OBVIOUS

-----------------------------------------------------------------------------

LEMMA InitInv == ASSUME RpcInit PROVE Inv
  <1>1. TypeInv
    BY DEF RpcInit, TypeInv, Reading, Status
  <1>2. PlaceInv
    BY EmptyHas DEF RpcInit, PlaceInv, Once, Fresh, Running, Reading
  <1> QED  BY <1>1, <1>2 DEF Inv

\* A step that moves no request, and makes no call new.
LEMMA Elsewhere ==
  ASSUME Inv, UNCHANGED <<inbox, c2s, handler, orphans, ran>>,
         \A i \in Call : request'[i].at = "new" => request[i].at = "new"
  PROVE  PlaceInv'
  BY DEF Inv, PlaceInv, Once, Fresh, Running, Has, Distinct

LEMMA MakeInv == ASSUME Inv, NEW i \in Call, NEW kind \in Kinds, Make(i, kind) PROVE Inv'
  <1>1. /\ UNCHANGED <<io, c2s, s2c, handler, orphans, ran>>
        /\ inbox' = Append(inbox, i) /\ request[i].at = "new"
        /\ request' = [request EXCEPT ![i].at = "made", ![i].kind = kind]
    BY DEF Make, Wire, Server
  <1>2. TypeInv
    BY DEF Inv
  <1>3. /\ inbox' \in Seq(Call) /\ Distinct(inbox')
        /\ \A j : Has(inbox', j) <=> Has(inbox, j) \/ j = i
    BY <1>1, AppendHas DEF Inv, TypeInv, PlaceInv, Fresh
  <1>4. TypeInv'
    <2>1. request' \in [Call -> Status]
      <3>1. request'[i] = [request[i] EXCEPT !.at = "made", !.kind = kind]
        BY <1>1, <1>2 DEF TypeInv
      <3>2. request[i] \in Status
        BY <1>2 DEF TypeInv
      <3>3. request'[i] \in Status
        BY <3>1, <3>2, Zenon DEF Status
      <3> QED  BY <1>1, <1>2, <3>3 DEF TypeInv
    <2> QED  BY <1>1, <1>2, <1>3, <2>1 DEF TypeInv
  <1>5. PlaceInv'
    <2>1. request'[i].at = "made" /\ \A j \in Call \ {i} : request'[j] = request[j]
      BY <1>1, <1>2 DEF TypeInv
    <2>2. \A j \in Call : (Running(j)' <=> Running(j)) /\ (Has(c2s, j)' <=> Has(c2s, j))
      BY <1>1 DEF Running, Has
    <2>3. Distinct(c2s)'
      BY <1>1 DEF Inv, PlaceInv, Distinct
    <2>4. ASSUME NEW j \in Call PROVE Once(j)' /\ Fresh(j)'
      <3>1. Once(j) /\ Fresh(j) /\ Fresh(i)
        BY DEF Inv, PlaceInv
      <3> QED  BY <1>1, <1>3, <2>1, <2>2, <3>1, Zenon DEF Once, Fresh
    <2> QED  BY <1>3, <2>3, <2>4 DEF PlaceInv
  <1> QED  BY <1>4, <1>5 DEF Inv

\* A call that ends keeps the types.
LEMMA EndsType ==
  ASSUME TypeInv, NEW i \in Call, NEW by \in Call \cup {Nobody},
         NEW ans \in {"redirect", "ok", "error", "lost"}, Ends(i, ans, by)
  PROVE  /\ request' \in [Call -> Status]
         /\ io' = Nobody
         /\ \A j \in Call : request'[j].at = "new" => request[j].at = "new"
  <1>1. request \in [Call -> Status] /\ request[i] \in Status
    BY DEF TypeInv
  <1>2. request'[i] = [request[i] EXCEPT !.at = "over", !.ans = ans, !.by = by]
    BY <1>1 DEF Ends
  <1>3. request'[i] \in Status /\ request'[i].at = "over"
    BY <1>1, <1>2, Zenon DEF Status
  <1>4. \A j \in Call \ {i} : request'[j] = request[j]
    BY <1>1 DEF Ends
  <1>5. request' \in [Call -> Status]
    <2>1. DOMAIN request' = Call /\ request' = [j \in Call |-> request'[j]]
      BY <1>1, Zenon DEF Ends
    <2> QED  BY <1>1, <1>3, <1>4, <2>1
  <1> QED  BY <1>3, <1>4, <1>5 DEF Ends

\* What io_loop does with a line it read, or without one.
LEMMA ReadInv ==
  ASSUME Inv, ReadReply \/ ReadItem \/ ReadLast \/ ReadEof PROVE Inv'
  <1>1. TypeInv /\ io \in Call
    BY DEF Inv, TypeInv, ReadReply, ReadItem, ReadLast, ReadEof
  <1>2. s2c # <<>> => Head(s2c).id \in Call /\ Tail(s2c) \in Seq([id : Call, what : What])
    <2>1. s2c \in Seq([id : Call, what : What])
      BY <1>1 DEF TypeInv
    <2>2. s2c # <<>> => Head(s2c) \in [id : Call, what : What]
                        /\ Tail(s2c) \in Seq([id : Call, what : What])
      BY <2>1, NextOf, Zenon
    <2> QED  BY <2>2
  <1>3. UNCHANGED <<inbox, c2s, handler, orphans, ran>>
    BY DEF ReadReply, ReadItem, ReadLast, ReadEof, Server, Wire
  <1>4. /\ request' \in [Call -> Status] /\ io' \in Call \cup {Nobody}
        /\ \A j \in Call : request'[j].at = "new" => request[j].at = "new"
    <2>1. CASE ReadReply
      <3>1. PICK k \in 1 .. Len(s2c) : \E res \in Results(Head(s2c)) :
                Ends(io, res, Head(s2c).id)
        BY <2>1 DEF ReadReply
      <3>2. s2c # <<>>
        BY <3>1
      <3>3. Results(Head(s2c)) \subseteq {"redirect", "ok", "error", "lost"}
        BY DEF Results
      <3> QED  BY <1>1, <1>2, <3>1, <3>2, <3>3, EndsType
    <2>2. CASE ReadItem
      BY <1>1, <2>2 DEF ReadItem, TypeInv
    <2>3. CASE ReadLast
      <3>1. PICK k \in 1 .. Len(s2c) : Ends(io, "ok", Head(s2c).id)
        BY <2>3 DEF ReadLast
      <3>2. s2c # <<>>
        BY <3>1
      <3> QED  BY <1>1, <1>2, <3>1, <3>2, EndsType
    <2>4. CASE ReadEof
      BY <1>1, <2>4, EndsType DEF ReadEof
    <2> QED  BY <2>1, <2>2, <2>3, <2>4
  <1>5. s2c' \in Seq([id : Call, what : What])
    <2>1. s2c \in Seq([id : Call, what : What])
      BY <1>1 DEF TypeInv
    <2>2. CASE ReadReply \/ ReadLast
      <3>1. PICK k \in 1 .. Len(s2c) : s2c' = SubSeq(s2c, k + 1, Len(s2c))
        BY <2>2 DEF ReadReply, ReadLast
      <3>2. k \in 0 .. Len(s2c)
        BY <2>1
      <3> QED  BY <2>1, <3>1, <3>2, RestOf, Zenon
    <2>3. CASE ReadItem
      BY <1>2, <2>3 DEF ReadItem
    <2>4. CASE ReadEof
      BY <2>1, <2>4 DEF ReadEof, Wire
    <2> QED  BY <2>2, <2>3, <2>4
  <1>6. TypeInv'
    BY <1>1, <1>3, <1>4, <1>5 DEF TypeInv
  <1> QED  BY <1>3, <1>4, <1>6, Elsewhere DEF Inv

LEMMA DropInv == ASSUME Inv, NEW i \in Call, DropReceiver(i) PROVE Inv'
  <1>1. /\ UNCHANGED <<inbox, io, c2s, s2c, handler, orphans, ran>>
        /\ request' = [request EXCEPT ![i].at = "dropped"]
    BY DEF DropReceiver, Wire, Server
  <1>2. request \in [Call -> Status] /\ request[i] \in Status
    BY DEF Inv, TypeInv
  <1>3. request'[i] = [request[i] EXCEPT !.at = "dropped"]
        /\ \A j \in Call \ {i} : request'[j] = request[j]
    BY <1>1, <1>2
  <1>4. request'[i] \in Status /\ request'[i].at = "dropped"
    BY <1>2, <1>3 DEF Status
  <1>5. request' \in [Call -> Status]
    <2>1. DOMAIN request' = Call /\ request' = [j \in Call |-> request'[j]]
      BY <1>1, <1>2, Zenon
    <2> QED  BY <1>2, <1>3, <1>4, <2>1
  <1>6. TypeInv'
    BY <1>1, <1>5 DEF Inv, TypeInv
  <1>7. \A j \in Call : request'[j].at = "new" => request[j].at = "new"
    BY <1>3, <1>4, Zenon
  <1> QED  BY <1>1, <1>6, <1>7, Elsewhere DEF Inv

LEMMA ConnectInv == ASSUME Inv, Connect PROVE Inv'
  <1>1. /\ UNCHANGED <<request, inbox, io, orphans, ran>>
        /\ c2s' = <<>> /\ s2c' = <<>> /\ handler' = Reading
    BY DEF Connect
  <1>2. TypeInv'
    BY <1>1 DEF Inv, TypeInv, Reading
  <1>3. PlaceInv'
    BY <1>1, EmptyHas DEF Inv, PlaceInv, Once, Fresh, Running, Reading
  <1> QED  BY <1>2, <1>3 DEF Inv

LEMMA IoTakeInv == ASSUME Inv, IoTake PROVE Inv'
  <1>1. /\ UNCHANGED <<request, s2c, handler, orphans, ran>>
        /\ inbox # <<>> /\ io' = Head(inbox) /\ inbox' = Tail(inbox)
        /\ c2s' \in {c2s, Append(c2s, Head(inbox))}
    BY DEF IoTake, Server
  <1>2. inbox \in Seq(Call) /\ c2s \in Seq(Call) /\ Distinct(inbox) /\ Distinct(c2s)
    BY DEF Inv, TypeInv, PlaceInv
  <1>3. /\ inbox' \in Seq(Call) /\ Distinct(inbox') /\ Head(inbox) \in Call
        /\ Has(inbox, Head(inbox))
        /\ \A j : Has(inbox', j) <=> Has(inbox, j) /\ j # Head(inbox)
    BY <1>1, <1>2, TailHas
  <1>4. ~Has(c2s, Head(inbox))
    BY <1>3 DEF Inv, PlaceInv, Once
  <1>5. /\ c2s' \in Seq(Call) /\ Distinct(c2s')
        /\ \A j : Has(c2s', j) => Has(c2s, j) \/ j = Head(inbox)
    <2> DEFINE i == Head(inbox)
    <2>1. i \in Call /\ ~Has(c2s, i)
      BY <1>3, <1>4
    <2> HIDE DEF i
    <2>2. /\ Append(c2s, i) \in Seq(Call) /\ Distinct(Append(c2s, i))
          /\ \A j : Has(Append(c2s, i), j) <=> Has(c2s, j) \/ j = i
      BY <1>2, <2>1, AppendHas
    <2>3. c2s' = c2s \/ c2s' = Append(c2s, i)
      BY <1>1 DEF i
    <2>4. CASE c2s' = c2s
      BY <1>2, <2>4
    <2>5. CASE c2s' = Append(c2s, i)
      BY <2>2, <2>5 DEF i
    <2> QED  BY <2>3, <2>4, <2>5
  <1>6. TypeInv'
    BY <1>1, <1>3, <1>5 DEF Inv, TypeInv
  <1>7. ASSUME NEW j \in Call PROVE Once(j)' /\ Fresh(j)'
    <2>1. Once(j) /\ Fresh(j)
      BY DEF Inv, PlaceInv
    <2>2. Running(j)' <=> Running(j)
      BY <1>1 DEF Running
    <2> QED  BY <1>1, <1>3, <1>5, <2>1, <2>2 DEF Once, Fresh
  <1> QED  BY <1>3, <1>5, <1>6, <1>7 DEF Inv, PlaceInv

LEMMA TakeRequestInv == ASSUME Inv, TakeRequest PROVE Inv'
  <1>1. /\ UNCHANGED <<request, inbox, io, s2c, orphans, ran>>
        /\ c2s # <<>> /\ c2s' = Tail(c2s)
        /\ handler' = [at |-> "run", id |-> Head(c2s)]
    BY DEF TakeRequest, clientVars
  <1>2. c2s \in Seq(Call) /\ Distinct(c2s)
    BY DEF Inv, TypeInv, PlaceInv
  <1>3. /\ c2s' \in Seq(Call) /\ Distinct(c2s') /\ Head(c2s) \in Call
        /\ Has(c2s, Head(c2s))
        /\ \A j : Has(c2s', j) <=> Has(c2s, j) /\ j # Head(c2s)
    BY <1>1, <1>2, TailHas
  <1>4. TypeInv'
    BY <1>1, <1>3 DEF Inv, TypeInv
  <1>5. ASSUME NEW j \in Call PROVE Once(j)' /\ Fresh(j)'
    <2>1. Once(j) /\ Fresh(j)
      BY DEF Inv, PlaceInv
    <2>2. Running(j)' <=> j = Head(c2s)
      BY <1>1 DEF Running
    <2>3. Has(inbox, j)' <=> Has(inbox, j)
      BY <1>1 DEF Has
    <2> QED  BY <1>1, <1>3, <2>1, <2>2, <2>3 DEF Once, Fresh
  <1>6. Distinct(inbox)'
    BY <1>1 DEF Inv, PlaceInv, Distinct
  <1> QED  BY <1>3, <1>4, <1>5, <1>6 DEF Inv, PlaceInv

\* A request leaves the handler, executed or not, with or without its
\* connection, and no other request moves.
LEMMA Settled ==
  ASSUME Inv, UNCHANGED <<request, inbox>>, c2s' = c2s \/ c2s' = <<>>,
         \A j \in Call : ~Running(j)',
         \A j \in Call : j \in orphans' => j \in orphans \/ Running(j),
         \A j \in Call : j \in ran' => j \in ran \/ Running(j) \/ j \in orphans,
         \A j \in Call : j \in ran' \ ran => j \notin orphans',
         \A j \in Call : j \in orphans' \ orphans => j \notin ran'
  PROVE  PlaceInv'
  <1>1. Distinct(inbox)' /\ Distinct(c2s)'
    BY EmptyHas DEF Inv, PlaceInv, Distinct
  <1>2. ASSUME NEW j \in Call PROVE Once(j)' /\ Fresh(j)'
    <2>1. Once(j) /\ Fresh(j)
      BY DEF Inv, PlaceInv
    <2>2. (Has(inbox, j)' <=> Has(inbox, j)) /\ (Has(c2s, j)' => Has(c2s, j))
      BY EmptyHas DEF Has
    <2>3. request'[j].at = request[j].at /\ ~Running(j)'
      OBVIOUS
    <2>4. j \in orphans' => j \notin ran'
      BY <2>1 DEF Once
    <2> QED  BY <2>1, <2>2, <2>3, <2>4 DEF Once, Fresh
  <1> QED  BY <1>1, <1>2 DEF PlaceInv

LEMMA DispatchInv == ASSUME Inv, Dispatch \/ OpenStream PROVE Inv'
  <1>1. /\ UNCHANGED <<request, inbox, io, c2s, orphans>>
        /\ ran' \in {ran, ran \cup {handler.id}}
        /\ handler.at = "run" /\ handler' \in {Reading, [handler EXCEPT !.at = "stream"]}
    BY DEF Dispatch, OpenStream, clientVars, Wire
  <1>2. /\ handler.id \in Call /\ Running(handler.id)
        /\ handler \in [at : {"read", "run", "stream"}, id : Call \cup {Nobody}]
    BY <1>1 DEF Inv, TypeInv, Running
  <1>3. /\ handler' \in [at : {"read", "run", "stream"}, id : Call \cup {Nobody}]
        /\ handler'.at # "run" /\ (handler'.at # "read" => handler'.id \in Call)
    BY <1>1, <1>2 DEF Reading
  <1>4. s2c' \in Seq([id : Call, what : What])
    <2>1. CASE OpenStream
      BY <2>1 DEF OpenStream, Wire, Inv, TypeInv
    <2>2. CASE Dispatch
      <3>1. PICK what \in {"refused", "reply", "error"} :
                s2c' = Append(s2c, Line(handler.id, what))
        BY <2>2 DEF Dispatch
      <3>2. Line(handler.id, what) \in [id : Call, what : What]
        BY <1>2 DEF Line, What
      <3>3. s2c \in Seq([id : Call, what : What])
        BY DEF Inv, TypeInv
      <3> QED  BY <3>1, <3>2, <3>3, OneMore
    <2> QED  BY <2>1, <2>2
  <1>5. TypeInv'
    BY <1>1, <1>2, <1>3, <1>4 DEF Inv, TypeInv
  <1>6. handler.id \notin orphans
    BY <1>2 DEF Inv, PlaceInv, Once
  <1>7. PlaceInv'
    <2>1. \A j \in Call : ~Running(j)'
      BY <1>3 DEF Running
    <2> QED  BY <1>1, <1>2, <1>6, <2>1, Settled
  <1> QED  BY <1>5, <1>7 DEF Inv

LEMMA LoseInv == ASSUME Inv, Lose PROVE Inv'
  <1>1. /\ UNCHANGED <<request, inbox, io, ran>> /\ c2s' = <<>> /\ handler' = Reading
        /\ orphans' = IF handler.at = "run" THEN orphans \cup {handler.id} ELSE orphans
    BY DEF Lose, clientVars
  <1>2. s2c' \in Seq([id : Call, what : What])
    <2>1. PICK k \in 0 .. Len(s2c) : s2c' = SubSeq(s2c, 1, k)
      BY DEF Lose
    <2> QED  BY <2>1, RestOf, Zenon DEF Inv, TypeInv
  <1>3. TypeInv'
    BY <1>1, <1>2 DEF Inv, TypeInv, Reading
  <1>4. handler.at = "run" => handler.id \in Call /\ Running(handler.id)
    BY DEF Inv, TypeInv, Running
  <1>5. handler.at = "run" => handler.id \notin ran
    BY <1>4 DEF Inv, PlaceInv, Once
  <1>6. PlaceInv'
    <2>1. \A j \in Call : ~Running(j)'
      BY <1>1 DEF Running, Reading
    <2> QED  BY <1>1, <1>4, <1>5, <2>1, Settled
  <1> QED  BY <1>3, <1>6 DEF Inv

LEMMA OrphanInv == ASSUME Inv, NEW i \in Call, OrphanRuns(i) PROVE Inv'
  <1>1. /\ UNCHANGED <<request, inbox, io, c2s, s2c, handler>>
        /\ i \in orphans /\ orphans' = orphans \ {i} /\ ran' \in {ran, ran \cup {i}}
    BY DEF OrphanRuns, clientVars, Wire
  <1>2. TypeInv'
    BY <1>1 DEF Inv, TypeInv
  <1>3. ASSUME NEW j \in Call PROVE Once(j)' /\ Fresh(j)'
    <2>1. Once(j) /\ Fresh(j)
      BY DEF Inv, PlaceInv
    <2>2. /\ Has(inbox, j)' <=> Has(inbox, j)
          /\ Has(c2s, j)' <=> Has(c2s, j)
          /\ Running(j)' <=> Running(j)
      BY <1>1 DEF Has, Running
    <2> QED  BY <1>1, <2>1, <2>2 DEF Once, Fresh
  <1>4. Distinct(inbox)' /\ Distinct(c2s)'
    BY <1>1 DEF Inv, PlaceInv, Distinct
  <1> QED  BY <1>2, <1>3, <1>4 DEF Inv, PlaceInv

LEMMA StreamInv ==
  ASSUME Inv, StreamEnd \/ \E text \in Texts : StreamItem(text) PROVE Inv'
  <1>1. /\ UNCHANGED <<request, inbox, io, c2s, orphans, ran>>
        /\ handler.at = "stream" /\ handler' \in {handler, Reading}
    BY DEF StreamEnd, StreamItem, clientVars
  <1>2. handler.id \in Call
    BY <1>1 DEF Inv, TypeInv
  <1>3. \E text \in What : s2c' \in {s2c, Append(s2c, Line(handler.id, text))}
    BY DEF StreamEnd, StreamItem, What
  <1>4. s2c' \in Seq([id : Call, what : What])
    <2>1. PICK text \in What : s2c' \in {s2c, Append(s2c, Line(handler.id, text))}
      BY <1>3
    <2>2. Line(handler.id, text) \in [id : Call, what : What]
      BY <1>2 DEF Line
    <2>3. s2c \in Seq([id : Call, what : What])
      BY DEF Inv, TypeInv
    <2> QED  BY <2>1, <2>2, <2>3, OneMore, Zenon
  <1>5. TypeInv'
    BY <1>1, <1>4 DEF Inv, TypeInv, Reading
  <1>6. PlaceInv'
    <2>1. \A j \in Call : ~Running(j)'
      BY <1>1 DEF Running, Reading
    <2> QED  BY <1>1, <2>1, Settled
  <1> QED  BY <1>5, <1>6 DEF Inv

LEMMA StepInv == ASSUME Inv, [RpcNext]_rpcVars PROVE Inv'
  <1>1. CASE Elect \/ UNCHANGED rpcVars
    <2>1. UNCHANGED <<request, inbox, io, c2s, s2c, handler, orphans, ran>>
      BY <1>1 DEF Elect, rpcVars, clientVars, Wire
    <2>2. TypeInv'
      BY <2>1 DEF Inv, TypeInv
    <2> QED  BY <2>1, <2>2, Elsewhere DEF Inv
  <1> QED  BY <1>1, MakeInv, DropInv, OrphanInv, StreamInv, ConnectInv, IoTakeInv, ReadInv,
              TakeRequestInv, DispatchInv, LoseInv DEF RpcNext, ClientIo, ServerIo

\* Whatever is lost, dropped or carried by a stream, no request is sent or
\* executed a second time: io_loop takes a call out of its inbox for good
\* (client.rs:175-196, server.rs:195-240).
THEOREM RequestsOnce == RpcSpec => []SentOnce
  <1>1. RpcInit => Inv
    BY InitInv
  <1>2. Inv /\ [RpcNext]_rpcVars => Inv'
    BY StepInv
  <1>3. ASSUME Inv PROVE SentOnce
    <2>1. DOMAIN inbox = 1 .. Len(inbox) /\ DOMAIN c2s = 1 .. Len(c2s)
      BY <1>3 DEF Inv, TypeInv
    <2>2. \A i \in Call : Once(i)
      BY <1>3 DEF Inv, PlaceInv
    <2> QED  BY <2>1, <2>2 DEF SentOnce, Once, Has, Running
  <1> QED  BY <1>1, <1>2, <1>3, PTL DEF RpcSpec

-----------------------------------------------------------------------------
(* Whose reply is it?  As long as no stream item reads "done" and no       *)
(* receiver is dropped, that is, until the connection is spoiled, one      *)
(* request at a time is between client and server, and it leaves nothing   *)
(* behind.                                                                 *)

HistoryInv ==
    /\ drops \in Nat
    /\ items \in [Call -> Seq(Texts)] /\ got \in [Call -> Seq(What)]

CallPart ==
    /\ drops \in Nat
    /\ \A i \in Call : request[i].at # "dropped" /\ request[i].by \in {Nobody, i}
    /\ \A i \in Call : Has(inbox, i) => request[i].at = "made" /\ i # io
    /\ io # Nobody => request[io].at = "made"

\* The request, or the handler that has it.
WirePart ==
    /\ io = Nobody => c2s = <<>> /\ s2c = <<>> /\ handler.at = "read"
    /\ \A k \in 1 .. Len(c2s) : c2s[k] = io
    /\ c2s # <<>> => s2c = <<>> /\ handler.at = "read"
    /\ handler.at # "read" => handler.id = io
    /\ handler.at = "run" => s2c = <<>>
    /\ handler.at = "stream" => ~Unary(io) /\ io \in ran
    /\ conn = "none" => io = Nobody
    /\ conn = "broken" => handler.at = "read" /\ c2s = <<>>

\* The lines of its reply.
LinePart ==
    \A k \in 1 .. Len(s2c) :
        /\ s2c[k].id = io
        /\ s2c[k].what = "done" => k = Len(s2c) /\ handler.at = "read"
        /\ s2c[k].what \in {"done", "reply"} => io \in ran
        /\ Unary(io) => /\ Len(s2c) = 1 /\ handler.at = "read"
                        /\ s2c[k].what \in {"reply", "error", "refused"}

\* A request left behind by its connection gets no reply.
OrphanPart ==
    \A i \in orphans :
        \/ i = io /\ conn = "broken" /\ s2c = <<>>
        \/ request[i].at = "over" /\ request[i].ans = "lost"

Pair == Inv /\ CallPart /\ WirePart /\ LinePart /\ OrphanPart

LEMMA InitPair == ASSUME RpcInit PROVE Pair /\ Abstract!Init
  <1>1. CallPart /\ WirePart /\ LinePart /\ OrphanPart
    BY EmptyHas DEF RpcInit, CallPart, WirePart, LinePart, OrphanPart, Reading
  <1>2. Abstract!Init
    BY DEF RpcInit, Abstract!Init, status, spoiled, Carried
  <1> QED  BY <1>1, <1>2, InitInv DEF Pair

\* The end of a call is an answer.
LEMMA EndsStatus ==
  ASSUME Pair, io \in Call, NEW by \in {Nobody, io}, NEW ans \in {"ok", "error", "lost"},
         Ends(io, ans, by), ran' = ran, inbox' = inbox, drops' = drops,
         ans = "ok" => io \in ran
  PROVE  Abstract!Move /\ CallPart' /\ request'[io].at = "over" /\ request'[io].ans = ans
         /\ (\A j \in Call \ {io} : request'[j] = request[j]) /\ io' = Nobody
  <1>1. request \in [Call -> Status] /\ request[io] \in Status /\ request[io].at = "made"
    BY NobodyAssumption DEF Pair, Inv, TypeInv, CallPart
  <1>2. request'[io] = [request[io] EXCEPT !.at = "over", !.ans = ans, !.by = by]
    BY <1>1 DEF Ends
  <1>3. request'[io].at = "over" /\ request'[io].ans = ans /\ request'[io].by = by
    BY <1>1, <1>2 DEF Status
  <1>4. \A j \in Call \ {io} : request'[j] = request[j]
    BY <1>1 DEF Ends
  <1>5. io' = Nobody
    BY DEF Ends
  <1>6. status[io] = "made" /\ status' = [status EXCEPT ![io] = ans]
    BY <1>1, <1>3, <1>4, Zenon DEF status
  <1>7. Abstract!Answer(io, ans)
    BY <1>6 DEF Abstract!Answer
  <1>8. CallPart'
    <2>1. \A i \in Call : request'[i].at # "dropped" /\ request'[i].by \in {Nobody, i}
      BY <1>3, <1>4 DEF Pair, CallPart
    <2>2. ASSUME NEW i \in Call, Has(inbox', i) PROVE request'[i].at = "made" /\ i # io'
      <3>1. Has(inbox, i)
        BY <2>2
      <3>2. request[i].at = "made" /\ i # io
        BY <3>1 DEF Pair, CallPart
      <3> QED  BY <1>4, <1>5, <3>2, NobodyAssumption
    <2>3. drops' \in Nat
      BY DEF Pair, CallPart
    <2> QED  BY <1>5, <2>1, <2>2, <2>3 DEF CallPart
  <1> QED  BY <1>3, <1>4, <1>5, <1>7, <1>8 DEF Abstract!Move

LEMMA MakePair ==
  ASSUME Pair, NEW i \in Call, NEW kind \in Kinds, Make(i, kind)
  PROVE  Pair' /\ Abstract!Move
  <1>1. /\ UNCHANGED <<io, conn, c2s, s2c, handler, orphans, ran, drops>>
        /\ inbox' = Append(inbox, i) /\ request[i].at = "new"
        /\ request' = [request EXCEPT ![i].at = "made", ![i].kind = kind]
    BY DEF Make, Wire, Server
  <1>2. request \in [Call -> Status] /\ request[i] \in Status /\ inbox \in Seq(Call)
    BY DEF Pair, Inv, TypeInv
  <1>3. request'[i] = [request[i] EXCEPT !.at = "made", !.kind = kind]
        /\ \A j \in Call \ {i} : request'[j] = request[j]
    BY <1>1, <1>2
  <1>4. request'[i].at = "made" /\ request'[i].by = request[i].by
    BY <1>2, <1>3 DEF Status
  <1>5. io # i
    <2>1. io # Nobody => request[io].at = "made"
      BY DEF Pair, CallPart
    <2> QED  BY <1>1, <2>1, NobodyAssumption
  <1>6. \A j : Has(inbox', j) <=> Has(inbox, j) \/ j = i
    BY <1>1, <1>2, AppendHas
  <1>7. io \in Call \cup {Nobody}
    BY DEF Pair, Inv, TypeInv
  <1>8. CallPart'
    <2>1. \A j \in Call : request'[j].at # "dropped" /\ request'[j].by \in {Nobody, j}
      BY <1>3, <1>4, Zenon DEF Pair, CallPart
    <2>2. \A j \in Call : Has(inbox', j) => request'[j].at = "made" /\ j # io'
      BY <1>1, <1>3, <1>4, <1>5, <1>6, Zenon DEF Pair, CallPart
    <2>3. io' # Nobody => request'[io'].at = "made"
      BY <1>1, <1>3, <1>5, <1>7, Zenon DEF Pair, CallPart
    <2> QED  BY <1>1, <2>1, <2>2, <2>3, Zenon DEF Pair, CallPart
  <1>9. io # Nobody => (Unary(io)' <=> Unary(io))
    BY <1>1, <1>3, <1>5, <1>7, Zenon DEF Unary
  <1>10. WirePart'
    BY <1>1, <1>9 DEF Pair, WirePart
  <1>11. LinePart'
    <2>1. CASE io = Nobody
      <3>1. s2c' = <<>>
        BY <1>1, <2>1 DEF Pair, WirePart
      <3> QED  BY <3>1 DEF LinePart
    <2>2. CASE io # Nobody
      BY <1>1, <1>9, <2>2 DEF Pair, LinePart
    <2> QED  BY <2>1, <2>2
  <1>12. OrphanPart'
    <2>1. orphans \subseteq Call /\ i \notin orphans
      BY <1>1 DEF Pair, Inv, TypeInv, PlaceInv, Fresh
    <2> QED  BY <1>1, <1>3, <2>1, Zenon DEF Pair, OrphanPart
  <1>13. Abstract!Make(i)
    <2>1. status[i] = "new"
      BY <1>1 DEF status
    <2>2. \A j \in Call \ {i} : status'[j] = status[j]
      BY <1>3 DEF status
    <2>3. status'[i] = "made"
      BY <1>4 DEF status
    <2>4. status = [j \in Call |-> status[j]] /\ status' = [j \in Call |-> status'[j]]
      BY DEF status
    <2>5. status' = [status EXCEPT ![i] = "made"]
      BY <2>2, <2>3, <2>4
    <2> QED  BY <1>1, <2>1, <2>5 DEF Abstract!Make
  <1> QED  BY <1>8, <1>10, <1>11, <1>12, <1>13, MakeInv DEF Pair, Abstract!Move

LEMMA ConnectPair == ASSUME Pair, Connect PROVE Pair' /\ UNCHANGED Abstract!callVars
  <1>1. /\ UNCHANGED <<request, inbox, io, orphans, ran, drops>>
        /\ conn = "none" /\ conn' = "up" /\ c2s' = <<>> /\ s2c' = <<>> /\ handler' = Reading
    BY DEF Connect
  <1>2. io = Nobody
    BY <1>1 DEF Pair, WirePart
  <1>3. CallPart'
    BY <1>1, Zenon DEF Pair, CallPart, Has
  <1>4. WirePart'
    BY <1>1, <1>2 DEF WirePart, Reading
  <1>5. LinePart'
    BY <1>1 DEF LinePart
  <1>6. OrphanPart'
    <2>1. orphans \subseteq Call
      BY DEF Pair, Inv, TypeInv
    <2> QED  BY <1>1, <1>2, <2>1 DEF Pair, OrphanPart
  <1>7. UNCHANGED Abstract!callVars
    BY <1>1 DEF Abstract!callVars, status
  <1> QED  BY <1>3, <1>4, <1>5, <1>6, <1>7, ConnectInv DEF Pair

LEMMA IoTakePair == ASSUME Pair, IoTake PROVE Pair' /\ UNCHANGED Abstract!callVars
  <1>1. /\ UNCHANGED <<request, conn, s2c, handler, orphans, ran, drops>>
        /\ io = Nobody /\ inbox # <<>> /\ io' = Head(inbox) /\ inbox' = Tail(inbox)
        /\ c2s' = IF conn = "up" THEN Append(c2s, Head(inbox)) ELSE c2s
        /\ conn # "none"
    BY DEF IoTake, Server
  <1>2. /\ Head(inbox) \in Call /\ Has(inbox, Head(inbox))
        /\ \A j : Has(inbox', j) <=> Has(inbox, j) /\ j # Head(inbox)
    BY <1>1, TailHas DEF Pair, Inv, TypeInv, PlaceInv
  <1>3. c2s = <<>> /\ s2c = <<>> /\ handler.at = "read"
    BY <1>1 DEF Pair, WirePart
  <1>4. c2s' = <<>> \/ (c2s' = <<Head(inbox)>> /\ conn = "up")
    BY <1>1, <1>3
  <1>5. CallPart'
    BY <1>1, <1>2 DEF Pair, CallPart
  <1>6. WirePart'
    <2>1. \A k \in 1 .. Len(c2s') : c2s'[k] = io'
      BY <1>1, <1>4
    <2> QED  BY <1>1, <1>2, <1>3, <1>4, <2>1, NobodyAssumption DEF WirePart
  <1>7. LinePart'
    BY <1>1, <1>3 DEF LinePart
  <1>8. OrphanPart'
    <2>1. orphans \subseteq Call
      BY DEF Pair, Inv, TypeInv
    <2> QED  BY <1>1, <2>1, NobodyAssumption DEF Pair, OrphanPart
  <1>9. UNCHANGED Abstract!callVars
    BY <1>1 DEF Abstract!callVars, status
  <1> QED  BY <1>5, <1>6, <1>7, <1>8, <1>9, IoTakeInv, Zenon DEF Pair

\* After the last line that concerns the call there is nothing left.
LEMMA OverPair ==
  ASSUME Pair, io \in Call, NEW by \in {Nobody, io}, NEW ans \in {"ok", "error", "lost"},
         Ends(io, ans, by), ans = "ok" => io \in ran, Inv',
         UNCHANGED <<inbox, c2s, handler, orphans, ran, drops>>, s2c' = <<>>, c2s = <<>>,
         handler.at = "read", conn' = conn \/ conn' = "none",
         \A i \in orphans : i = io => ans = "lost"
  PROVE  Pair' /\ Abstract!Move
  <1>1. /\ Abstract!Move /\ CallPart' /\ request'[io].at = "over" /\ request'[io].ans = ans
        /\ (\A j \in Call \ {io} : request'[j] = request[j]) /\ io' = Nobody
    BY EndsStatus
  <1>2. WirePart'
    BY <1>1 DEF WirePart
  <1>3. LinePart'
    BY DEF LinePart
  <1>4. OrphanPart'
    <2>1. orphans \subseteq Call
      BY DEF Pair, Inv, TypeInv
    <2>2. ASSUME NEW i \in orphans PROVE request'[i].at = "over" /\ request'[i].ans = "lost"
      <3>1. CASE i = io
        BY <1>1, <2>2, <3>1
      <3>2. CASE i # io
        BY <1>1, <2>1, <2>2, <3>2 DEF Pair, OrphanPart
      <3> QED  BY <3>1, <3>2
    <2> QED  BY <2>2 DEF OrphanPart
  <1> QED  BY <1>1, <1>2, <1>3, <1>4 DEF Pair

LEMMA ReadReplyPair == ASSUME Pair, ReadReply PROVE Pair' /\ Abstract!Move
  <1>1. PICK k \in 1 .. Len(s2c) : \E res \in Results(Head(s2c)) :
            /\ Ends(io, res, Head(s2c).id)
            /\ s2c' = SubSeq(s2c, k + 1, Len(s2c))
    BY DEF ReadReply
  <1>2. /\ io \in Call /\ Unary(io) /\ s2c \in Seq([id : Call, what : What])
        /\ UNCHANGED <<inbox, conn, c2s, handler, orphans, ran, drops>>
    BY DEF ReadReply, Pair, Inv, TypeInv, Server
  <1>3. 1 \in 1 .. Len(s2c) /\ s2c # <<>> /\ Head(s2c) = s2c[1] /\ k \in Nat
    BY <1>1, <1>2
  <1>4. /\ s2c[1].id = io /\ Len(s2c) = 1 /\ handler.at = "read"
        /\ s2c[1].what \in {"reply", "error", "refused"}
        /\ s2c[1].what = "reply" => io \in ran
    BY <1>2, <1>3 DEF Pair, LinePart
  <1>5. s2c' = <<>>
    <2>1. s2c' = SubSeq(s2c, k + 1, Len(s2c))
      BY <1>1
    <2>2. Len(s2c) = 1
      BY <1>4
    <2> QED  BY <1>2, <2>1, <2>2
  <1>6. PICK res \in Results(Head(s2c)) : Ends(io, res, Head(s2c).id)
    BY <1>1
  <1>7. res \in {"ok", "error"} /\ (res = "ok" => io \in ran)
    BY <1>6, <1>3, <1>4 DEF Results, ParseRedirect
  <1>8. c2s = <<>>
    BY <1>3 DEF Pair, WirePart
  <1>9. \A i \in orphans : i # io
    <2>1. request[io].at = "made" /\ orphans \subseteq Call
      BY <1>2, NobodyAssumption DEF Pair, CallPart, Inv, TypeInv
    <2> QED  BY <1>3, <2>1 DEF Pair, OrphanPart
  <1>10. Inv'
    BY ReadInv DEF Pair
  <1>11. Ends(io, res, io)
    BY <1>6, <1>3, <1>4
  <1> QED  BY <1>2, <1>4, <1>5, <1>7, <1>8, <1>9, <1>10, <1>11, OverPair

LEMMA ReadLastPair == ASSUME Pair, ReadLast PROVE Pair' /\ Abstract!Move
  <1>1. PICK k \in 1 .. Len(s2c) :
            /\ Ends(io, "ok", Head(s2c).id)
            /\ s2c' = SubSeq(s2c, k + 1, Len(s2c))
    BY DEF ReadLast
  <1>2. /\ io \in Call /\ s2c \in Seq([id : Call, what : What])
        /\ UNCHANGED <<inbox, conn, c2s, handler, orphans, ran, drops>>
    BY DEF ReadLast, Pair, Inv, TypeInv, Server
  <1>3. Head(s2c).what = "done"
    BY <1>2 DEF ReadLast, Pair, CallPart
  <1>4. 1 \in 1 .. Len(s2c) /\ s2c # <<>> /\ Head(s2c) = s2c[1]
    BY <1>1, <1>2
  <1>5. s2c[1].id = io /\ Len(s2c) = 1 /\ handler.at = "read" /\ io \in ran
    BY <1>3, <1>4, Zenon DEF Pair, LinePart
  <1>6. s2c' = <<>>
    BY <1>1, <1>2, <1>5
  <1>7. c2s = <<>>
    BY <1>4 DEF Pair, WirePart
  <1>8. \A i \in orphans : i # io
    <2>1. request[io].at = "made" /\ orphans \subseteq Call
      BY <1>2, NobodyAssumption DEF Pair, CallPart, Inv, TypeInv
    <2> QED  BY <1>4, <2>1 DEF Pair, OrphanPart
  <1>9. Inv'
    BY ReadInv DEF Pair
  <1>10. Ends(io, "ok", io)
    BY <1>1, <1>4, <1>5
  <1> QED  BY <1>2, <1>5, <1>6, <1>7, <1>8, <1>9, <1>10, OverPair

LEMMA ReadEofPair == ASSUME Pair, ReadEof PROVE Pair' /\ Abstract!Move
  <1>1. /\ io \in Call /\ Ends(io, "lost", Nobody) /\ s2c' = <<>>
        /\ conn = "broken" /\ conn' = "none"
        /\ UNCHANGED <<inbox, c2s, handler, orphans, ran, drops>>
    BY DEF ReadEof, Pair, Inv, TypeInv, Server, Wire
  <1>2. c2s = <<>> /\ handler.at = "read"
    BY <1>1 DEF Pair, WirePart
  <1>3. Inv'
    BY ReadInv DEF Pair
  <1> QED  BY <1>1, <1>2, <1>3, OverPair

LEMMA ReadItemPair == ASSUME Pair, ReadItem PROVE Pair' /\ UNCHANGED Abstract!callVars
  <1>1. /\ UNCHANGED <<request, inbox, io, conn, c2s, handler, orphans, ran, drops>>
        /\ s2c # <<>> /\ s2c' = Tail(s2c) /\ io \in Call /\ ~Unary(io)
        /\ s2c \in Seq([id : Call, what : What])
    BY DEF ReadItem, Server, Pair, Inv, TypeInv
  <1>2. /\ Len(s2c') = Len(s2c) - 1 /\ Len(s2c) \in Nat
        /\ \A k \in 1 .. Len(s2c') : s2c'[k] = s2c[k + 1] /\ k + 1 \in 1 .. Len(s2c)
    BY <1>1
  <1>3. CallPart'
    BY <1>1, Zenon DEF Pair, CallPart, Has
  <1>4. WirePart'
    BY <1>1, NobodyAssumption DEF Pair, WirePart, Unary
  <1>5. ASSUME NEW k \in 1 .. Len(s2c')
        PROVE  /\ s2c'[k].id = io
               /\ s2c'[k].what = "done" => k = Len(s2c') /\ handler.at = "read"
               /\ s2c'[k].what \in {"done", "reply"} => io \in ran
    <2>1. s2c'[k] = s2c[k + 1] /\ k + 1 \in 1 .. Len(s2c)
      BY <1>2
    <2>2. /\ s2c[k + 1].id = io
          /\ s2c[k + 1].what = "done" => k + 1 = Len(s2c) /\ handler.at = "read"
          /\ s2c[k + 1].what \in {"done", "reply"} => io \in ran
      BY <2>1 DEF Pair, LinePart
    <2>3. k + 1 = Len(s2c) => k = Len(s2c')
      BY <1>2
    <2> QED  BY <2>1, <2>2, <2>3
  <1>6. LinePart'
    BY <1>1, <1>5 DEF LinePart, Unary
  <1>7. OrphanPart'
    BY <1>1 DEF Pair, OrphanPart
  <1>8. UNCHANGED Abstract!callVars
    BY <1>1 DEF Abstract!callVars, status
  <1> QED  BY <1>3, <1>4, <1>6, <1>7, <1>8, ReadInv DEF Pair

\* What the handler's steps leave alone.
LEMMA ClientKept ==
  ASSUME Pair, UNCHANGED clientVars PROVE CallPart' /\ status' = status /\ (\A i : Unary(i)' = Unary(i))
  BY DEF Pair, CallPart, clientVars, Has, status, Unary

LEMMA TakeRequestPair == ASSUME Pair, TakeRequest PROVE Pair' /\ UNCHANGED Abstract!callVars
  <1>1. /\ UNCHANGED <<clientVars, conn, s2c, orphans, ran>>
        /\ conn = "up" /\ c2s # <<>> /\ c2s' = Tail(c2s)
        /\ handler' = [at |-> "run", id |-> Head(c2s)]
    BY DEF TakeRequest
  <1>2. c2s \in Seq(Call) /\ Distinct(c2s)
    BY DEF Pair, Inv, TypeInv, PlaceInv
  <1>3. /\ \A k \in 1 .. Len(c2s) : c2s[k] = io
        /\ s2c = <<>> /\ io # Nobody
    BY <1>1 DEF Pair, WirePart
  <1>4. Len(c2s) = 1
    <2>1. 1 \in 1 .. Len(c2s) /\ Len(c2s) \in 1 .. Len(c2s)
      BY <1>1, <1>2
    <2> QED  BY <1>2, <1>3, <2>1, Zenon DEF Distinct
  <1>5. c2s' = <<>> /\ Head(c2s) = io
    BY <1>1, <1>2, <1>3, <1>4
  <1>6. handler'.at = "run" /\ handler'.id = io /\ io' = io
    BY <1>1, <1>5 DEF clientVars
  <1>7. WirePart'
    BY <1>1, <1>3, <1>5, <1>6 DEF WirePart
  <1>8. LinePart'
    BY <1>1, <1>3 DEF LinePart
  <1>9. OrphanPart'
    BY <1>1 DEF Pair, OrphanPart, clientVars
  <1>10. Inv'
    BY TakeRequestInv DEF Pair
  <1> QED  BY <1>1, <1>7, <1>8, <1>9, <1>10, ClientKept DEF Pair, Abstract!callVars

\* A request in the hands of the handler.
LEMMA InHand ==
  ASSUME Pair, handler.at = "run"
  PROVE  /\ handler.id = io /\ io \in Call /\ s2c = <<>> /\ c2s = <<>>
         /\ conn # "none" /\ conn # "broken" /\ io \notin ran /\ io \notin orphans
         /\ status[io] = "made"
  <1>1. handler.id = io /\ io \in Call /\ s2c = <<>>
    BY DEF Pair, WirePart, Inv, TypeInv
  <1>2. c2s = <<>> /\ conn # "none" /\ conn # "broken"
    BY <1>1, NobodyAssumption DEF Pair, WirePart
  <1>3. io \notin ran /\ io \notin orphans
    BY <1>1 DEF Pair, Inv, PlaceInv, Once, Running
  <1>4. request[io].at = "made"
    BY <1>1, NobodyAssumption DEF Pair, CallPart
  <1> QED  BY <1>1, <1>2, <1>3, <1>4 DEF status

LEMMA DispatchPair == ASSUME Pair, Dispatch PROVE Pair' /\ [Abstract!Move]_Abstract!callVars
  <1>1. /\ UNCHANGED <<clientVars, conn, c2s, orphans>> /\ handler.at = "run"
        /\ ran' = IF Executes(handler.id) THEN ran \cup {handler.id} ELSE ran
        /\ handler' = Reading
    BY DEF Dispatch
  <1>2. PICK what \in {"reply", "error", "refused"} :
            /\ what = "reply" => Executes(handler.id)
            /\ s2c' = Append(s2c, Line(handler.id, what))
    BY DEF Dispatch
  <1>3. what \in {"reply", "error", "refused"} /\ what # "done"
    OBVIOUS
  <1>4. /\ handler.id = io /\ io \in Call /\ s2c = <<>> /\ c2s = <<>>
        /\ conn # "none" /\ conn # "broken" /\ io \notin ran /\ io \notin orphans
        /\ status[io] = "made" /\ io' = io /\ io # Nobody
    BY <1>1, InHand, NobodyAssumption DEF clientVars
  <1>5. s2c' = <<Line(io, what)>>
    BY <1>2, <1>4
  <1>6. handler'.at = "read"
    BY <1>1 DEF Reading
  <1>7. WirePart'
    <2>1. c2s' = <<>> /\ conn' = conn
      BY <1>1, <1>4
    <2> QED  BY <1>4, <1>6, <2>1 DEF WirePart
  <1>8. Len(s2c') = 1 /\ s2c'[1].id = io /\ s2c'[1].what = what
    BY <1>5 DEF Line
  <1>9. what = "reply" => io \in ran'
    BY <1>1, <1>2, <1>4
  <1>10. LinePart'
    <2>1. \A k : k \in 1 .. Len(s2c') <=> k = 1
      BY <1>8
    <2>2. io' = io
      BY <1>4
    <2> QED  BY <1>3, <1>6, <1>8, <1>9, <2>1, <2>2 DEF LinePart
  <1>11. OrphanPart'
    BY <1>1, <1>4 DEF Pair, OrphanPart, clientVars
  <1>12. CallPart' /\ status' = status
    BY <1>1, ClientKept
  <1>13. [Abstract!Move]_Abstract!callVars
    <2>1. CASE Executes(handler.id)
      BY <1>1, <1>4, <1>12, <2>1 DEF Abstract!Move, Abstract!Execute
    <2>2. CASE ~Executes(handler.id)
      BY <1>1, <1>12, <2>2 DEF Abstract!callVars
    <2> QED  BY <2>1, <2>2
  <1>14. Inv'
    BY DispatchInv DEF Pair
  <1> QED  BY <1>7, <1>10, <1>11, <1>12, <1>13, <1>14 DEF Pair

LEMMA OpenStreamPair == ASSUME Pair, OpenStream PROVE Pair' /\ Abstract!Move
  <1>1. /\ UNCHANGED <<clientVars, conn, c2s, s2c, orphans>> /\ handler.at = "run"
        /\ request[handler.id].kind = "stream"
        /\ ran' = ran \cup {handler.id}
        /\ handler' = [handler EXCEPT !.at = "stream"]
    BY DEF OpenStream, Wire
  <1>2. /\ handler.id = io /\ io \in Call /\ s2c = <<>> /\ c2s = <<>>
        /\ conn # "none" /\ conn # "broken" /\ io \notin ran /\ io \notin orphans
        /\ status[io] = "made" /\ io' = io /\ io # Nobody
    BY <1>1, InHand, NobodyAssumption DEF clientVars
  <1>3. handler'.at = "stream" /\ handler'.id = io
    BY <1>1, <1>2 DEF Pair, Inv, TypeInv
  <1>4. CallPart' /\ status' = status /\ ~Unary(io)'
    BY <1>1, <1>2, ClientKept DEF Unary
  <1>5. WirePart'
    BY <1>1, <1>2, <1>3, <1>4 DEF WirePart, Unary
  <1>6. LinePart'
    BY <1>1, <1>2 DEF LinePart
  <1>7. OrphanPart'
    BY <1>1, <1>2 DEF Pair, OrphanPart, clientVars
  <1>8. Abstract!Move
    BY <1>1, <1>2, <1>4 DEF Abstract!Move, Abstract!Execute
  <1>9. Inv'
    BY DispatchInv DEF Pair
  <1> QED  BY <1>4, <1>5, <1>6, <1>7, <1>8, <1>9 DEF Pair

\* While a stream is open its lines are items.
LEMMA InStream ==
  ASSUME Pair, handler.at = "stream"
  PROVE  /\ handler.id = io /\ io \in Call /\ io # Nobody /\ ~Unary(io) /\ io \in ran
         /\ c2s = <<>> /\ conn # "none" /\ conn # "broken"
         /\ \A k \in 1 .. Len(s2c) : s2c[k].id = io /\ s2c[k].what # "done"
  <1>1. handler.id = io /\ io \in Call /\ ~Unary(io) /\ io \in ran
    BY DEF Pair, WirePart, Inv, TypeInv
  <1>2. io # Nobody
    BY <1>1, NobodyAssumption
  <1>3. c2s = <<>> /\ conn # "none" /\ conn # "broken"
    BY <1>2 DEF Pair, WirePart
  <1>4. \A k \in 1 .. Len(s2c) : s2c[k].id = io /\ s2c[k].what # "done"
    BY DEF Pair, LinePart
  <1> QED  BY <1>1, <1>2, <1>3, <1>4

\* An item that reads "done" spoils the connection.
LEMMA DoneSpoils ==
  ASSUME HistoryInv, NEW text \in Texts, StreamItem(text), handler.id \in Call, ~spoiled'
  PROVE  text # "done"
  <1>1. PICK h, s : h = handler.id /\ s = items[h]
    BY Zenon
  <1>2. s \in Seq(Texts) /\ items' = [items EXCEPT ![h] = Append(s, text)] /\ h \in Call
    BY <1>1 DEF HistoryInv, StreamItem
  <1>3. PICK t : t = Append(s, text)
    BY Zenon
  <1>4. items'[h] = t
    BY <1>2, <1>3 DEF HistoryInv
  <1>5. Len(s) + 1 \in DOMAIN t /\ t[Len(s) + 1] = text
    BY <1>2, <1>3
  <1>6. \A k \in DOMAIN t : t[k] # "done"
    BY <1>2, <1>4, Zenon DEF spoiled, Carried
  <1> QED  BY <1>5, <1>6, Zenon

LEMMA StreamPair ==
  ASSUME Pair, HistoryInv, ~spoiled', StreamEnd \/ \E text \in Texts : StreamItem(text)
  PROVE  Pair' /\ UNCHANGED Abstract!callVars
  <1>1. UNCHANGED <<clientVars, conn, c2s, orphans, ran>> /\ handler.at = "stream"
    BY DEF StreamEnd, StreamItem
  <1>2. /\ handler.id = io /\ io \in Call /\ io # Nobody /\ ~Unary(io) /\ io \in ran
        /\ c2s = <<>> /\ conn # "none" /\ conn # "broken"
        /\ \A k \in 1 .. Len(s2c) : s2c[k].id = io /\ s2c[k].what # "done"
    BY <1>1, InStream
  <1>3. CallPart' /\ status' = status /\ ~Unary(io)' /\ io' = io
    BY <1>1, <1>2, ClientKept DEF clientVars
  <1>4. handler' = Reading \/ handler' = handler
    BY DEF StreamEnd, StreamItem
  <1>5. handler'.at = "read" \/ (handler'.at = "stream" /\ handler'.id = io)
    BY <1>1, <1>2, <1>4 DEF Reading
  <1>6. WirePart'
    <2>1. c2s' = <<>> /\ conn' = conn /\ ran' = ran
      BY <1>1, <1>2
    <2> QED  BY <1>2, <1>3, <1>5, <2>1 DEF WirePart, Unary
  <1>7. LinePart'
    <2>1. \/ s2c' = s2c
          \/ \E text : /\ s2c' = Append(s2c, Line(io, text))
                       /\ text = "done" => handler' = Reading
      <3>1. ASSUME NEW text \in Texts, StreamItem(text) PROVE text # "done"
        BY <1>2, <3>1, DoneSpoils
      <3> QED  BY <1>2, <3>1 DEF StreamEnd, StreamItem
    <2>2. s2c \in Seq([id : Call, what : What]) /\ Len(s2c) \in Nat
      BY DEF Pair, Inv, TypeInv
    <2>3. CASE s2c' = s2c
      BY <1>1, <1>2, <1>3, <2>3, SMTT(20) DEF LinePart, Unary
    <2>4. CASE s2c' # s2c
      <3>1. PICK text : /\ s2c' = Append(s2c, Line(io, text))
                        /\ text = "done" => handler' = Reading
        BY <2>1, <2>4
      <3>2. /\ Len(s2c') = Len(s2c) + 1
            /\ \A k \in 1 .. Len(s2c) : s2c'[k] = s2c[k]
            /\ s2c'[Len(s2c) + 1] = Line(io, text)
        BY <2>2, <3>1
      <3>3. s2c'[Len(s2c')].id = io /\ s2c'[Len(s2c')].what = text
        BY <3>2 DEF Line
      <3>4. \A k \in 1 .. Len(s2c') : k \in 1 .. Len(s2c) \/ k = Len(s2c')
        BY <2>2, <3>2
      <3>5. text = "done" => handler'.at = "read"
        BY <3>1 DEF Reading
      <3>6. ran' = ran
        BY <1>1
      <3> QED  BY <1>2, <1>3, <3>2, <3>3, <3>4, <3>5, <3>6 DEF LinePart, Unary
    <2> QED  BY <2>3, <2>4
  <1>8. OrphanPart'
    BY <1>1, <1>2 DEF Pair, OrphanPart, clientVars
  <1>9. Inv'
    BY StreamInv DEF Pair
  <1> QED  BY <1>1, <1>3, <1>6, <1>7, <1>8, <1>9 DEF Pair, Abstract!callVars

LEMMA LosePair == ASSUME Pair, Lose PROVE Pair' /\ UNCHANGED Abstract!callVars
  <1>1. /\ UNCHANGED <<clientVars, ran>> /\ conn = "up" /\ conn' = "broken" /\ c2s' = <<>>
        /\ handler' = Reading
        /\ orphans' = IF handler.at = "run" THEN orphans \cup {handler.id} ELSE orphans
    BY DEF Lose
  <1>2. PICK l \in 0 .. Len(s2c) : s2c' = SubSeq(s2c, 1, l)
    BY DEF Lose
  <1>3. s2c \in Seq([id : Call, what : What]) /\ Len(s2c) \in Nat
    BY DEF Pair, Inv, TypeInv
  <1>4. /\ Len(s2c') = l /\ l <= Len(s2c)
        /\ \A k \in 1 .. l : s2c'[k] = s2c[k] /\ k \in 1 .. Len(s2c)
        /\ s2c = <<>> => s2c' = <<>>
    BY <1>2, <1>3
  <1>5. CallPart' /\ status' = status /\ io' = io /\ Unary(io)' = Unary(io)
    BY <1>1, ClientKept DEF clientVars
  <1>6. handler'.at = "read"
    BY <1>1 DEF Reading
  <1>7. WirePart'
    <2>1. io = Nobody => s2c' = <<>>
      BY <1>4 DEF Pair, WirePart
    <2> QED  BY <1>1, <1>5, <1>6, <2>1 DEF WirePart
  <1>8. LinePart'
    <2>1. ASSUME NEW k \in 1 .. l
          PROVE  /\ s2c'[k].id = io
                 /\ s2c'[k].what = "done" => k = l
                 /\ s2c'[k].what \in {"done", "reply"} => io \in ran
                 /\ Unary(io) => l = 1 /\ s2c'[k].what \in {"reply", "error", "refused"}
      <3>1. s2c'[k] = s2c[k] /\ k \in 1 .. Len(s2c)
        BY <1>4, <2>1
      <3>2. /\ s2c[k].id = io
            /\ s2c[k].what = "done" => k = Len(s2c)
            /\ s2c[k].what \in {"done", "reply"} => io \in ran
            /\ Unary(io) => Len(s2c) = 1 /\ s2c[k].what \in {"reply", "error", "refused"}
        BY <3>1 DEF Pair, LinePart
      <3>3. (k = Len(s2c) => k = l) /\ (Len(s2c) = 1 => l = 1)
        BY <1>3, <1>4, <2>1
      <3> QED  BY <3>1, <3>2, <3>3
    <2>2. ran' = ran
      BY <1>1
    <2> QED  BY <1>4, <1>5, <1>6, <2>1, <2>2 DEF LinePart
  <1>9. OrphanPart'
    <2>1. \A i \in orphans : request[i].at = "over" /\ request[i].ans = "lost"
      BY <1>1 DEF Pair, OrphanPart
    <2>2. handler.at = "run" => handler.id = io /\ s2c' = <<>>
      BY <1>4, InHand
    <2>3. request' = request
      BY <1>1 DEF clientVars
    <2> QED  BY <1>1, <1>5, <2>1, <2>2, <2>3 DEF OrphanPart
  <1>10. Inv'
    BY LoseInv DEF Pair
  <1> QED  BY <1>1, <1>5, <1>7, <1>8, <1>9, <1>10 DEF Pair, Abstract!callVars

LEMMA OrphanPair ==
  ASSUME Pair, NEW i \in Call, OrphanRuns(i) PROVE Pair' /\ [Abstract!Move]_Abstract!callVars
  <1>1. /\ UNCHANGED <<clientVars, conn, c2s, s2c, handler>> /\ i \in orphans
        /\ orphans' = orphans \ {i}
        /\ ran' = IF Executes(i) THEN ran \cup {i} ELSE ran
    BY DEF OrphanRuns, Wire
  <1>2. CallPart' /\ status' = status /\ io' = io /\ request' = request
    BY <1>1, ClientKept DEF clientVars
  <1>3. ran \subseteq ran'
    BY <1>1
  <1>4. WirePart'
    BY <1>1, <1>2, <1>3 DEF Pair, WirePart, Unary
  <1>5. LinePart'
    BY <1>1, <1>2, <1>3 DEF Pair, LinePart, Unary
  <1>6. OrphanPart'
    BY <1>1, <1>2 DEF Pair, OrphanPart
  <1>7. i \notin ran
    BY <1>1 DEF Pair, Inv, PlaceInv, Once
  <1>8. status[i] \in {"made", "lost"}
    <2>1. CASE i = io
      <3>1. request[i].at = "made"
        BY <2>1, NobodyAssumption DEF Pair, CallPart
      <3> QED  BY <3>1 DEF status
    <2>2. CASE i # io
      <3>1. request[i].at = "over" /\ request[i].ans = "lost"
        BY <1>1, <2>2 DEF Pair, OrphanPart
      <3> QED  BY <3>1 DEF status
    <2> QED  BY <2>1, <2>2
  <1>9. [Abstract!Move]_Abstract!callVars
    <2>1. CASE Executes(i)
      BY <1>1, <1>2, <1>7, <1>8, <2>1 DEF Abstract!Move, Abstract!Execute
    <2>2. CASE ~Executes(i)
      BY <1>1, <1>2, <2>2 DEF Abstract!callVars
    <2> QED  BY <2>1, <2>2
  <1>10. Inv'
    BY OrphanInv DEF Pair
  <1> QED  BY <1>2, <1>4, <1>5, <1>6, <1>9, <1>10 DEF Pair

LEMMA StepPair ==
  ASSUME Pair, HistoryInv, ~spoiled', [RpcNext]_rpcVars
  PROVE  Pair' /\ [Abstract!Move]_Abstract!callVars
  <1>1. CASE Elect \/ UNCHANGED rpcVars
    <2>1. UNCHANGED <<clientVars, conn, c2s, s2c, handler, orphans, ran>>
      BY <1>1 DEF Elect, rpcVars, clientVars, Wire
    <2>2. CallPart' /\ status' = status
      BY <2>1, ClientKept
    <2>3. WirePart' /\ LinePart' /\ OrphanPart'
      BY <2>1 DEF Pair, WirePart, LinePart, OrphanPart, clientVars, Unary
    <2>4. Inv'
      BY StepInv DEF Pair
    <2> QED  BY <2>1, <2>2, <2>3, <2>4 DEF Pair, Abstract!callVars
  <1>2. ASSUME NEW i \in Call PROVE ~DropReceiver(i)
    <2>1. DropReceiver(i) => drops' = drops + 1
      BY Zenon DEF DropReceiver
    <2> QED  BY <2>1 DEF HistoryInv, spoiled
  <1> QED  BY <1>1, <1>2, MakePair, OrphanPair, StreamPair, ConnectPair, IoTakePair,
              ReadReplyPair, ReadItemPair, ReadLastPair, ReadEofPair, TakeRequestPair,
              DispatchPair, OpenStreamPair, LosePair DEF RpcNext, ClientIo, ServerIo

-----------------------------------------------------------------------------
(* What holds on a spoiled connection too.                                 *)

LEMMA HistoryItem ==
  ASSUME Inv, HistoryInv, NEW text \in Texts, StreamItem(text)
  PROVE  HistoryInv' /\ (spoiled => spoiled')
  <1>1. handler.id \in Call /\ drops' = drops /\ got' = got
    BY DEF Inv, TypeInv, StreamItem, clientVars
  <1>2. PICK h, t : h = handler.id /\ t = Append(items[h], text)
    BY Zenon
  <1>3. h \in Call /\ items' = [items EXCEPT ![h] = t] /\ items[h] \in Seq(Texts)
    BY <1>1, <1>2 DEF StreamItem, HistoryInv
  <1>4. t \in Seq(Texts) /\ \A k \in DOMAIN items[h] : k \in DOMAIN t /\ t[k] = items[h][k]
    BY <1>2, <1>3
  <1>5. HistoryInv'
    BY <1>1, <1>3, <1>4 DEF HistoryInv
  <1>6. ASSUME NEW i \in Call PROVE items'[i] = IF i = h THEN t ELSE items[i]
    BY <1>3, Zenon DEF HistoryInv
  <1>7. Carried("done") => Carried("done")'
    BY <1>4, <1>6, Zenon DEF Carried
  <1> QED  BY <1>1, <1>5, <1>7, Zenon DEF spoiled

LEMMA HistoryStep ==
  ASSUME Inv, HistoryInv, [RpcNext]_rpcVars PROVE HistoryInv' /\ (spoiled => spoiled')
  <1>1. ASSUME UNCHANGED <<items, drops>>, got' = got PROVE HistoryInv' /\ (spoiled => spoiled')
    BY <1>1, Zenon DEF HistoryInv, spoiled, Carried
  <1>2. ASSUME NEW i \in Call, DropReceiver(i) PROVE HistoryInv' /\ (spoiled => spoiled')
    <2>1. drops' = drops + 1 /\ items' = items /\ got' = got
      BY <1>2, Zenon DEF DropReceiver, Server
    <2>2. HistoryInv' /\ drops' > 0
      BY <2>1 DEF HistoryInv
    <2> QED  BY <2>2, Zenon DEF spoiled
  <1>3. ASSUME NEW i \in Call, NEW kind \in Kinds, Make(i, kind) PROVE HistoryInv' /\ (spoiled => spoiled')
    BY <1>1, <1>3, Zenon DEF Make, Server
  <1>4. ASSUME NEW i \in Call, OrphanRuns(i) PROVE HistoryInv' /\ (spoiled => spoiled')
    BY <1>1, <1>4, Zenon DEF OrphanRuns, clientVars
  <1>5. CASE Connect \/ IoTake \/ ReadReply \/ ReadLast \/ ReadEof
    BY <1>1, <1>5, Zenon DEF Connect, IoTake, ReadReply, ReadLast, ReadEof, Server
  <1>6. CASE ReadItem
    <2>1. UNCHANGED <<items, drops>> /\ io \in Call /\ s2c # <<>> /\ s2c \in Seq([id : Call, what : What])
      BY <1>6 DEF ReadItem, Server, Inv, TypeInv
    <2>2. PICK x : x = Head(s2c).what
      BY Zenon
    <2>3. x \in What
      <3>1. PICK e : e = Head(s2c)
        BY Zenon
      <3>2. e \in [id : Call, what : What]
        BY <2>1, <3>1, NextOf, Zenon
      <3> QED  BY <2>2, <3>1, <3>2
    <2>4. PICK t : t = Append(got[io], x)
      BY Zenon
    <2>5. t \in Seq(What)
      BY <2>1, <2>3, <2>4 DEF HistoryInv
    <2>6. got' = got \/ got' = [got EXCEPT ![io] = t]
      BY <1>6, <2>2, <2>4, Zenon DEF ReadItem
    <2>7. got' \in [Call -> Seq(What)]
      BY <2>5, <2>6, Zenon DEF HistoryInv
    <2> QED  BY <2>1, <2>7, Zenon DEF HistoryInv, spoiled, Carried
  <1>7. CASE ServerIo
    BY <1>1, <1>7, Zenon DEF ServerIo, TakeRequest, Dispatch, OpenStream, StreamEnd, clientVars
  <1>8. CASE Lose \/ Elect
    BY <1>1, <1>8, Zenon DEF Lose, Elect, clientVars
  <1>9. CASE UNCHANGED rpcVars
    BY <1>1, <1>9, Zenon DEF rpcVars
  <1> QED  BY <1>2, <1>3, <1>4, <1>5, <1>6, <1>7, <1>8, <1>9, HistoryItem, Zenon DEF RpcNext, ClientIo

\* Only an item or a dropped receiver spoils the connection, and neither is
\* an answer.
LEMMA SpoilStep ==
  ASSUME ~spoiled, spoiled', [RpcNext]_rpcVars, Inv PROVE UNCHANGED Abstract!callVars
  <1>1. ASSUME UNCHANGED <<items, drops>> PROVE FALSE
    BY <1>1, Zenon DEF spoiled, Carried
  <1>2. \/ \E i \in Call : DropReceiver(i)
        \/ \E text \in Texts : StreamItem(text)
    BY <1>1, Zenon
       DEF RpcNext, ClientIo, ServerIo, Make, OrphanRuns, Connect, IoTake, ReadReply, ReadItem, ReadLast,
           ReadEof, TakeRequest, Dispatch, OpenStream, StreamEnd, Lose, Elect, Server, clientVars, rpcVars
  <1>3. ASSUME NEW text \in Texts, StreamItem(text) PROVE UNCHANGED Abstract!callVars
    BY <1>3, Zenon DEF StreamItem, clientVars, Abstract!callVars, status
  <1>4. ASSUME NEW i \in Call, DropReceiver(i) PROVE UNCHANGED Abstract!callVars
    <2>1. request' = [request EXCEPT ![i].at = "dropped"] /\ request[i].at = "made" /\ ran' = ran
      BY <1>4, Zenon DEF DropReceiver, Server
    <2>2. request \in [Call -> Status] /\ request[i] \in Status
      BY DEF Inv, TypeInv
    <2>3. request'[i].at = "dropped" /\ \A j \in Call \ {i} : request'[j] = request[j]
      BY <2>1, <2>2 DEF Status
    <2>4. status' = status
      BY <2>1, <2>3 DEF status
    <2> QED  BY <2>1, <2>4, Zenon DEF Abstract!callVars
  <1> QED  BY <1>2, <1>3, <1>4, Zenon

\* A call that is waiting, or that io_loop is busy with, has no answer yet.
Waiting(i) == request[i].at = "made" \/ request[i].at = "dropped"
WaitPart ==
    /\ \A i \in Call : Has(inbox, i) => Waiting(i) /\ i # io
    /\ io # Nobody => Waiting(io)

LEMMA EndsWaiting ==
  ASSUME Inv, WaitPart, io \in Call, NEW ans \in {"ok", "error", "lost"}, NEW by, Ends(io, ans, by),
         inbox' = inbox, ran' = ran
  PROVE  WaitPart' /\ (spoiled => Abstract!Move)
  <1>1. request \in [Call -> Status] /\ request[io] \in Status
    BY DEF Inv, TypeInv
  <1>2. request'[io] = [request[io] EXCEPT !.at = "over", !.ans = ans, !.by = by]
    BY <1>1 DEF Ends
  <1>3. request'[io].at = "over" /\ request'[io].ans = ans
    BY <1>1, <1>2 DEF Status
  <1>4. io' = Nobody /\ \A j \in Call \ {io} : request'[j] = request[j]
    BY <1>1 DEF Ends
  <1>5. Waiting(io)
    BY NobodyAssumption, Zenon DEF WaitPart
  <1>6. status[io] = "made" /\ status' = [status EXCEPT ![io] = ans]
    BY <1>1, <1>3, <1>4, <1>5, Zenon DEF status, Waiting
  <1>7. spoiled => Abstract!Move
    BY <1>6, Zenon DEF Abstract!Move, Abstract!Answer
  <1>8. ASSUME NEW j \in Call, Has(inbox', j) PROVE Waiting(j)' /\ j # io'
    <2>1. Has(inbox, j) /\ j # io /\ Waiting(j)
      BY <1>8, Zenon DEF WaitPart
    <2>2. request'[j] = request[j]
      BY <1>4, <2>1, Zenon
    <2>3. j # Nobody
      BY NobodyAssumption
    <2> QED  BY <1>4, <2>1, <2>2, <2>3, Zenon DEF Waiting
  <1> QED  BY <1>4, <1>7, <1>8, Zenon DEF WaitPart

\* Steps that leave the calls alone.
LEMMA WaitKept ==
  ASSUME WaitPart, UNCHANGED <<request, inbox, io>> PROVE WaitPart' /\ status' = status
  BY Zenon DEF WaitPart, Waiting, Has, status

LEMMA RunsMove ==
  ASSUME Inv, spoiled, NEW i \in Call, Running(i) \/ i \in orphans, ran' = ran \cup {i}, status' = status
  PROVE  Abstract!Move
  <1>1. i \notin ran /\ request[i].at # "new"
    BY Zenon DEF Inv, PlaceInv, Once, Fresh
  <1>2. status[i] # "new"
    <2>1. request[i] \in Status
      BY SMTT(20) DEF Inv, TypeInv
    <2>2. request[i].ans # "new"
      BY <2>1 DEF Status
    <2> QED  BY <1>1, <2>2 DEF status
  <1> QED  BY <1>1, <1>2, Zenon DEF Abstract!Move, Abstract!Execute

\* A line that a call is answered with is no redirect.
Plain == "not_leader" \notin Texts

LEMMA ResultOf ==
  ASSUME Plain, Inv, s2c # <<>>, NEW res \in Results(Head(s2c)) PROVE res \in {"ok", "error"}
  <1>1. PICK e : e = Head(s2c)
    BY Zenon
  <1>2. e \in [id : Call, what : What]
    <2>1. s2c \in Seq([id : Call, what : What])
      BY Zenon DEF Inv, TypeInv
    <2> QED  BY <1>1, <2>1, NextOf, Zenon
  <1>3. e.what # "not_leader"
    BY <1>2 DEF What, Plain
  <1> QED  BY <1>1, <1>3 DEF Results, ParseRedirect

LEMMA WaitStep ==
  ASSUME Plain, Inv, WaitPart, [RpcNext]_rpcVars
  PROVE  WaitPart' /\ (spoiled => [Abstract!Move]_Abstract!callVars)
  <1> DEFINE Goal == WaitPart' /\ (spoiled => [Abstract!Move]_Abstract!callVars)
  <1>1. ASSUME UNCHANGED <<request, inbox, io>>, ran' = ran PROVE Goal
    BY <1>1, WaitKept, Zenon DEF Abstract!callVars
  <1>2. ASSUME UNCHANGED <<request, inbox, io>>, NEW i \in Call, Running(i) \/ i \in orphans, ran' = ran \cup {i}
        PROVE  Goal
    BY <1>2, WaitKept, RunsMove, Zenon
  <1>3. ASSUME NEW i \in Call, NEW kind \in Kinds, Make(i, kind) PROVE Goal
    <2>1. /\ request[i].at = "new" /\ request' = [request EXCEPT ![i].at = "made", ![i].kind = kind]
          /\ inbox' = Append(inbox, i) /\ io' = io /\ ran' = ran
      BY <1>3, Zenon DEF Make, Server
    <2>2. request \in [Call -> Status] /\ request[i] \in Status /\ inbox \in Seq(Call)
      BY DEF Inv, TypeInv
    <2>3. request'[i] = [request[i] EXCEPT !.at = "made", !.kind = kind]
      BY <2>1, <2>2
    <2>4. request'[i].at = "made" /\ \A j \in Call \ {i} : request'[j] = request[j]
      BY <2>1, <2>2, <2>3 DEF Status
    <2>5. io # i
      <3>1. "new" # "made" /\ "new" # "dropped"
        OBVIOUS
      <3> QED  BY <2>1, <3>1, NobodyAssumption, Zenon DEF WaitPart, Waiting
    <2>6. \A j : Has(inbox', j) => Has(inbox, j) \/ j = i
      BY <2>1, <2>2, AppendHas, Zenon
    <2>7. ASSUME NEW j \in Call, Has(inbox', j) PROVE Waiting(j)' /\ j # io'
      <3>1. CASE j = i
        BY <2>1, <2>4, <2>5, <3>1, Zenon DEF Waiting
      <3>2. CASE j # i
        BY <2>1, <2>4, <2>6, <2>7, <3>2, Zenon DEF Waiting, WaitPart
      <3> QED  BY <3>1, <3>2
    <2>8. io' # Nobody => Waiting(io)'
      <3>1. io \in Call \cup {Nobody}
        BY DEF Inv, TypeInv
      <3> QED  BY <2>1, <2>4, <2>5, <3>1, Zenon DEF Waiting, WaitPart
    <2>9. status[i] = "new" /\ status' = [status EXCEPT ![i] = "made"]
      <3>1. ASSUME NEW j \in Call \ {i} PROVE status'[j] = status[j]
        BY <2>4, <3>1, Zenon DEF status
      <3>2. status[i] = "new" /\ status'[i] = "made"
        BY <2>1, <2>4 DEF status
      <3>3. status' = [j \in Call |-> IF j = i THEN "made" ELSE status[j]]
        <4>1. status' = [j \in Call |-> status'[j]]
          BY Zenon DEF status
        <4> QED  BY <3>1, <3>2, <4>1
      <3>4. status = [j \in Call |-> status[j]]
        BY Zenon DEF status
      <3> QED  BY <3>2, <3>3, <3>4
    <2>10. Abstract!Move
      BY <2>1, <2>9, Zenon DEF Abstract!Move, Abstract!Make
    <2> QED  BY <2>7, <2>8, <2>10, Zenon DEF WaitPart
  <1>4. ASSUME NEW i \in Call, DropReceiver(i) PROVE Goal
    <2>1. /\ request[i].at = "made" /\ request' = [request EXCEPT ![i].at = "dropped"]
          /\ inbox' = inbox /\ io' = io /\ ran' = ran
      BY <1>4, Zenon DEF DropReceiver, Server
    <2>2. request \in [Call -> Status] /\ request[i] \in Status
      BY DEF Inv, TypeInv
    <2>3. request'[i].at = "dropped" /\ \A j \in Call \ {i} : request'[j] = request[j]
      BY <2>1, <2>2 DEF Status
    <2>4. status' = status
      BY <2>1, <2>3 DEF status
    <2>5. ASSUME NEW j \in Call, Waiting(j) PROVE Waiting(j)'
      <3>1. j = i \/ request'[j] = request[j]
        BY <2>3, Zenon
      <3> QED  BY <2>3, <2>5, <3>1, Zenon DEF Waiting
    <2>6. io \in Call \cup {Nobody}
      BY DEF Inv, TypeInv
    <2> QED  BY <2>1, <2>4, <2>5, <2>6, Zenon DEF WaitPart, Abstract!callVars
  <1>5. CASE IoTake
    <2>1. /\ io = Nobody /\ inbox # <<>> /\ io' = Head(inbox) /\ inbox' = Tail(inbox)
          /\ request' = request /\ ran' = ran
      BY <1>5, Zenon DEF IoTake, Server
    <2>2. inbox \in Seq(Call) /\ Distinct(inbox)
      BY Zenon DEF Inv, TypeInv, PlaceInv
    <2>3. io' \in Call /\ Has(inbox, io') /\ \A j : Has(inbox', j) => Has(inbox, j) /\ j # io'
      BY <2>1, <2>2, TailHas
    <2>4. status' = status
      BY <2>1, Zenon DEF status
    <2> QED  BY <2>1, <2>3, <2>4, Zenon DEF WaitPart, Waiting, Abstract!callVars
  <1>6. ASSUME NEW ans \in {"ok", "error", "lost"}, NEW by, io # Nobody, Ends(io, ans, by), inbox' = inbox, ran' = ran
        PROVE  Goal
    <2>1. io \in Call
      BY <1>6 DEF Inv, TypeInv
    <2> QED  BY <1>6, <2>1, EndsWaiting, Zenon
  <1>7. CASE ReadReply
    <2>1. PICK k \in 1 .. Len(s2c) : \E res \in Results(Head(s2c)) : Ends(io, res, Head(s2c).id)
      BY <1>7, Zenon DEF ReadReply
    <2>2. PICK res \in Results(Head(s2c)) : Ends(io, res, Head(s2c).id)
      BY <2>1, Zenon
    <2>3. s2c # <<>> /\ io # Nobody /\ inbox' = inbox /\ ran' = ran
      <3>1. s2c \in Seq([id : Call, what : What])
        BY Zenon DEF Inv, TypeInv
      <3>2. s2c # <<>>
        BY <3>1, NotEmpty, Zenon
      <3> QED  BY <1>7, <3>2, Zenon DEF ReadReply, Server
    <2>4. res \in {"ok", "error", "lost"}
      BY <2>3, ResultOf
    <2> QED  BY <1>6, <2>2, <2>3, <2>4, Zenon
  <1>8. CASE ReadLast
    <2>1. io # Nobody /\ inbox' = inbox /\ ran' = ran /\ Ends(io, "ok", Head(s2c).id)
      BY <1>8, Zenon DEF ReadLast, Server
    <2> QED  BY <1>6, <2>1, Zenon
  <1>9. CASE ReadEof
    <2>1. io # Nobody /\ inbox' = inbox /\ ran' = ran /\ Ends(io, "lost", Nobody)
      BY <1>9, Zenon DEF ReadEof, Server
    <2> QED  BY <1>6, <2>1, Zenon
  <1>10. CASE Connect \/ ReadItem \/ TakeRequest \/ StreamEnd \/ Lose \/ Elect
    BY <1>1, <1>10, Zenon DEF Connect, ReadItem, TakeRequest, StreamEnd, Lose, Elect, Server, clientVars
  <1>11. ASSUME NEW text \in Texts, StreamItem(text) PROVE Goal
    BY <1>1, <1>11, Zenon DEF StreamItem, clientVars
  <1>12. CASE Dispatch \/ OpenStream
    <2>1. /\ UNCHANGED <<request, inbox, io>> /\ handler.at = "run"
          /\ ran' = ran \/ ran' = ran \cup {handler.id}
      BY <1>12, Zenon DEF Dispatch, OpenStream, clientVars
    <2>2. handler.id \in Call
      BY <2>1 DEF Inv, TypeInv
    <2> QED  BY <1>1, <1>2, <2>1, <2>2, Zenon DEF Running
  <1>13. ASSUME NEW i \in Call, OrphanRuns(i) PROVE Goal
    <2>1. UNCHANGED <<request, inbox, io>> /\ i \in orphans /\ (ran' = ran \/ ran' = ran \cup {i})
      BY <1>13, Zenon DEF OrphanRuns, clientVars
    <2> QED  BY <1>1, <1>2, <2>1, Zenon
  <1>14. CASE UNCHANGED rpcVars
    BY <1>1, <1>14, Zenon DEF rpcVars
  <1>15. CASE ClientIo \/ ServerIo
    BY <1>5, <1>7, <1>8, <1>9, <1>10, <1>12, <1>15, Zenon DEF ClientIo, ServerIo
  <1>16. CASE Lose \/ Elect
    BY <1>10, <1>16, Zenon
  <1>17. CASE \E i \in Call, kind \in Kinds : Make(i, kind)
    <2>1. PICK i \in Call, kind \in Kinds : Make(i, kind)
      BY <1>17, Zenon
    <2> QED  BY <1>3, <2>1
  <1>18. CASE \E i \in Call : DropReceiver(i) \/ OrphanRuns(i)
    <2>1. PICK i \in Call : DropReceiver(i) \/ OrphanRuns(i)
      BY <1>18, Zenon
    <2> QED  BY <1>4, <1>13, <2>1
  <1>19. CASE \E text \in Texts : StreamItem(text)
    <2>1. PICK text \in Texts : StreamItem(text)
      BY <1>19, Zenon
    <2> QED  BY <1>11, <2>1
  <1> HIDE DEF Goal
  <1>20. Goal
    BY <1>14, <1>15, <1>16, <1>17, <1>18, <1>19, Zenon DEF RpcNext, Goal
  <1> QED  BY <1>20 DEF Goal

-----------------------------------------------------------------------------
(* Streams.  What the receiver got, followed by the lines on their way, is *)
(* what the stream produced.                                               *)

PrefixOf(g, t) == Len(g) <= Len(t) /\ \A k \in 1 .. Len(g) : g[k] = t[k]

\* The lines s continue what was got (g) towards what was produced (t).
Fits(s, g, t) ==
    \A k \in 1 .. Len(s) :
        IF s[k].what = "done" THEN Len(t) = Len(g) + Len(s) - 1
        ELSE Len(g) + k <= Len(t) /\ s[k].what = t[Len(g) + k]

FirstIs(s, x) == x = s[1].what
NoDone(s) == \A k \in 1 .. Len(s) : s[k].what # "done"

LEMMA FitsTail ==
  ASSUME NEW S, NEW s \in Seq(S), s # <<>>, NEW W, NEW g \in Seq(W), NEW T, NEW t \in Seq(T),
         Fits(s, g, t), PrefixOf(g, t), NEW x \in W, FirstIs(s, x), x # "done"
  PROVE  /\ Fits(Tail(s), Append(g, x), t) /\ PrefixOf(Append(g, x), t)
         /\ Len(Append(g, x)) + Len(Tail(s)) = Len(g) + Len(s) /\ t # <<>>
  <1>1. /\ Len(s) \in Nat /\ Len(s) >= 1 /\ Len(Tail(s)) = Len(s) - 1
        /\ \A k \in 1 .. Len(s) - 1 : Tail(s)[k] = s[k + 1]
    OBVIOUS
  <1>2. /\ Len(g) \in Nat /\ Len(Append(g, x)) = Len(g) + 1 /\ Append(g, x)[Len(g) + 1] = x
        /\ \A k \in 1 .. Len(g) : Append(g, x)[k] = g[k]
    OBVIOUS
  <1>3. Len(t) \in Nat
    OBVIOUS
  <1>4. Len(g) + 1 <= Len(t) /\ x = t[Len(g) + 1]
    BY <1>1 DEF Fits, FirstIs
  <1>5. t # <<>>
    BY <1>2, <1>3, <1>4
  <1>6. PICK u, n : u = Append(g, x) /\ n = Tail(s)
    BY Zenon
  <1>7. Len(u) <= Len(t)
    BY <1>2, <1>4, <1>6
  <1>8. ASSUME NEW k \in 1 .. Len(u) PROVE u[k] = t[k]
    <2>1. k = Len(g) + 1 \/ k \in 1 .. Len(g)
      BY <1>2, <1>6
    <2> QED  BY <1>2, <1>4, <1>6, <2>1 DEF PrefixOf
  <1>9. ASSUME NEW k \in 1 .. Len(n)
        PROVE  IF n[k].what = "done" THEN Len(t) = Len(u) + Len(n) - 1
               ELSE Len(u) + k <= Len(t) /\ n[k].what = t[Len(u) + k]
    <2>1. k + 1 \in 1 .. Len(s) /\ n[k] = s[k + 1]
      BY <1>1, <1>6
    <2>2. IF n[k].what = "done" THEN Len(t) = Len(g) + Len(s) - 1
          ELSE Len(g) + (k + 1) <= Len(t) /\ n[k].what = t[Len(g) + (k + 1)]
      BY <2>1, Zenon DEF Fits
    <2>3. Len(u) + k = Len(g) + (k + 1) /\ Len(u) + Len(n) - 1 = Len(g) + Len(s) - 1
      BY <1>1, <1>2, <1>6
    <2> QED  BY <2>2, <2>3, Zenon
  <1>10. Len(u) + Len(n) = Len(g) + Len(s)
    BY <1>1, <1>2, <1>6
  <1> QED  BY <1>5, <1>6, <1>7, <1>8, <1>9, <1>10, Zenon DEF Fits, PrefixOf

\* One more item, before its line is written and after.
LEMMA FitsItem ==
  ASSUME NEW S, NEW s \in Seq(S), NEW W, NEW g \in Seq(W), NEW T, NEW t \in Seq(T),
         Fits(s, g, t), NoDone(s), PrefixOf(g, t), NEW x \in T
  PROVE  Fits(s, g, Append(t, x)) /\ PrefixOf(g, Append(t, x))
  <1>1. /\ Len(t) \in Nat /\ Len(Append(t, x)) = Len(t) + 1
        /\ \A k \in 1 .. Len(t) : Append(t, x)[k] = t[k]
    OBVIOUS
  <1>2. Len(g) \in Nat /\ Len(s) \in Nat
    OBVIOUS
  <1>3. PICK u : u = Append(t, x)
    BY Zenon
  <1>4. PrefixOf(g, u)
    BY <1>1, <1>2, <1>3 DEF PrefixOf
  <1>5. ASSUME NEW k \in 1 .. Len(s)
        PROVE  s[k].what # "done" /\ Len(g) + k <= Len(u) /\ s[k].what = u[Len(g) + k]
    <2>1. s[k].what # "done" /\ Len(g) + k <= Len(t) /\ s[k].what = t[Len(g) + k]
      BY Zenon DEF Fits, NoDone
    <2>2. Len(g) + k \in 1 .. Len(t) /\ Len(g) + k <= Len(u)
      BY <1>1, <1>2, <1>3, <2>1
    <2> QED  BY <1>1, <1>3, <2>1, <2>2, Zenon
  <1> QED  BY <1>3, <1>4, <1>5, Zenon DEF Fits

LEMMA FitsLine ==
  ASSUME NEW S, NEW s \in Seq(S), NEW W, NEW g \in Seq(W), NEW T, NEW t \in Seq(T),
         Fits(s, g, t), NoDone(s), NEW l \in S,
         \/ l.what = "done" /\ Len(t) = Len(g) + Len(s)
         \/ l.what # "done" /\ Len(t) = Len(g) + Len(s) + 1 /\ l.what = t[Len(t)]
  PROVE  Fits(Append(s, l), g, t)
  <1>1. /\ Len(s) \in Nat /\ Len(Append(s, l)) = Len(s) + 1 /\ Append(s, l)[Len(s) + 1] = l
        /\ \A k \in 1 .. Len(s) : Append(s, l)[k] = s[k]
    OBVIOUS
  <1>2. Len(g) \in Nat /\ Len(t) \in Nat
    OBVIOUS
  <1>3. PICK n : n = Append(s, l)
    BY Zenon
  <1>4. ASSUME NEW k \in 1 .. Len(n)
        PROVE  IF n[k].what = "done" THEN Len(t) = Len(g) + Len(n) - 1
               ELSE Len(g) + k <= Len(t) /\ n[k].what = t[Len(g) + k]
    <2>1. CASE k \in 1 .. Len(s)
      <3>1. n[k] = s[k]
        BY <1>1, <1>3, <2>1, Zenon
      <3> QED  BY <2>1, <3>1, Zenon DEF Fits, NoDone
    <2>2. CASE k = Len(s) + 1
      <3>1. n[k] = l
        BY <1>1, <1>3, <2>2, Zenon
      <3>2. CASE l.what = "done"
        <4>1. Len(t) = Len(g) + Len(n) - 1
          <5>1. Len(t) = Len(g) + Len(s)
            BY <3>2, Zenon
          <5> QED  BY <1>1, <1>2, <1>3, <5>1
        <4> QED  BY <3>1, <3>2, <4>1, Zenon
      <3>3. CASE l.what # "done"
        <4>1. Len(g) + k = Len(t) /\ Len(t) <= Len(t)
          BY <1>1, <1>2, <2>2, <3>3
        <4> QED  BY <3>1, <3>3, <4>1, Zenon
      <3> QED  BY <3>2, <3>3
    <2>3. k \in 1 .. Len(s) \/ k = Len(s) + 1
      BY <1>1, <1>3
    <2> QED  BY <2>1, <2>2, <2>3, Zenon
  <1> QED  BY <1>3, <1>4, Zenon DEF Fits

LEMMA FitsCut ==
  ASSUME NEW S, NEW s \in Seq(S), NEW W, NEW g \in Seq(W), NEW T, NEW t \in Seq(T), NEW m \in 0 .. Len(s),
         Fits(s, g, t), \A k \in 1 .. Len(s) : s[k].what = "done" => k = Len(s)
  PROVE  Fits(SubSeq(s, 1, m), g, t)
  <1>1. Len(s) \in Nat /\ m \in Nat /\ m <= Len(s)
    OBVIOUS
  <1>2. PICK n : n = SubSeq(s, 1, m)
    BY Zenon
  <1>3. Len(n) = m /\ \A k \in 1 .. m : n[k] = s[k]
    BY <1>1, <1>2
  <1>4. ASSUME NEW k \in 1 .. Len(n)
        PROVE  IF n[k].what = "done" THEN Len(t) = Len(g) + Len(n) - 1
               ELSE Len(g) + k <= Len(t) /\ n[k].what = t[Len(g) + k]
    <2>1. k \in 1 .. Len(s) /\ n[k] = s[k]
      BY <1>1, <1>3
    <2>2. n[k].what = "done" => Len(n) = Len(s)
      BY <1>1, <1>3, <2>1
    <2> QED  BY <2>1, <2>2, Zenon DEF Fits
  <1> QED  BY <1>2, <1>4, Zenon DEF Fits

IsStream(i) == request[i].kind = "stream"

\* Before its stream is opened a call has neither items nor lines.
Closed(i) ==
    /\ request[i].at = "new" => request[i].kind = "none"
    /\ i \notin ran /\ request[i].kind \in {"none", "stream"} => items[i] = <<>> /\ got[i] = <<>>

Flow(i) ==
    IsStream(i) =>
        /\ PrefixOf(got[i], items[i])
        /\ request[i].at = "over" /\ request[i].ans = "ok" => Len(got[i]) = Len(items[i])

OpenPart == handler.at = "stream" => IsStream(io) /\ Len(items[io]) = Len(got[io]) + Len(s2c)

ComingPart == io # Nobody /\ IsStream(io) => Fits(s2c, got[io], items[io])

FlowPart ==
    /\ \A i \in Call : Closed(i) /\ Flow(i)
    /\ OpenPart /\ ComingPart

LEMMA InitFlow == ASSUME RpcInit PROVE FlowPart
  <1>1. ASSUME NEW i \in Call PROVE Closed(i) /\ Flow(i)
    BY DEF RpcInit, Closed, Flow, IsStream, PrefixOf
  <1>2. OpenPart /\ ComingPart
    BY DEF RpcInit, OpenPart, ComingPart, Reading
  <1> QED  BY <1>1, <1>2, Zenon DEF FlowPart

\* Steps that leave the streams alone.
LEMMA FlowKept ==
  ASSUME FlowPart, UNCHANGED <<request, items, got>>, ran \subseteq ran', OpenPart', ComingPart'
  PROVE  FlowPart'
  <1>1. ASSUME NEW i \in Call PROVE Closed(i)' /\ Flow(i)'
    <2>1. Closed(i) /\ Flow(i) /\ (i \notin ran' => i \notin ran)
      BY Zenon DEF FlowPart
    <2> QED  BY <2>1, Zenon DEF Closed, Flow, IsStream
  <1> QED  BY <1>1, Zenon DEF FlowPart

LEMMA MakeFlow ==
  ASSUME Pair, HistoryInv, FlowPart, NEW i \in Call, NEW kind \in Kinds, Make(i, kind) PROVE FlowPart'
  <1>1. /\ request[i].at = "new" /\ request' = [request EXCEPT ![i].at = "made", ![i].kind = kind]
        /\ UNCHANGED <<io, s2c, handler, ran, items, got>>
    BY Zenon DEF Make, Server, Wire
  <1>2. request \in [Call -> Status] /\ request[i] \in Status
    BY DEF Pair, Inv, TypeInv
  <1>3. request'[i] = [request[i] EXCEPT !.at = "made", !.kind = kind]
    BY <1>1, <1>2
  <1>4. request'[i].at = "made" /\ \A j \in Call \ {i} : request'[j] = request[j]
    BY <1>1, <1>2, <1>3 DEF Status
  <1>5. i \notin ran /\ request[i].kind = "none"
    BY <1>1, Zenon DEF Pair, Inv, PlaceInv, Fresh, FlowPart, Closed
  <1>6. items[i] = <<>> /\ got[i] = <<>>
    BY <1>5, Zenon DEF FlowPart, Closed
  <1>7. io # i
    <2>1. "new" # "made"
      OBVIOUS
    <2> QED  BY <1>1, <2>1, NobodyAssumption, Zenon DEF Pair, CallPart
  <1>8. ASSUME NEW j \in Call PROVE Closed(j)' /\ Flow(j)'
    <2>1. CASE j = i
      BY <1>1, <1>4, <1>6, <2>1 DEF Closed, Flow, PrefixOf
    <2>2. CASE j # i
      <3>1. request'[j] = request[j] /\ Closed(j) /\ Flow(j)
        BY <1>4, <2>2, Zenon DEF FlowPart
      <3> QED  BY <1>1, <3>1, Zenon DEF Closed, Flow, IsStream
    <2> QED  BY <2>1, <2>2
  <1>9. io = Nobody \/ request'[io] = request[io]
    <2>1. io \in Call \cup {Nobody}
      BY Zenon DEF Pair, Inv, TypeInv
    <2> QED  BY <1>4, <1>7, <2>1, Zenon
  <1>10. OpenPart' /\ ComingPart'
    <2>1. io = Nobody => handler.at # "stream"
      BY DEF Pair, WirePart
    <2> QED  BY <1>1, <1>9, <2>1, Zenon DEF FlowPart, OpenPart, ComingPart, IsStream
  <1> QED  BY <1>8, <1>10, Zenon DEF FlowPart

\* The end of a call; an "ok" to a stream comes after its last item.
LEMMA EndsFlow ==
  ASSUME Pair, FlowPart, io \in Call, NEW ans, NEW by, Ends(io, ans, by), handler.at # "stream",
         UNCHANGED <<handler, ran, items, got>>,
         IsStream(io) /\ ans = "ok" => Len(got[io]) = Len(items[io])
  PROVE  FlowPart'
  <1>1. request \in [Call -> Status] /\ request[io] \in Status
    BY DEF Pair, Inv, TypeInv
  <1>2. PICK r, c : r = request[io] /\ c = io
    BY Zenon
  <1>3. request' = [request EXCEPT ![c] = [[[r EXCEPT !.at = "over"] EXCEPT !.ans = ans] EXCEPT !.by = by]] /\ io' = Nobody
    BY <1>1, <1>2, Zenon DEF Ends
  <1>4. request'[c].at = "over" /\ request'[c].ans = ans /\ request'[c].kind = r.kind
        /\ \A j \in Call \ {c} : request'[j] = request[j]
    BY <1>1, <1>2, <1>3 DEF Status
  <1>5. ASSUME NEW j \in Call PROVE Closed(j)' /\ Flow(j)'
    <2>0. Closed(j) /\ Flow(j)
      BY Zenon DEF FlowPart
    <2>1. CASE j = c
      <3>1. "over" # "new"
        OBVIOUS
      <3> QED  BY <1>2, <1>4, <2>0, <2>1, <3>1, Zenon DEF Closed, Flow, IsStream
    <2>2. CASE j # c
      <3>1. request'[j] = request[j]
        BY <1>4, <2>2, Zenon
      <3> QED  BY <2>0, <3>1, Zenon DEF Closed, Flow, IsStream
    <2> QED  BY <2>1, <2>2
  <1>6. OpenPart' /\ ComingPart'
    BY <1>3, Zenon DEF OpenPart, ComingPart
  <1> QED  BY <1>5, <1>6, Zenon DEF FlowPart

LEMMA ReadFlow ==
  ASSUME Pair, HistoryInv, FlowPart, ReadReply \/ ReadLast \/ ReadEof PROVE FlowPart'
  <1>1. io # Nobody /\ UNCHANGED <<handler, ran, items, got>>
    BY Zenon DEF ReadReply, ReadLast, ReadEof, Server
  <1>2. io \in Call /\ s2c \in Seq([id : Call, what : What]) /\ got[io] \in Seq(What) /\ items[io] \in Seq(Texts)
    BY <1>1 DEF Pair, Inv, TypeInv, HistoryInv
  <1>3. CASE ReadReply
    <2>1. PICK res, by : Ends(io, res, by)
      BY <1>3, Zenon DEF ReadReply
    <2>2. Unary(io)
      BY <1>3, Zenon DEF ReadReply
    <2>3. ~IsStream(io)
      BY <2>2 DEF Unary, IsStream
    <2>4. handler.at # "stream"
      BY <2>2, Zenon DEF Pair, WirePart
    <2> QED  BY <1>1, <1>2, <2>1, <2>3, <2>4, EndsFlow, Zenon
  <1>4. CASE ReadLast
    <2>1. Ends(io, "ok", Head(s2c).id) /\ ~Unary(io) /\ (Head(s2c).what = "done" \/ request[io].at = "dropped")
      BY <1>4, Zenon DEF ReadLast
    <2>2. s2c # <<>>
      BY <1>2, <1>4, NotEmpty, Zenon DEF ReadLast
    <2>3. 1 \in 1 .. Len(s2c) /\ Head(s2c) = s2c[1]
      BY <1>2, <2>2
    <2>4. s2c[1].what = "done"
      BY <1>2, <2>1, <2>3, Zenon DEF Pair, CallPart
    <2>5. Len(s2c) = 1 /\ handler.at = "read"
      BY <2>3, <2>4, Zenon DEF Pair, LinePart
    <2>6. IsStream(io) => Len(got[io]) = Len(items[io])
      <3>1. IsStream(io) => Len(items[io]) = Len(got[io]) + Len(s2c) - 1
        BY <1>1, <2>3, <2>4, Zenon DEF FlowPart, ComingPart, Fits
      <3>2. Len(got[io]) \in Nat
        BY <1>2
      <3> QED  BY <2>5, <3>1, <3>2
    <2>7. handler.at # "stream"
      BY <2>5
    <2> QED  BY <1>1, <1>2, <2>1, <2>6, <2>7, EndsFlow, Zenon
  <1>5. CASE ReadEof
    <2>1. Ends(io, "lost", Nobody) /\ conn = "broken"
      BY <1>5, Zenon DEF ReadEof
    <2>2. handler.at # "stream"
      BY <2>1 DEF Pair, WirePart
    <2>3. "lost" # "ok"
      OBVIOUS
    <2> QED  BY <1>1, <1>2, <2>1, <2>2, <2>3, EndsFlow, Zenon
  <1> QED  BY <1>3, <1>4, <1>5, Zenon

LEMMA ReadItemFlow == ASSUME Pair, HistoryInv, FlowPart, ReadItem PROVE FlowPart'
  <1>1. /\ io # Nobody /\ ~Unary(io) /\ s2c # <<>> /\ Head(s2c).what # "done" /\ s2c' = Tail(s2c)
        /\ UNCHANGED <<request, io, handler, ran, items>>
    BY Zenon DEF ReadItem, Server
  <1>2. io \in Call /\ s2c \in Seq([id : Call, what : What]) /\ got[io] \in Seq(What) /\ items[io] \in Seq(Texts)
    BY <1>1 DEF Pair, Inv, TypeInv, HistoryInv
  <1>3. PICK x, c, g : x = s2c[1].what /\ c = io /\ g = Append(got[io], x)
    BY Zenon
  <1>4. x \in What /\ Head(s2c) = s2c[1]
    <2>1. Head(s2c) = s2c[1]
      BY <1>1, <1>2
    <2>2. PICK e : e = Head(s2c)
      BY Zenon
    <2>3. e \in [id : Call, what : What]
      BY <1>1, <1>2, <2>2, NextOf, Zenon
    <2> QED  BY <1>3, <2>1, <2>2, <2>3, SMTT(20)
  <1>5. got' = [got EXCEPT ![c] = g]
    <2>1. request[io].at # "dropped"
      BY <1>2, Zenon DEF Pair, CallPart
    <2> QED  BY <1>3, <1>4, <2>1, Zenon DEF ReadItem
  <1>6. got'[c] = g /\ (\A j \in Call \ {c} : got'[j] = got[j]) /\ c \in Call
    BY <1>2, <1>3, <1>5 DEF HistoryInv
  <1>7. ASSUME IsStream(c)
        PROVE  /\ Fits(Tail(s2c), g, items[c]) /\ PrefixOf(g, items[c]) /\ items[c] # <<>>
               /\ Len(g) + Len(Tail(s2c)) = Len(got[c]) + Len(s2c) /\ request[c].at = "made"
    <2>1. Fits(s2c, got[c], items[c]) /\ PrefixOf(got[c], items[c]) /\ request[c].at = "made"
      BY <1>1, <1>2, <1>3, <1>7, Zenon DEF FlowPart, ComingPart, Flow, Pair, CallPart
    <2>2. x # "done"
      BY <1>1, <1>3, <1>4, Zenon
    <2>3. got[c] \in Seq(What) /\ items[c] \in Seq(Texts) /\ g = Append(got[c], x)
      BY <1>2, <1>3, Zenon
    <2>4. /\ Fits(Tail(s2c), Append(got[c], x), items[c]) /\ PrefixOf(Append(got[c], x), items[c])
          /\ Len(Append(got[c], x)) + Len(Tail(s2c)) = Len(got[c]) + Len(s2c) /\ items[c] # <<>>
      <3>1. s2c \in Seq([id : Call, what : What]) /\ s2c # <<>> /\ x \in What /\ FirstIs(s2c, x)
        BY <1>1, <1>2, <1>3, <1>4, Zenon DEF FirstIs
      <3> QED  BY <2>1, <2>2, <2>3, <3>1, FitsTail, Zenon
    <2> QED  BY <2>1, <2>3, <2>4, Zenon
  <1>8. ASSUME NEW j \in Call PROVE Closed(j)' /\ Flow(j)'
    <2>0. Closed(j) /\ Flow(j)
      BY Zenon DEF FlowPart
    <2>1. CASE j # c
      BY <1>1, <1>6, <2>0, <2>1, Zenon DEF Closed, Flow, IsStream
    <2>2. CASE j = c
      <3>1. "made" # "over"
        OBVIOUS
      <3>2. Flow(j)'
        BY <1>1, <1>6, <1>7, <2>2, <3>1, Zenon DEF Flow, IsStream
      <3>3. request[c].kind # "none"
        BY <1>1, <1>3 DEF Unary
      <3>4. Closed(j)'
        <4>1. request[c].kind = "stream" => c \in ran
          BY <1>7, <2>0, <2>2, Zenon DEF Closed, IsStream
        <4>2. request[c].kind \notin {"none", "stream"} \/ c \in ran
          BY <3>3, <4>1, Zenon
        <4> QED  BY <1>1, <2>0, <2>2, <4>2, Zenon DEF Closed
      <3> QED  BY <3>2, <3>4
    <2> QED  BY <2>1, <2>2
  <1>9. OpenPart'
    BY <1>1, <1>3, <1>6, <1>7, Zenon DEF FlowPart, OpenPart, IsStream
  <1>10. ComingPart'
    BY <1>1, <1>3, <1>6, <1>7, Zenon DEF ComingPart, IsStream
  <1> QED  BY <1>8, <1>9, <1>10, Zenon DEF FlowPart

LEMMA ItemFlow ==
  ASSUME Pair, HistoryInv, FlowPart, NEW text \in Texts, StreamItem(text), ~spoiled' PROVE FlowPart'
  <1>1. handler.at = "stream" /\ UNCHANGED <<request, io, ran, got>>
    BY Zenon DEF StreamItem, clientVars
  <1>2. /\ handler.id = io /\ io \in Call /\ io # Nobody /\ io \in ran
        /\ \A k \in 1 .. Len(s2c) : s2c[k].id = io /\ s2c[k].what # "done"
    BY <1>1, InStream, Zenon
  <1>3. s2c \in Seq([id : Call, what : What]) /\ got[io] \in Seq(What) /\ items[io] \in Seq(Texts)
    BY <1>2 DEF Pair, Inv, TypeInv, HistoryInv
  <1>4. PICK c, t : c = io /\ t = Append(items[io], text)
    BY Zenon
  <1>5. items' = [items EXCEPT ![c] = t]
    BY <1>2, <1>4, Zenon DEF StreamItem
  <1>6. items'[c] = t /\ (\A j \in Call \ {c} : items'[j] = items[j]) /\ c \in Call
    BY <1>2, <1>4, <1>5 DEF HistoryInv
  <1>7. /\ IsStream(c) /\ Len(items[c]) = Len(got[c]) + Len(s2c) /\ Fits(s2c, got[c], items[c])
        /\ PrefixOf(got[c], items[c]) /\ request[c].at = "made" /\ NoDone(s2c)
    BY <1>1, <1>2, <1>4, Zenon DEF FlowPart, OpenPart, ComingPart, Flow, Pair, CallPart, NoDone
  <1>8. Fits(s2c, got[c], t) /\ PrefixOf(got[c], t)
    BY <1>3, <1>4, <1>7, FitsItem, Zenon
  <1>9. ASSUME NEW j \in Call PROVE Closed(j)' /\ Flow(j)'
    <2>0. Closed(j) /\ Flow(j)
      BY Zenon DEF FlowPart
    <2>1. CASE j # c
      BY <1>1, <1>6, <2>0, <2>1, Zenon DEF Closed, Flow, IsStream
    <2>2. CASE j = c
      <3>1. "made" # "over"
        OBVIOUS
      <3> QED  BY <1>1, <1>2, <1>4, <1>6, <1>7, <1>8, <2>0, <2>2, <3>1, Zenon DEF Closed, Flow, IsStream
    <2> QED  BY <2>1, <2>2
  <1>10. CASE text = "exit"
    <2>1. handler' = Reading /\ s2c' = s2c
      BY <1>10, Zenon DEF StreamItem
    <2>2. OpenPart'
      BY <2>1 DEF OpenPart, Reading
    <2>3. ComingPart'
      BY <1>1, <1>4, <1>6, <1>8, <2>1, Zenon DEF ComingPart
    <2> QED  BY <1>9, <2>2, <2>3, Zenon DEF FlowPart
  <1>11. CASE text # "exit"
    <2>1. PICK l : l = Line(c, text)
      BY Zenon
    <2>2. handler' = handler /\ s2c' = Append(s2c, l)
      BY <1>2, <1>4, <1>11, <2>1, Zenon DEF StreamItem
    <2>3. text # "done"
      BY <1>2, DoneSpoils, Zenon
    <2>4. l.what = text /\ l \in [id : Call, what : What]
      <3>1. text \in What
        BY Zenon DEF What
      <3> QED  BY <1>6, <2>1, <3>1 DEF Line
    <2>5. t \in Seq(Texts) /\ Len(t) = Len(items[c]) + 1 /\ t[Len(t)] = text
      BY <1>3, <1>4, Longer, Zenon
    <2>6. Len(t) = Len(got[c]) + Len(s2c) + 1
      BY <1>7, <2>5, Zenon
    <2>7. Fits(Append(s2c, l), got[c], t)
      BY <1>3, <1>4, <1>7, <1>8, <2>3, <2>4, <2>5, <2>6, FitsLine, Zenon
    <2>8. Len(t) = Len(got[c]) + Len(Append(s2c, l))
      <3>1. Len(Append(s2c, l)) = Len(s2c) + 1 /\ Len(s2c) \in Nat
        BY <1>3, <2>4, Longer, Zenon
      <3>2. Len(got[c]) \in Nat
        BY <1>3, <1>4
      <3>3. PICK n, g, m : n = Len(Append(s2c, l)) /\ g = Len(got[c]) /\ m = Len(s2c)
        BY Zenon
      <3>4. n = m + 1 /\ m \in Nat /\ g \in Nat /\ Len(t) = g + m + 1
        BY <2>6, <3>1, <3>2, <3>3, Zenon
      <3>5. g + m + 1 = g + n
        BY <3>4
      <3> QED  BY <3>3, <3>4, <3>5, Zenon
    <2>9. OpenPart' /\ ComingPart'
      BY <1>1, <1>4, <1>6, <1>7, <2>2, <2>7, <2>8, Zenon DEF OpenPart, ComingPart, IsStream
    <2> QED  BY <1>9, <2>9, Zenon DEF FlowPart
  <1> QED  BY <1>10, <1>11

LEMMA EndFlow == ASSUME Pair, HistoryInv, FlowPart, StreamEnd PROVE FlowPart'
  <1>1. handler.at = "stream" /\ UNCHANGED <<request, io, ran, got, items>> /\ handler' = Reading
        /\ s2c' = Append(s2c, Line(handler.id, "done"))
    BY Zenon DEF StreamEnd, clientVars
  <1>2. /\ handler.id = io /\ io \in Call /\ io # Nobody
        /\ \A k \in 1 .. Len(s2c) : s2c[k].id = io /\ s2c[k].what # "done"
    BY <1>1, InStream, Zenon
  <1>3. s2c \in Seq([id : Call, what : What]) /\ got[io] \in Seq(What) /\ items[io] \in Seq(Texts)
    BY <1>2 DEF Pair, Inv, TypeInv, HistoryInv
  <1>4. /\ IsStream(io) /\ Len(items[io]) = Len(got[io]) + Len(s2c) /\ Fits(s2c, got[io], items[io])
        /\ NoDone(s2c)
    BY <1>1, <1>2, Zenon DEF FlowPart, OpenPart, ComingPart, NoDone
  <1>5. PICK l : l = Line(io, "done")
    BY Zenon
  <1>6. l.what = "done" /\ l \in [id : Call, what : What]
    BY <1>2, <1>5, Zenon DEF Line, What
  <1>7. Fits(Append(s2c, l), got[io], items[io])
    BY <1>3, <1>4, <1>6, FitsLine, Zenon
  <1>8. ComingPart'
    BY <1>1, <1>2, <1>5, <1>7, Zenon DEF ComingPart
  <1>9. OpenPart'
    BY <1>1 DEF OpenPart, Reading
  <1>10. ran \subseteq ran'
    BY <1>1, Zenon
  <1> QED  BY <1>1, <1>8, <1>9, <1>10, FlowKept, Zenon

LEMMA LoseFlow == ASSUME Pair, HistoryInv, FlowPart, Lose PROVE FlowPart'
  <1>1. UNCHANGED <<request, io, ran, got, items>> /\ handler' = Reading
    BY Zenon DEF Lose, clientVars
  <1>2. PICK k \in 0 .. Len(s2c) : s2c' = SubSeq(s2c, 1, k)
    BY Zenon DEF Lose
  <1>3. OpenPart'
    BY <1>1 DEF OpenPart, Reading
  <1>4. ASSUME io # Nobody, IsStream(io) PROVE Fits(SubSeq(s2c, 1, k), got[io], items[io])
    <2>1. io \in Call /\ s2c \in Seq([id : Call, what : What]) /\ got[io] \in Seq(What) /\ items[io] \in Seq(Texts)
      BY <1>4 DEF Pair, Inv, TypeInv, HistoryInv
    <2>2. Fits(s2c, got[io], items[io]) /\ \A m \in 1 .. Len(s2c) : s2c[m].what = "done" => m = Len(s2c)
      BY <1>4, Zenon DEF FlowPart, ComingPart, Pair, LinePart
    <2> QED  BY <2>1, <2>2, FitsCut, Zenon
  <1>5. ComingPart'
    BY <1>1, <1>2, <1>4, Zenon DEF ComingPart, IsStream
  <1>6. ran \subseteq ran'
    BY <1>1, Zenon
  <1> QED  BY <1>1, <1>3, <1>5, <1>6, FlowKept, Zenon

LEMMA OpenFlow == ASSUME Pair, FlowPart, OpenStream PROVE FlowPart'
  <1>1. /\ handler.at = "run" /\ request[handler.id].kind = "stream"
        /\ UNCHANGED <<request, io, got, items, s2c>> /\ ran' = ran \cup {handler.id}
    BY Zenon DEF OpenStream, clientVars, Wire
  <1>2. handler.id = io /\ io \in Call /\ s2c = <<>> /\ io \notin ran
    BY <1>1, InHand, Zenon
  <1>3. IsStream(io) /\ items[io] = <<>> /\ got[io] = <<>>
    BY <1>1, <1>2, SMTT(20) DEF FlowPart, Closed, IsStream
  <1>4. OpenPart'
    BY <1>1, <1>2, <1>3 DEF OpenPart, IsStream
  <1>5. ComingPart'
    BY <1>1, Zenon DEF FlowPart, ComingPart, IsStream
  <1>6. ran \subseteq ran'
    BY <1>1, Zenon
  <1> QED  BY <1>1, <1>4, <1>5, <1>6, FlowKept, Zenon

LEMMA FlowStep ==
  ASSUME Pair, HistoryInv, FlowPart, ~spoiled', [RpcNext]_rpcVars PROVE FlowPart'
  <1>1. ASSUME UNCHANGED <<request, items, got, io, s2c>>, ran \subseteq ran', handler' = handler \/ handler'.at # "stream"
        PROVE  FlowPart'
    <2>1. OpenPart' /\ ComingPart'
      BY <1>1, Zenon DEF FlowPart, OpenPart, ComingPart, IsStream
    <2> QED  BY <1>1, <2>1, FlowKept, Zenon
  <1>2. Reading.at # "stream"
    BY DEF Reading
  <1>3. CASE Connect
    <2>1. UNCHANGED <<request, items, got, io, ran>> /\ handler' = Reading /\ s2c' = <<>>
      BY <1>3, Zenon DEF Connect
    <2>2. OpenPart'
      BY <1>2, <2>1, Zenon DEF OpenPart
    <2>3. ComingPart'
      BY <2>1 DEF ComingPart, Fits
    <2> QED  BY <2>1, <2>2, <2>3, FlowKept, Zenon
  <1>4. CASE IoTake
    <2>1. UNCHANGED <<request, items, got, ran, handler, s2c>> /\ io = Nobody
      BY <1>4, Zenon DEF IoTake, Server
    <2>2. s2c = <<>> /\ handler.at # "stream"
      BY <2>1 DEF Pair, WirePart
    <2>3. OpenPart'
      BY <2>1, <2>2, Zenon DEF OpenPart
    <2>4. ComingPart'
      BY <2>1, <2>2 DEF ComingPart, Fits
    <2> QED  BY <2>1, <2>3, <2>4, FlowKept, Zenon
  <1>5. CASE TakeRequest
    <2>1. UNCHANGED <<request, items, got, io, s2c, ran>> /\ handler' = [at |-> "run", id |-> Head(c2s)]
      BY <1>5, Zenon DEF TakeRequest, clientVars
    <2>2. handler'.at # "stream"
      BY <2>1
    <2> QED  BY <1>1, <2>1, <2>2, Zenon
  <1>6. CASE Dispatch
    <2>1. /\ handler.at = "run" /\ request[handler.id].kind # "stream"
          /\ UNCHANGED <<request, io, got, items>> /\ handler' = Reading
          /\ ran' = ran \/ ran' = ran \cup {handler.id}
      BY <1>6, Zenon DEF Dispatch, clientVars
    <2>2. handler.id = io
      BY <2>1, InHand, Zenon
    <2>3. OpenPart'
      BY <1>2, <2>1, Zenon DEF OpenPart
    <2>4. ComingPart'
      BY <2>1, <2>2, Zenon DEF ComingPart, IsStream
    <2>5. ran \subseteq ran'
      BY <2>1, Zenon
    <2> QED  BY <2>1, <2>3, <2>4, <2>5, FlowKept, Zenon
  <1>7. ASSUME NEW i \in Call, OrphanRuns(i) PROVE FlowPart'
    <2>1. UNCHANGED <<request, io, got, items, s2c, handler>> /\ (ran' = ran \/ ran' = ran \cup {i})
      BY <1>7, Zenon DEF OrphanRuns, clientVars, Wire
    <2> QED  BY <1>1, <2>1, Zenon
  <1>8. CASE Elect \/ UNCHANGED rpcVars
    BY <1>1, <1>8, Zenon DEF Elect, clientVars, Wire, rpcVars
  <1>9. ASSUME NEW i \in Call, DropReceiver(i) PROVE FALSE
    BY <1>9 DEF DropReceiver, HistoryInv, spoiled
  <1>10. CASE ClientIo \/ ServerIo
    BY <1>3, <1>4, <1>5, <1>6, <1>10, ReadFlow, ReadItemFlow, EndFlow, OpenFlow, Zenon DEF ClientIo, ServerIo
  <1> QED  BY <1>7, <1>8, <1>9, <1>10, MakeFlow, ItemFlow, LoseFlow, Zenon DEF RpcNext

-----------------------------------------------------------------------------
(* The results.                                                            *)

Orderly == spoiled \/ (Pair /\ FlowPart)
RunInv == Inv /\ HistoryInv /\ Orderly

LEMMA InitRun == ASSUME RpcInit PROVE RunInv
  <1>1. HistoryInv
    BY DEF RpcInit, HistoryInv
  <1> QED  BY <1>1, InitPair, InitFlow, Zenon DEF RunInv, Orderly, Pair

LEMMA StepRun == ASSUME RunInv, [RpcNext]_rpcVars PROVE RunInv'
  <1>1. Inv' /\ HistoryInv' /\ (spoiled => spoiled')
    BY StepInv, HistoryStep, Zenon DEF RunInv
  <1>2. ASSUME ~spoiled' PROVE Pair' /\ FlowPart'
    BY <1>1, <1>2, StepPair, FlowStep, Zenon DEF RunInv, Orderly
  <1> QED  BY <1>1, <1>2, Zenon DEF RunInv, Orderly

\* Every reply goes to the caller of its request, although lines carry no
\* identifier and connections are replaced (client.rs:154-255), until a
\* receiver is dropped or an item reads "done".
THEOREM RepliesOwn == RpcSpec => []OwnReply
  <1>1. ASSUME RunInv PROVE OwnReply
    BY <1>1, Zenon DEF RunInv, Orderly, Pair, CallPart, OwnReply
  <1> QED  BY <1>1, InitRun, StepRun, PTL DEF RpcSpec

\* The receiver of a stream gets what the stream produced, in order, and all
\* of it if the server closed the stream, whichever lines were read together
\* and wherever connections broke (client.rs:224-255,
\* macros/src/lib.rs:249-260).
THEOREM StreamsWhole == RpcSpec => []StreamWhole
  <1>1. ASSUME RunInv PROVE StreamWhole
    <2>1. ASSUME NEW i \in Call, ~spoiled, request[i].kind = "stream"
          PROVE  /\ Len(got[i]) <= Len(items[i])
                 /\ \A k \in DOMAIN got[i] : got[i][k] = items[i][k]
                 /\ request[i].at = "over" /\ request[i].ans = "ok" => Len(got[i]) = Len(items[i])
      <3>1. DOMAIN got[i] = 1 .. Len(got[i])
        BY <1>1 DEF RunInv, HistoryInv
      <3>2. Flow(i)
        BY <1>1, <2>1, Zenon DEF RunInv, Orderly, FlowPart
      <3> QED  BY <2>1, <3>1, <3>2, Zenon DEF Flow, IsStream, PrefixOf
    <2> QED  BY <2>1, Zenon DEF StreamWhole
  <1> QED  BY <1>1, InitRun, StepRun, PTL DEF RpcSpec

LEMMA InitWait == ASSUME RpcInit PROVE WaitPart
  BY EmptyHas DEF RpcInit, WaitPart

LEMMA StepAbstract ==
  ASSUME Plain, RunInv, WaitPart, [RpcNext]_rpcVars PROVE [Abstract!Next]_Abstract!vars
  <1>1. CASE ~spoiled'
    <2>1. ~spoiled
      BY <1>1, HistoryStep, Zenon DEF RunInv
    <2>2. [Abstract!Move]_Abstract!callVars
      BY <1>1, <2>1, StepPair, Zenon DEF RunInv, Orderly
    <2>3. spoiled' = spoiled
      BY <1>1, <2>1 DEF spoiled, Carried
    <2> QED  BY <2>2, <2>3, Zenon DEF Abstract!Next, Abstract!vars, Abstract!callVars
  <1>2. CASE spoiled' /\ ~spoiled
    <2>1. UNCHANGED Abstract!callVars
      BY <1>2, SpoilStep, Zenon DEF RunInv
    <2>2. spoiled' = TRUE
      BY <1>2 DEF spoiled, Carried
    <2> QED  BY <2>1, <2>2, Zenon DEF Abstract!Next, Abstract!Spoil
  <1>3. CASE spoiled' /\ spoiled
    <2>1. [Abstract!Move]_Abstract!callVars
      BY <1>3, WaitStep, Zenon DEF RunInv
    <2>2. spoiled' = spoiled
      BY <1>3 DEF spoiled, Carried
    <2> QED  BY <2>1, <2>2, Zenon DEF Abstract!Next, Abstract!vars, Abstract!callVars
  <1> QED  BY <1>1, <1>2, <1>3

\* The protocol implements RpcCall for any calls, losses, connections and
\* streams: a request is executed at most once, a call is answered at most
\* once, and with "ok" only after its execution (client.rs:154-255,
\* server.rs:195-310).  Once the connection is spoiled an item can be taken
\* for a reply, so that no item may read like a redirect.
THEOREM RpcRefines == ASSUME Plain PROVE RpcSpec => ImplementsRpcCall
  <1> DEFINE I == RunInv /\ WaitPart
  <1>1. RpcInit => I /\ Abstract!Init
    BY InitRun, InitWait, InitPair
  <1>2. I /\ [RpcNext]_rpcVars => I' /\ [Abstract!Next]_Abstract!vars
    BY StepRun, WaitStep, StepAbstract, Zenon DEF RunInv
  <1> QED  BY <1>1, <1>2, PTL DEF RpcSpec, ImplementsRpcCall, Abstract!Spec

=============================================================================
