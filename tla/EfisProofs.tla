----------------------------- MODULE EfisProofs ------------------------------
(***************************************************************************)
(* Efis for any number of nodes, keys and commands, and whatever the       *)
(* clocks and the readers do: the nodes agree, lists are double-ended      *)
(* queues, and a set is read as the commands left it.                      *)
(***************************************************************************)
EXTENDS Efis, FiniteSetTheorems, TLAPS

-----------------------------------------------------------------------------
(* What a command does depends on the command and on the values the map    *)
(* holds, and on nothing else.  The commands committed so far therefore    *)
(* fix a ledger, the values after each of them, and every node is on it:   *)
(* its map holds the values after the commands it has finished, or those   *)
(* between the two calls of the next one.                                  *)

\* The values of a map, expiry times aside.
Values(d) == [k \in DOMAIN d |-> d[k].value]

\* After the first call of a command that makes two.
Middle(c, v) ==
    IF c.op = "Increment" THEN With(v, c.key, Plus(v[c.key], 1))
    ELSE IF c.op = "Decrement" THEN With(v, c.key, Plus(v[c.key], -1))
    ELSE IF c.op = "Lpush" \/ c.op = "Rpush" THEN With(v, c.key, List(<<>>))
    ELSE IF c.op = "Sadd" THEN With(v, c.key, SetOf({}))
    ELSE IF c.op = "Zadd" THEN With(v, c.key, SortedSet(<<>>))
    ELSE IF c.key \in DOMAIN v THEN v
    ELSE With(v, c.key, Vector(<<>>, Len(c.vecs[1].vec)))

Ok(v) == [map |-> v, res |-> OkRes]
Err(v) == [map |-> v, res |-> ErrRes]

\* The second call of the commands that fill a container.
Filled(v, k, kind, new) ==
    IF k \notin DOMAIN v THEN Err(v)
    ELSE IF v[k].kind = kind THEN Ok(With(v, k, new)) ELSE Ok(v)

Counted(v, k) == [map |-> v, res |-> IF IsText(v[k]) THEN GetRes(v[k]) ELSE ErrRes]
Removed(v, k) == IF k \in DOMAIN v THEN Ok(Without(v, k)) ELSE Err(v)
HasElement(v, k) == k \in DOMAIN v /\ v[k].kind = "list" /\ v[k].val # <<>>
Popped(v, k, rest, e) ==
    IF HasElement(v, k)
    THEN [map |-> With(v, k, List(rest)), res |-> GetRes(Number(e))]
    ELSE Err(v)

\* What a command makes of the values, and its answer.
Outcome(c, v) ==
    LET k == c.key
        m == Middle(c, v)
    IN  IF c.op = "Set" THEN Ok(With(v, k, c.value))
        ELSE IF c.op = "Delete" \/ c.op = "VDel" THEN Removed(v, k)
        ELSE IF c.op = "Increment" \/ c.op = "Decrement"
        THEN (IF k \in DOMAIN v THEN Counted(m, k) ELSE Err(v))
        ELSE IF c.op = "Expire" THEN (IF k \in DOMAIN v THEN Ok(v) ELSE Err(v))
        ELSE IF c.op = "Lpush" THEN Filled(m, k, "list", List(Reverse(c.values)))
        ELSE IF c.op = "Rpush" THEN Filled(m, k, "list", List(c.values))
        ELSE IF c.op = "Lpop" THEN Popped(v, k, Tail(v[k].val), Head(v[k].val))
        ELSE IF c.op = "Rpop" THEN Popped(v, k, Front(v[k].val), Last(v[k].val))
        ELSE IF c.op = "Sadd" THEN Filled(m, k, "set", SetOf(Range(c.values)))
        ELSE IF c.op = "Zadd"
        THEN Filled(m, k, "sorted", SortedSet([s \in {c.score} |-> c.value]))
        ELSE IF c.op = "VSet"
        THEN Filled(m, k, "vector", IF k \in DOMAIN m THEN Inserted(m[k], c.vecs) ELSE Word)
        ELSE Ok(v)

\* H[i]: the values after i commands.
Ledger(H) ==
    /\ H[0] = [k \in {} |-> Word]
    /\ \A i \in 1 .. Len(committed) : H[i] = Outcome(committed[i], H[i - 1]).map

\* increment and decrement have a second call only if they found the key.
Counts(c) == c.op = "Increment" \/ c.op = "Decrement"

\* A node with map d, finished f and answers ans, at step st of the next
\* command.  A loop that is lost is lost in its first call, unless it was
\* stuck in reading back a counter.
Place(H, coms, f, st, d, ans) ==
    /\ f \in 0 .. Len(coms)
    /\ st # "ready" => f < Len(coms)
    /\ st = "second" /\ Counts(coms[f + 1]) => coms[f + 1].key \in DOMAIN H[f]
    /\ Values(d) = IF st = "second" \/ (st = "stuck" /\ coms[f + 1].op # "VSet")
                   THEN Middle(coms[f + 1], H[f]) ELSE H[f]
    /\ Len(ans) = f
    /\ \A i \in 1 .. f : ans[i] = Outcome(coms[i], H[i - 1]).res

Items(d) == \A k \in DOMAIN d : d[k] = [value |-> d[k].value, expiry |-> d[k].expiry]
IsSeq(s) == s \in Seq(Range(s))

PerNode(g) == g = [m \in Node |-> g[m]]

EfisTypeInv ==
    /\ committed \in Seq(Cmds)
    /\ PerNode(data) /\ PerNode(finished) /\ PerNode(step) /\ PerNode(answers)
    /\ \A m \in Node : Items(data[m]) /\ IsSeq(answers[m])

OnLedger(H) ==
    \A m \in Node : Place(H, committed, finished[m], step[m], data[m], answers[m])

-----------------------------------------------------------------------------
(* The Datastore.                                                          *)

LEMMA ValuesAt == ASSUME NEW d
  PROVE DOMAIN Values(d) = DOMAIN d /\ \A k \in DOMAIN d : Values(d)[k] = d[k].value
  BY Zenon DEF Values

LEMMA ValuesWith == ASSUME NEW d, NEW k, NEW item
  PROVE Values(With(d, k, item)) = With(Values(d), k, item.value)
  <1>1. Values(With(d, k, item)) = [x \in DOMAIN d \cup {k} |-> IF x = k THEN item.value ELSE d[x].value]
    BY DEF Values, With
  <1>2. With(Values(d), k, item.value) = [x \in DOMAIN d \cup {k} |-> IF x = k THEN item.value ELSE d[x].value]
    BY DEF Values, With
  <1> QED  BY <1>1, <1>2, Zenon

LEMMA ItemsWith ==
  ASSUME NEW d, Items(d), NEW k, NEW v, NEW e
  PROVE  Items(With(d, k, [value |-> v, expiry |-> e]))
  BY DEF Items, With

LEMMA WithItem ==
  ASSUME NEW d, Items(d), NEW k, NEW v, NEW e, NEW f, f = With(d, k, [value |-> v, expiry |-> e])
  PROVE  Values(f) = With(Values(d), k, v) /\ Items(f)
  <1>1. PICK item : item = [value |-> v, expiry |-> e]
    BY Zenon
  <1>2. item.value = v
    BY <1>1
  <1>3. Values(With(d, k, item)) = With(Values(d), k, item.value)
    BY ValuesWith
  <1>4. Items(f)
    BY ItemsWith
  <1>5. f = With(d, k, item)
    BY <1>1, Zenon
  <1> QED  BY <1>2, <1>3, <1>4, <1>5, Zenon

LEMMA StoreSetValues ==
  ASSUME NEW d, Items(d), NEW k, NEW v, NEW exp, NEW now
  PROVE  /\ Values(StoreSet(d, k, v, exp, now)) = With(Values(d), k, v)
         /\ Items(StoreSet(d, k, v, exp, now))
  <1>1. PICK e : e = IF exp = Never THEN Never ELSE now + exp
    BY Zenon
  <1>2. StoreSet(d, k, v, exp, now) = With(d, k, [value |-> v, expiry |-> e])
    BY <1>1, Zenon DEF StoreSet
  <1> QED  BY <1>2, WithItem

LEMMA StoreModifyValues ==
  ASSUME NEW d, Items(d), NEW k \in DOMAIN d, NEW v
  PROVE  /\ Values(StoreModify(d, k, v)) = With(Values(d), k, v)
         /\ Items(StoreModify(d, k, v))
  <1>1. PICK e : e = d[k].expiry
    BY Zenon
  <1>2. [d[k] EXCEPT !.value = v] = [value |-> v, expiry |-> e]
    <2>1. d[k] = [value |-> d[k].value, expiry |-> d[k].expiry]
      BY Zenon DEF Items
    <2> QED  BY <1>1, <2>1
  <1>4. StoreModify(d, k, v) = With(d, k, [value |-> v, expiry |-> e])
    BY <1>2, Zenon DEF StoreModify
  <1> QED  BY <1>4, WithItem

LEMMA StoreExpireValues ==
  ASSUME NEW d, Items(d), NEW k \in DOMAIN d, NEW dur, NEW now
  PROVE  /\ Values(StoreExpire(d, k, dur, now)) = Values(d)
         /\ Items(StoreExpire(d, k, dur, now))
  <1>1. PICK e, v : e = now + dur /\ v = d[k].value
    BY Zenon
  <1>2. [d[k] EXCEPT !.expiry = e] = [value |-> v, expiry |-> e]
    <2>1. d[k] = [value |-> d[k].value, expiry |-> d[k].expiry]
      BY Zenon DEF Items
    <2> QED  BY <1>1, <2>1
  <1>4. StoreExpire(d, k, dur, now) = With(d, k, [value |-> v, expiry |-> e])
    BY <1>1, <1>2, Zenon DEF StoreExpire
  <1>5. With(Values(d), k, v) = Values(d)
    BY <1>1 DEF With, Values
  <1>6. Values(StoreExpire(d, k, dur, now)) = With(Values(d), k, v) /\ Items(StoreExpire(d, k, dur, now))
    BY <1>4, WithItem
  <1> QED  BY <1>5, <1>6, Zenon

LEMMA WithoutValues ==
  ASSUME NEW d, Items(d), NEW k
  PROVE  Values(Without(d, k)) = Without(Values(d), k) /\ Items(Without(d, k))
  <1>1. Values(Without(d, k)) = Without(Values(d), k)
    BY DEF Values, Without
  <1>2. Items(Without(d, k))
    BY Zenon DEF Items, Without
  <1> QED  BY <1>1, <1>2

\* One clause per command.
LEMMA OutcomeOf ==
  ASSUME NEW c, NEW v
  PROVE  LET k == c.key
             m == Middle(c, v)
             out == Outcome(c, v)
         IN  /\ c.op = "Set" => out = Ok(With(v, k, c.value))
             /\ c.op = "Delete" => out = Removed(v, k)
             /\ c.op = "VDel" => out = Removed(v, k)
             /\ c.op = "Increment" => out = IF k \in DOMAIN v THEN Counted(m, k) ELSE Err(v)
             /\ c.op = "Decrement" => out = IF k \in DOMAIN v THEN Counted(m, k) ELSE Err(v)
             /\ c.op = "Expire" => out = IF k \in DOMAIN v THEN Ok(v) ELSE Err(v)
             /\ c.op = "Lpush" => out = Filled(m, k, "list", List(Reverse(c.values)))
             /\ c.op = "Rpush" => out = Filled(m, k, "list", List(c.values))
             /\ c.op = "Lpop" => out = Popped(v, k, Tail(v[k].val), Head(v[k].val))
             /\ c.op = "Rpop" => out = Popped(v, k, Front(v[k].val), Last(v[k].val))
             /\ c.op = "Sadd" => out = Filled(m, k, "set", SetOf(Range(c.values)))
             /\ c.op = "Zadd" =>
                   out = Filled(m, k, "sorted", SortedSet([s \in {c.score} |-> c.value]))
             /\ c.op = "VSet" =>
                   out = Filled(m, k, "vector",
                                IF k \in DOMAIN m THEN Inserted(m[k], c.vecs) ELSE Word)
             /\ c.op = "Publish" => out = Ok(v)
  BY Zenon DEF Outcome

LEMMA MiddleOf ==
  ASSUME NEW c, NEW v
  PROVE  LET k == c.key
             m == Middle(c, v)
         IN  /\ c.op = "Increment" => m = With(v, k, Plus(v[k], 1))
             /\ c.op = "Decrement" => m = With(v, k, Plus(v[k], -1))
             /\ c.op = "Lpush" \/ c.op = "Rpush" => m = With(v, k, List(<<>>))
             /\ c.op = "Sadd" => m = With(v, k, SetOf({}))
             /\ c.op = "Zadd" => m = With(v, k, SortedSet(<<>>))
             /\ c.op = "VSet" => m = IF k \in DOMAIN v THEN v
                                     ELSE With(v, k, Vector(<<>>, Len(c.vecs[1].vec)))
  BY Zenon DEF Middle

LEMMA Parts ==
  ASSUME NEW v, NEW r
  PROVE  /\ Ok(v).map = v /\ Ok(v).res = OkRes /\ Err(v).map = v /\ Err(v).res = ErrRes
         /\ [map |-> v, res |-> r].map = v /\ [map |-> v, res |-> r].res = r
  BY DEF Ok, Err

-----------------------------------------------------------------------------
(* One call of the apply loop.                                             *)

\* The command is finished as it is in the ledger, or its first call is done.
Does(m, out) == \E d : Items(d) /\ Values(d) = out.map /\ Finish(m, d, out.res)
Begins(m, v) == \E d : Items(d) /\ Values(d) = v /\ Half(m, d)

LEMMA Looks ==
  ASSUME NEW m, NEW v, v = Values(data[m])
  PROVE  /\ Here(m) <=> Cmd(m).key \in DOMAIN v
         /\ Here(m) => Cur(m) = v[Cmd(m).key]
  BY ValuesAt, Zenon DEF Here, Cur

LEMMA FailsDoes ==
  ASSUME NEW m, NEW v, v = Values(data[m]), Items(data[m]), Fails(m) PROVE Does(m, Err(v))
  <1>1. Err(v).map = v /\ Err(v).res = ErrRes
    BY Parts, Zenon
  <1>2. Finish(m, data[m], ErrRes)
    BY Zenon DEF Fails
  <1> QED  BY <1>1, <1>2, Zenon DEF Does

LEMMA OkDoes ==
  ASSUME NEW m, NEW v, NEW d, v = Values(d), Items(d), Finish(m, d, OkRes) PROVE Does(m, Ok(v))
  <1>1. Ok(v).map = v /\ Ok(v).res = OkRes
    BY Parts, Zenon
  <1> QED  BY <1>1, Zenon DEF Does

LEMMA FillDoes ==
  ASSUME NEW m, NEW v, v = Values(data[m]), Items(data[m]), NEW kind, NEW new, Fill(m, kind, new)
  PROVE  Does(m, Filled(v, Cmd(m).key, kind, new))
  <1> DEFINE k == Cmd(m).key
  <1>1. (Here(m) <=> k \in DOMAIN v) /\ (Here(m) => Cur(m) = v[k])
    BY Looks, Zenon
  <1>2. CASE ~Here(m)
    <2>1. Fails(m)
      BY <1>2, Zenon DEF Fill
    <2>2. Filled(v, k, kind, new) = Err(v)
      BY <1>1, <1>2, Zenon DEF Filled
    <2> QED  BY <2>1, <2>2, FailsDoes, Zenon
  <1>3. CASE Here(m) /\ v[k].kind = kind
    <2>1. Finish(m, StoreModify(data[m], k, new), OkRes)
      BY <1>1, <1>3, Zenon DEF Fill
    <2>2. Values(StoreModify(data[m], k, new)) = With(v, k, new) /\ Items(StoreModify(data[m], k, new))
      <3>1. k \in DOMAIN data[m]
        BY <1>3, Zenon DEF Here
      <3> QED  BY <3>1, StoreModifyValues, Zenon
    <2>3. Filled(v, k, kind, new) = Ok(With(v, k, new))
      BY <1>1, <1>3, Zenon DEF Filled
    <2>4. Does(m, Ok(With(v, k, new)))
      BY <2>1, <2>2, OkDoes
    <2> QED  BY <2>3, <2>4, Zenon
  <1>4. CASE Here(m) /\ v[k].kind # kind
    <2>1. Finish(m, data[m], OkRes)
      BY <1>1, <1>4, Zenon DEF Fill
    <2>2. Filled(v, k, kind, new) = Ok(v)
      BY <1>1, <1>4, Zenon DEF Filled
    <2> QED  BY <2>1, <2>2, OkDoes, Zenon
  <1> QED  BY <1>2, <1>3, <1>4

LEMMA EmptiedBegins ==
  ASSUME NEW m, NEW v, v = Values(data[m]), Items(data[m]), NEW new, Emptied(m, new)
  PROVE  Begins(m, With(v, Cmd(m).key, new))
  <1>1. Half(m, StoreSet(data[m], Cmd(m).key, new, Never, clock[m]))
    BY Zenon DEF Emptied
  <1>2. /\ Values(StoreSet(data[m], Cmd(m).key, new, Never, clock[m])) = With(v, Cmd(m).key, new)
        /\ Items(StoreSet(data[m], Cmd(m).key, new, Never, clock[m]))
    BY StoreSetValues, Zenon
  <1> QED  BY <1>1, <1>2, Zenon DEF Begins

LEMMA RemoveDoes ==
  ASSUME NEW m, NEW v, v = Values(data[m]), Items(data[m]),
         IF Here(m) THEN Finish(m, Without(data[m], Cmd(m).key), OkRes) ELSE Fails(m)
  PROVE  Does(m, Removed(v, Cmd(m).key))
  <1> DEFINE k == Cmd(m).key
  <1>1. Here(m) <=> k \in DOMAIN v
    BY Looks, Zenon
  <1>2. CASE Here(m)
    <2>1. Finish(m, Without(data[m], k), OkRes) /\ Removed(v, k) = Ok(Without(v, k))
      BY <1>1, <1>2, Zenon DEF Removed
    <2>2. Values(Without(data[m], k)) = Without(v, k) /\ Items(Without(data[m], k))
      BY WithoutValues, Zenon
    <2>3. Does(m, Ok(Without(v, k)))
      BY <2>1, <2>2, OkDoes
    <2> QED  BY <2>1, <2>3, Zenon
  <1>3. CASE ~Here(m)
    <2>1. Fails(m) /\ Removed(v, k) = Err(v)
      BY <1>1, <1>3, Zenon DEF Removed
    <2> QED  BY <2>1, FailsDoes, Zenon
  <1> QED  BY <1>2, <1>3

LEMMA PopDoes ==
  ASSUME NEW m, NEW v, v = Values(data[m]), Items(data[m]), NEW rest, NEW e,
         IF Poppable(m)
         THEN Finish(m, StoreModify(data[m], Cmd(m).key, List(rest)), GetRes(Number(e)))
         ELSE Fails(m)
  PROVE  Does(m, Popped(v, Cmd(m).key, rest, e))
  <1> DEFINE k == Cmd(m).key
             out == [map |-> With(v, k, List(rest)), res |-> GetRes(Number(e))]
  <1>1. (Here(m) <=> k \in DOMAIN v) /\ (Here(m) => Cur(m) = v[k])
    BY Looks, Zenon
  <1>2. Poppable(m) <=> HasElement(v, k)
    BY <1>1, Zenon DEF Poppable, HasElement
  <1>3. CASE Poppable(m)
    <2>1. Finish(m, StoreModify(data[m], k, List(rest)), GetRes(Number(e))) /\ Popped(v, k, rest, e) = out
      BY <1>2, <1>3, Zenon DEF Popped
    <2>2. /\ Values(StoreModify(data[m], k, List(rest))) = With(v, k, List(rest))
          /\ Items(StoreModify(data[m], k, List(rest)))
      <3>1. k \in DOMAIN data[m]
        BY <1>3, Zenon DEF Poppable, Here
      <3> QED  BY <3>1, StoreModifyValues, Zenon
    <2>3. out.map = With(v, k, List(rest)) /\ out.res = GetRes(Number(e))
      BY Parts, Zenon
    <2> HIDE DEF out
    <2>4. Does(m, out)
      BY <2>1, <2>2, <2>3, Zenon DEF Does
    <2> QED  BY <2>1, <2>4, Zenon
  <1>4. CASE ~Poppable(m)
    <2>1. Fails(m) /\ Popped(v, k, rest, e) = Err(v)
      BY <1>2, <1>4, Zenon DEF Popped
    <2> QED  BY <2>1, FailsDoes, Zenon
  <1> QED  BY <1>3, <1>4

\* Before a call, old being the values after the commands finished so far.
Before(m, c, old) ==
    /\ c = Cmd(m) /\ Items(data[m])
    /\ step[m] = "ready" => Values(data[m]) = old
    /\ step[m] = "second" => /\ Values(data[m]) = Middle(c, old)
                             /\ Counts(c) => c.key \in DOMAIN old

\* What a call does.
CallDone(m, c, old) ==
    \/ Does(m, Outcome(c, old))
    \/ step[m] = "ready" /\ Begins(m, Middle(c, old)) /\ (Counts(c) => c.key \in DOMAIN old)
    \/ step[m] = "ready" /\ LoopLost(m, "panicked")
    \/ step[m] = "ready" /\ c.op = "VSet" /\ LoopLost(m, "stuck")
    \/ step[m] = "second" /\ c.op # "VSet" /\ LoopLost(m, "stuck")

LEMMA SetCall ==
  ASSUME NEW m, NEW c, NEW old, Before(m, c, old), Set(m)
  PROVE  CallDone(m, c, old)
  <1> DEFINE d == StoreSet(data[m], c.key, c.value, c.exp, clock[m])
  <1>1. c = Cmd(m) /\ Items(data[m]) /\ step[m] = "ready" /\ Values(data[m]) = old /\ c.op = "Set"
    BY Zenon DEF Before, Set, At
  <1>2. Finish(m, d, OkRes)
    BY <1>1, Zenon DEF Set
  <1>3. Values(d) = With(old, c.key, c.value) /\ Items(d)
    BY <1>1, StoreSetValues
  <1>4. Outcome(c, old) = Ok(With(old, c.key, c.value))
    BY <1>1, OutcomeOf, Zenon
  <1> HIDE DEF d
  <1>5. Does(m, Ok(With(old, c.key, c.value)))
    BY <1>2, <1>3, OkDoes
  <1> QED  BY <1>4, <1>5, Zenon DEF CallDone

LEMMA RemoveCall ==
  ASSUME NEW m, NEW c, NEW old, Before(m, c, old), DeleteKey(m) \/ Vdel(m)
  PROVE  CallDone(m, c, old)
  <1>1. /\ c = Cmd(m) /\ Items(data[m]) /\ step[m] = "ready" /\ Values(data[m]) = old
        /\ c.op = "Delete" \/ c.op = "VDel"
    BY Zenon DEF Before, DeleteKey, Vdel, At
  <1>2. IF Here(m) THEN Finish(m, Without(data[m], Cmd(m).key), OkRes) ELSE Fails(m)
    BY Zenon DEF DeleteKey, Vdel
  <1>3. Outcome(c, old) = Removed(old, c.key)
    BY <1>1, OutcomeOf, Zenon
  <1>4. Does(m, Removed(old, Cmd(m).key))
    BY <1>1, <1>2, RemoveDoes
  <1> QED  BY <1>1, <1>3, <1>4, Zenon DEF CallDone

LEMMA ExpireCall ==
  ASSUME NEW m, NEW c, NEW old, Before(m, c, old), Expire(m)
  PROVE  CallDone(m, c, old)
  <1> DEFINE d == StoreExpire(data[m], c.key, c.dur, clock[m])
  <1>1. c = Cmd(m) /\ Items(data[m]) /\ step[m] = "ready" /\ Values(data[m]) = old /\ c.op = "Expire"
    BY Zenon DEF Before, Expire, At
  <1>2. Here(m) <=> c.key \in DOMAIN old
    BY <1>1, Looks, Zenon
  <1>3. Outcome(c, old) = IF c.key \in DOMAIN old THEN Ok(old) ELSE Err(old)
    BY <1>1, OutcomeOf, Zenon
  <1>4. CASE Here(m)
    <2>1. Finish(m, d, OkRes)
      BY <1>1, <1>4, Zenon DEF Expire
    <2>2. Values(d) = old /\ Items(d)
      <3>1. c.key \in DOMAIN data[m]
        BY <1>1, <1>4, Zenon DEF Here
      <3> QED  BY <1>1, <3>1, StoreExpireValues
    <2> HIDE DEF d
    <2>3. Does(m, Ok(old))
      BY <2>1, <2>2, OkDoes
    <2> QED  BY <1>2, <1>3, <1>4, <2>3, Zenon DEF CallDone
  <1>5. CASE ~Here(m)
    <2>1. Fails(m)
      BY <1>5, Zenon DEF Expire
    <2>2. Does(m, Err(old))
      BY <1>1, <2>1, FailsDoes
    <2> QED  BY <1>2, <1>3, <1>5, <2>2, Zenon DEF CallDone
  <1> QED  BY <1>4, <1>5

LEMMA PopCall ==
  ASSUME NEW m, NEW c, NEW old, Before(m, c, old), Lpop(m) \/ Rpop(m)
  PROVE  CallDone(m, c, old)
  <1> DEFINE k == c.key
  <1>1. c = Cmd(m) /\ Items(data[m]) /\ Values(data[m]) = old /\ step[m] = "ready"
    BY Zenon DEF Before, Lpop, Rpop, At
  <1>2. Poppable(m) => Cur(m) = old[k]
    BY <1>1, Looks, Zenon DEF Poppable
  <1>3. CASE Lpop(m)
    <2>1. c.op = "Lpop"
      BY <1>1, <1>3, Zenon DEF Lpop, At
    <2>2. IF Poppable(m)
          THEN Finish(m, StoreModify(data[m], Cmd(m).key, List(Tail(old[k].val))),
                      GetRes(Number(Head(old[k].val))))
          ELSE Fails(m)
      BY <1>2, <1>3, Zenon DEF Lpop
    <2>3. Does(m, Popped(old, Cmd(m).key, Tail(old[k].val), Head(old[k].val)))
      BY <1>1, <2>2, PopDoes, Zenon
    <2>4. Outcome(c, old) = Popped(old, k, Tail(old[k].val), Head(old[k].val))
      BY <2>1, OutcomeOf, Zenon
    <2> QED  BY <1>1, <2>3, <2>4, Zenon DEF CallDone
  <1>4. CASE Rpop(m)
    <2>1. c.op = "Rpop"
      BY <1>1, <1>4, Zenon DEF Rpop, At
    <2>2. IF Poppable(m)
          THEN Finish(m, StoreModify(data[m], Cmd(m).key, List(Front(old[k].val))),
                      GetRes(Number(Last(old[k].val))))
          ELSE Fails(m)
      BY <1>2, <1>4, Zenon DEF Rpop
    <2>3. Does(m, Popped(old, Cmd(m).key, Front(old[k].val), Last(old[k].val)))
      BY <1>1, <2>2, PopDoes, Zenon
    <2>4. Outcome(c, old) = Popped(old, k, Front(old[k].val), Last(old[k].val))
      BY <2>1, OutcomeOf, Zenon
    <2> QED  BY <1>1, <2>3, <2>4, Zenon DEF CallDone
  <1> QED  BY <1>3, <1>4

LEMMA PublishCall ==
  ASSUME NEW m, NEW c, NEW old, Before(m, c, old), PublishCommand(m)
  PROVE  CallDone(m, c, old)
  <1>1. c = Cmd(m) /\ Items(data[m]) /\ Values(data[m]) = old /\ c.op = "Publish"
    BY Zenon DEF Before, PublishCommand, At
  <1>2. Finish(m, data[m], OkRes)
    BY Zenon DEF PublishCommand
  <1>3. Does(m, Ok(old))
    BY <1>1, <1>2, OkDoes
  <1>4. Outcome(c, old) = Ok(old)
    BY <1>1, OutcomeOf, Zenon
  <1> QED  BY <1>3, <1>4, Zenon DEF CallDone

LEMMA CountCall ==
  ASSUME NEW m, NEW c, NEW old, Before(m, c, old), Increment(m) \/ Decrement(m)
  PROVE  CallDone(m, c, old)
  <1> DEFINE k == c.key
             v == Values(data[m])
             mid == Middle(c, old)
  <1>1. c = Cmd(m) /\ Items(data[m])
    BY Zenon DEF Before
  <1>2. Counts(c) /\ c.op # "VSet"
    BY <1>1 DEF Increment, Decrement, At, Counts
  <1>3. (Here(m) <=> k \in DOMAIN v) /\ (Here(m) => Cur(m) = v[k])
    BY <1>1, Looks, Zenon
  <1>4. Outcome(c, old) = IF k \in DOMAIN old THEN Counted(mid, k) ELSE Err(old)
    BY <1>2, OutcomeOf, Zenon DEF Counts
  <1>5. \/ /\ step[m] = "ready"
           /\ IF Here(m) THEN \E by : Half(m, StoreModify(data[m], k, Plus(Cur(m), by)))
                                      /\ (Here(m) => mid = With(old, k, Plus(old[k], by)))
              ELSE Fails(m)
        \/ step[m] = "second" /\ ReadBack(m)
    <2>1. CASE Increment(m)
      <3>1. step[m] = "ready" => c.op = "Increment"
        BY <1>1, <2>1 DEF Increment, At
      <3>2. step[m] = "ready" => mid = With(old, k, Plus(old[k], 1))
        BY <3>1, MiddleOf, Zenon
      <3>3. "ready" # "second"
        OBVIOUS
      <3> HIDE DEF mid
      <3> QED  BY <1>1, <2>1, <3>2, <3>3, Zenon DEF Increment, At
    <2>2. CASE Decrement(m)
      <3>1. step[m] = "ready" => c.op = "Decrement"
        BY <1>1, <2>2 DEF Decrement, At
      <3>2. step[m] = "ready" => mid = With(old, k, Plus(old[k], -1))
        BY <3>1, MiddleOf, Zenon
      <3>3. "ready" # "second"
        OBVIOUS
      <3> HIDE DEF mid
      <3> QED  BY <1>1, <2>2, <3>2, <3>3, Zenon DEF Decrement, At
    <2> QED  BY <2>1, <2>2, Zenon
  <1>6. CASE step[m] = "ready" /\ Here(m)
    <2>1. v = old
      BY <1>6, Zenon DEF Before
    <2>2. PICK by : Half(m, StoreModify(data[m], k, Plus(old[k], by))) /\ mid = With(old, k, Plus(old[k], by))
      <3>1. "ready" # "second"
        OBVIOUS
      <3> QED  BY <1>3, <1>5, <1>6, <2>1, <3>1, Zenon
    <2>3. PICK new : new = Plus(old[k], by)
      BY Zenon
    <2>4. Values(StoreModify(data[m], k, new)) = With(old, k, new) /\ Items(StoreModify(data[m], k, new))
      <3>1. k \in DOMAIN data[m]
        BY <1>1, <1>6, Zenon DEF Here
      <3> QED  BY <1>1, <2>1, <3>1, StoreModifyValues, Zenon
    <2>5. k \in DOMAIN old
      BY <1>3, <1>6, <2>1, Zenon
    <2> HIDE DEF mid
    <2>6. Begins(m, mid)
      BY <2>2, <2>3, <2>4, Zenon DEF Begins
    <2> QED  BY <1>6, <2>5, <2>6, Zenon DEF CallDone, mid
  <1>7. CASE step[m] = "ready" /\ ~Here(m)
    <2>1. v = old
      BY <1>7, Zenon DEF Before
    <2>2. Fails(m)
      <3>1. "ready" # "second"
        OBVIOUS
      <3> QED  BY <1>5, <1>7, <3>1, Zenon
    <2>3. Does(m, Err(old))
      BY <1>1, <2>1, <2>2, FailsDoes
    <2> QED  BY <1>3, <1>4, <1>7, <2>1, <2>3, Zenon DEF CallDone
  <1>8. CASE step[m] = "second"
    <2>1. v = mid /\ k \in DOMAIN old
      BY <1>2, <1>8, Zenon DEF Before
    <2>2. Here(m)
      <3>1. k \in DOMAIN mid
        <4>1. \E new : mid = With(old, k, new)
          BY <1>2, MiddleOf, Zenon DEF Counts
        <4> HIDE DEF mid
        <4> QED  BY <4>1 DEF With
      <3> QED  BY <1>3, <2>1, <3>1, Zenon
    <2>3. ReadBack(m)
      <3>1. "ready" # "second"
        OBVIOUS
      <3> QED  BY <1>5, <1>8, <3>1, Zenon
    <2>4. CASE Expired(data[m], Cmd(m).key, clock[m])
      <3>1. LoopLost(m, "stuck")
        BY <2>2, <2>3, <2>4, Zenon DEF ReadBack
      <3> QED  BY <1>2, <1>8, <3>1, Zenon DEF CallDone
    <2>5. CASE ~Expired(data[m], Cmd(m).key, clock[m])
      <3>1. Finish(m, data[m], IF IsText(v[k]) THEN GetRes(v[k]) ELSE ErrRes)
        BY <1>3, <2>2, <2>3, <2>5, Zenon DEF ReadBack
      <3>2. PICK res : res = IF IsText(v[k]) THEN GetRes(v[k]) ELSE ErrRes
        BY Zenon
      <3>3. Outcome(c, old) = [map |-> v, res |-> res]
        BY <1>4, <2>1, <3>2, Zenon DEF Counted
      <3>4. Outcome(c, old).map = v /\ Outcome(c, old).res = res
        BY <3>3
      <3>5. Does(m, Outcome(c, old))
        BY <1>1, <3>1, <3>2, <3>4, Zenon DEF Does
      <3> QED  BY <3>5, Zenon DEF CallDone
    <2> QED  BY <2>4, <2>5
  <1> QED  BY <1>5, <1>6, <1>7, <1>8, Zenon

LEMMA FillCall ==
  ASSUME NEW m, NEW c, NEW old, Before(m, c, old), NEW empty, NEW kind, NEW new,
         ~Counts(c), Middle(c, old) = With(old, c.key, empty),
         Outcome(c, old) = Filled(Middle(c, old), c.key, kind, new),
         \/ step[m] = "ready" /\ Emptied(m, empty)
         \/ step[m] = "second" /\ Fill(m, kind, new)
  PROVE  CallDone(m, c, old)
  <1>1. c = Cmd(m) /\ Items(data[m])
    BY Zenon DEF Before
  <1>2. CASE step[m] = "ready" /\ Emptied(m, empty)
    <2>1. Values(data[m]) = old
      BY <1>2, Zenon DEF Before
    <2>2. Begins(m, With(old, Cmd(m).key, empty))
      BY <1>1, <1>2, <2>1, EmptiedBegins
    <2> QED  BY <1>1, <1>2, <2>2, Zenon DEF CallDone
  <1>3. CASE step[m] = "second" /\ Fill(m, kind, new)
    <2>1. Values(data[m]) = Middle(c, old)
      BY <1>3, Zenon DEF Before
    <2>2. Does(m, Filled(Middle(c, old), Cmd(m).key, kind, new))
      BY <1>1, <1>3, <2>1, FillDoes
    <2> QED  BY <1>1, <2>2, Zenon DEF CallDone
  <1> QED  BY <1>2, <1>3

LEMMA ContainerCall ==
  ASSUME NEW m, NEW c, NEW old, Before(m, c, old), Lpush(m) \/ Rpush(m) \/ Sadd(m) \/ Zadd(m)
  PROVE  CallDone(m, c, old)
  <1>1. c = Cmd(m)
    BY Zenon DEF Before
  <1>2. CASE Lpush(m)
    <2>1. c.op = "Lpush"
      BY <1>1, <1>2, Zenon DEF Lpush, At
    <2>2. PICK e, w : e = List(<<>>) /\ w = List(Reverse(c.values))
      BY Zenon
    <2>3. ~Counts(c) /\ Middle(c, old) = With(old, c.key, e)
      <3>1. ~Counts(c)
        BY <2>1 DEF Counts
      <3> QED  BY <2>1, <2>2, <3>1, MiddleOf, Zenon
    <2>4. Outcome(c, old) = Filled(Middle(c, old), c.key, "list", w)
      BY <2>1, <2>2, OutcomeOf, Zenon
    <2>5. \/ step[m] = "ready" /\ Emptied(m, e)
          \/ step[m] = "second" /\ Fill(m, "list", w)
      BY <1>1, <1>2, <2>2, Zenon DEF Lpush, At
    <2> QED  BY <2>3, <2>4, <2>5, FillCall
  <1>3. CASE Rpush(m)
    <2>1. c.op = "Rpush"
      BY <1>1, <1>3, Zenon DEF Rpush, At
    <2>2. PICK e, w : e = List(<<>>) /\ w = List(c.values)
      BY Zenon
    <2>3. ~Counts(c) /\ Middle(c, old) = With(old, c.key, e)
      <3>1. ~Counts(c)
        BY <2>1 DEF Counts
      <3> QED  BY <2>1, <2>2, <3>1, MiddleOf, Zenon
    <2>4. Outcome(c, old) = Filled(Middle(c, old), c.key, "list", w)
      BY <2>1, <2>2, OutcomeOf, Zenon
    <2>5. \/ step[m] = "ready" /\ Emptied(m, e)
          \/ step[m] = "second" /\ Fill(m, "list", w)
      BY <1>1, <1>3, <2>2, Zenon DEF Rpush, At
    <2> QED  BY <2>3, <2>4, <2>5, FillCall
  <1>4. CASE Sadd(m)
    <2>1. c.op = "Sadd"
      BY <1>1, <1>4, Zenon DEF Sadd, At
    <2>2. PICK e, w : e = SetOf({}) /\ w = SetOf(Range(c.values))
      BY Zenon
    <2>3. ~Counts(c) /\ Middle(c, old) = With(old, c.key, e)
      <3>1. ~Counts(c)
        BY <2>1 DEF Counts
      <3> QED  BY <2>1, <2>2, <3>1, MiddleOf, Zenon
    <2>4. Outcome(c, old) = Filled(Middle(c, old), c.key, "set", w)
      BY <2>1, <2>2, OutcomeOf, Zenon
    <2>5. \/ step[m] = "ready" /\ Emptied(m, e)
          \/ step[m] = "second" /\ Fill(m, "set", w)
      BY <1>1, <1>4, <2>2, Zenon DEF Sadd, At
    <2> QED  BY <2>3, <2>4, <2>5, FillCall
  <1>5. CASE Zadd(m)
    <2>1. c.op = "Zadd"
      BY <1>1, <1>5, Zenon DEF Zadd, At
    <2>2. PICK e, w : e = SortedSet(<<>>) /\ w = SortedSet([s \in {c.score} |-> c.value])
      BY Zenon
    <2>3. ~Counts(c) /\ Middle(c, old) = With(old, c.key, e)
      <3>1. ~Counts(c)
        BY <2>1 DEF Counts
      <3> QED  BY <2>1, <2>2, <3>1, MiddleOf, Zenon
    <2>4. Outcome(c, old) = Filled(Middle(c, old), c.key, "sorted", w)
      BY <2>1, <2>2, OutcomeOf, Zenon
    <2>5. \/ step[m] = "ready" /\ Emptied(m, e)
          \/ step[m] = "second" /\ Fill(m, "sorted", w)
      BY <1>1, <1>5, <2>2, Zenon DEF Zadd, At
    <2> QED  BY <2>3, <2>4, <2>5, FillCall
  <1> QED  BY <1>2, <1>3, <1>4, <1>5

LEMMA VsetCall ==
  ASSUME NEW m, NEW c, NEW old, Before(m, c, old), Vset(m)
  PROVE  CallDone(m, c, old)
  <1> DEFINE k == c.key
             v == Values(data[m])
             mid == Middle(c, old)
  <1>1. c = Cmd(m) /\ Items(data[m])
    BY Zenon DEF Before
  <1>2. c.op = "VSet"
    BY <1>1, Zenon DEF Vset, At
  <1>3. (Here(m) <=> k \in DOMAIN v) /\ (Here(m) => Cur(m) = v[k])
    BY <1>1, Looks, Zenon
  <1>4. ~Counts(c)
    BY <1>2 DEF Counts
  <1>5. mid = IF k \in DOMAIN old THEN old ELSE With(old, k, Vector(<<>>, Len(c.vecs[1].vec)))
    BY <1>2, MiddleOf, Zenon
  <1>6. CASE At(m, "ready", "VSet") /\ Expired(data[m], k, clock[m])
    <2>1. LoopLost(m, "stuck") /\ step[m] = "ready"
      <3>1. "ready" # "second"
        OBVIOUS
      <3> QED  BY <1>1, <1>6, <3>1, Zenon DEF Vset, At
    <2> QED  BY <1>2, <2>1, Zenon DEF CallDone
  <1>7. CASE At(m, "ready", "VSet") /\ ~Expired(data[m], k, clock[m])
    <2>1. /\ step[m] = "ready"
          /\ IF Here(m) THEN Half(m, data[m])
             ELSE IF c.vecs = <<>> THEN LoopLost(m, "panicked")
             ELSE Emptied(m, Vector(<<>>, Len(c.vecs[1].vec)))
      <3>1. "ready" # "second"
        OBVIOUS
      <3> QED  BY <1>1, <1>7, <3>1, Zenon DEF Vset, At
    <2>2. v = old
      BY <2>1, Zenon DEF Before
    <2>3. CASE Here(m)
      <3>1. mid = v
        BY <1>3, <1>5, <2>2, <2>3, Zenon
      <3> HIDE DEF mid
      <3>2. Begins(m, mid)
        BY <1>1, <2>1, <2>3, <3>1, Zenon DEF Begins
      <3> QED  BY <1>4, <2>1, <3>2, Zenon DEF CallDone, mid
    <2>4. CASE ~Here(m) /\ c.vecs = <<>>
      BY <2>1, <2>4, Zenon DEF CallDone
    <2>5. CASE ~Here(m) /\ c.vecs # <<>>
      <3>1. PICK e : e = Vector(<<>>, Len(c.vecs[1].vec))
        BY Zenon
      <3>2. Emptied(m, e) /\ mid = With(old, k, e)
        BY <1>3, <1>5, <2>1, <2>2, <2>5, <3>1, Zenon
      <3>3. Begins(m, With(old, Cmd(m).key, e))
        BY <1>1, <2>2, <3>2, EmptiedBegins
      <3> QED  BY <1>1, <1>4, <2>1, <3>2, <3>3, Zenon DEF CallDone
    <2> QED  BY <2>3, <2>4, <2>5
  <1>8. CASE At(m, "second", "VSet")
    <2>1. PICK w : w = IF Here(m) THEN Inserted(Cur(m), c.vecs) ELSE Word
      BY Zenon
    <2>2. step[m] = "second" /\ Fill(m, "vector", w)
      <3>1. "ready" # "second"
        OBVIOUS
      <3> QED  BY <1>1, <1>8, <2>1, <3>1, Zenon DEF Vset, At
    <2>3. v = mid
      BY <2>2, Zenon DEF Before
    <2>4. w = IF k \in DOMAIN v THEN Inserted(v[k], c.vecs) ELSE Word
      BY <1>3, <2>1, Zenon
    <2>5. Outcome(c, old) = Filled(v, k, "vector", w)
      <3>1. Outcome(c, old) = Filled(mid, k, "vector",
                                     IF k \in DOMAIN mid THEN Inserted(mid[k], c.vecs) ELSE Word)
        BY <1>2, OutcomeOf, Zenon
      <3> HIDE DEF v, mid, k
      <3> QED  BY <2>3, <2>4, <3>1, Zenon
    <2>6. Does(m, Filled(v, Cmd(m).key, "vector", w))
      BY <1>1, <2>2, FillDoes
    <2> QED  BY <1>1, <2>5, <2>6, Zenon DEF CallDone
  <1> QED  BY <1>6, <1>7, <1>8, Zenon DEF Vset

\* Every call of the apply loop does what the ledger says.
LEMMA ApplyCall ==
  ASSUME NEW m, NEW c, NEW old, Before(m, c, old), ApplyCommand(m)
  PROVE  CallDone(m, c, old)
  <1>1. Set(m) => CallDone(m, c, old)
    BY SetCall, Zenon
  <1>2. DeleteKey(m) \/ Vdel(m) => CallDone(m, c, old)
    BY RemoveCall, Zenon
  <1>3. Increment(m) \/ Decrement(m) => CallDone(m, c, old)
    BY CountCall, Zenon
  <1>4. Expire(m) => CallDone(m, c, old)
    BY ExpireCall, Zenon
  <1>5. Lpush(m) \/ Rpush(m) \/ Sadd(m) \/ Zadd(m) => CallDone(m, c, old)
    BY ContainerCall, Zenon
  <1>6. Lpop(m) \/ Rpop(m) => CallDone(m, c, old)
    BY PopCall, Zenon
  <1>7. PublishCommand(m) => CallDone(m, c, old)
    BY PublishCall, Zenon
  <1>8. Vset(m) => CallDone(m, c, old)
    BY VsetCall, Zenon
  <1> QED  BY <1>1, <1>2, <1>3, <1>4, <1>5, <1>6, <1>7, <1>8, Zenon DEF ApplyCommand

-----------------------------------------------------------------------------
(* Lists.  After a push, with nothing but pops of the same key, the key    *)
(* holds what l pops from the left and r from the right have left.         *)

IsPush(c) == c.op = "Lpush" \/ c.op = "Rpush"
IsPop(c) == c.op = "Lpop" \/ c.op = "Rpop"
Pushed(c) == IF c.op = "Lpush" THEN Reverse(c.values) ELSE c.values
Remains(s, l, r) == [x \in 1 .. Len(s) - l - r |-> s[l + x]]
PopsIn(coms, op, i, j) == {x \in i + 1 .. j : coms[x].op = op}

PoppedTo(coms, i, j, v) ==
    IsPush(coms[i]) /\ (\A x \in i + 1 .. j : IsPop(coms[x]) /\ coms[x].key = coms[i].key) =>
    /\ coms[i].key \in DOMAIN v
    /\ v[coms[i].key] = List(Remains(Pushed(coms[i]), Cardinality(PopsIn(coms, "Lpop", i, j)),
                                     Cardinality(PopsIn(coms, "Rpop", i, j))))

Popping(H, coms) ==
    \A i \in 1 .. Len(coms) : \A j \in i .. Len(coms) :
        PoppedTo(coms, i, j, H[j])

LEMMA PushedSeq ==
  ASSUME NEW c \in Cmds, IsPush(c) PROVE Pushed(c) \in Seq(Int)
  <1>1. PICK s : s = c.values
    BY Zenon
  <1>2. s \in Seq(Int)
    BY <1>1, CmdsAssumption DEF IsPush
  <1>3. Reverse(s) \in Seq(Int)
    <2>1. Len(s) \in Nat /\ \A i \in 1 .. Len(s) : (Len(s) - i) + 1 \in 1 .. Len(s)
      BY <1>2
    <2>2. \A i \in 1 .. Len(s) : s[(Len(s) - i) + 1] \in Int
      BY <1>2, <2>1
    <2> QED  BY <2>1, <2>2 DEF Reverse
  <1> QED  BY <1>1, <1>2, <1>3, Zenon DEF Pushed

LEMMA RemainsLen ==
  ASSUME NEW s \in Seq(Int), NEW l \in Nat, NEW r \in Nat
  PROVE  /\ Remains(s, l, r) \in Seq(Int)
         /\ Len(s) \in Nat
         /\ l + r >= Len(s) => Remains(s, l, r) = <<>>
         /\ l + r < Len(s) => /\ Len(Remains(s, l, r)) = Len(s) - l - r
                              /\ Remains(s, l, r) # <<>>
                              /\ \A x \in 1 .. Len(s) - l - r : Remains(s, l, r)[x] = s[l + x]
  <1>1. Len(s) \in Nat
    OBVIOUS
  <1>2. ASSUME l + r >= Len(s) PROVE Remains(s, l, r) = <<>>
    <2>1. 1 .. Len(s) - l - r = {}
      BY <1>1, <1>2
    <2>2. Remains(s, l, r) = [x \in {} |-> s[l + x]]
      BY <2>1, Zenon DEF Remains
    <2> QED  BY <2>2
  <1>3. ASSUME l + r < Len(s)
        PROVE  /\ Remains(s, l, r) \in Seq(Int) /\ Len(Remains(s, l, r)) = Len(s) - l - r
               /\ \A x \in 1 .. Len(s) - l - r : Remains(s, l, r)[x] = s[l + x]
    <2>1. PICK N : N = Len(s) - l - r
      BY Zenon
    <2>2. N \in Nat /\ N > 0 /\ \A x \in 1 .. N : l + x \in 1 .. Len(s)
      BY <1>1, <1>3, <2>1
    <2>3. \A x \in 1 .. N : s[l + x] \in Int
      BY <2>2
    <2>4. Remains(s, l, r) = [x \in 1 .. N |-> s[l + x]]
      BY <2>1, Zenon DEF Remains
    <2> QED  BY <2>1, <2>2, <2>3, <2>4
  <1>4. ASSUME l + r < Len(s) PROVE Remains(s, l, r) # <<>>
    <2>1. Len(Remains(s, l, r)) > 0
      BY <1>1, <1>3, <1>4
    <2> QED  BY <2>1
  <1>5. Remains(s, l, r) \in Seq(Int)
    <2>1. l + r >= Len(s) \/ l + r < Len(s)
      BY <1>1
    <2>2. <<>> \in Seq(Int)
      OBVIOUS
    <2> QED  BY <1>2, <1>3, <2>1, <2>2, Zenon
  <1> QED  BY <1>1, <1>2, <1>3, <1>4, <1>5

LEMMA RemainsTail ==
  ASSUME NEW s \in Seq(Int), NEW l \in Nat, NEW r \in Nat, l + r < Len(s)
  PROVE  /\ Tail(Remains(s, l, r)) = Remains(s, l + 1, r)
         /\ Front(Remains(s, l, r)) = Remains(s, l, r + 1)
         /\ Head(Remains(s, l, r)) = s[l + 1]
         /\ Last(Remains(s, l, r)) = s[Len(s) - r]
  <1>1. PICK t, N : t = Remains(s, l, r) /\ N = Len(s) - l - r
    BY Zenon
  <1>2. t \in Seq(Int) /\ Len(t) = N /\ (\A x \in 1 .. N : t[x] = s[l + x]) /\ N \in Nat /\ N > 0
    <2>1. Len(s) \in Nat /\ N \in Nat /\ N > 0
      <3>1. Len(s) \in Nat
        OBVIOUS
      <3> QED  BY <1>1, <3>1
    <2>2. t \in Seq(Int) /\ Len(t) = N /\ (\A x \in 1 .. N : t[x] = s[l + x])
      BY <1>1, RemainsLen, Zenon
    <2> QED  BY <2>1, <2>2, Zenon
  <1>3. Tail(t) = Remains(s, l + 1, r)
    <2>1. Len(s) - (l + 1) - r = N - 1 /\ \A x \in 1 .. N - 1 : x + 1 \in 1 .. N /\ l + (x + 1) = (l + 1) + x
      BY <1>1, <1>2
    <2>2. Tail(t) = [x \in 1 .. N - 1 |-> t[x + 1]]
      <3>1. t # <<>>
        BY <1>2
      <3>2. PICK u : u = Tail(t)
        BY Zenon
      <3>3. u \in Seq(Int) /\ Len(u) = N - 1 /\ \A x \in 1 .. N - 1 : u[x] = t[x + 1]
        BY <1>2, <3>1, <3>2
      <3>4. u = [x \in 1 .. N - 1 |-> u[x]]
        BY <3>3
      <3>5. u = [x \in 1 .. N - 1 |-> t[x + 1]]
        BY <3>3, <3>4, Zenon
      <3> QED  BY <3>2, <3>5, Zenon
    <2>3. \A x \in 1 .. N - 1 : t[x + 1] = s[(l + 1) + x]
      BY <1>2, <2>1
    <2>4. Remains(s, l + 1, r) = [x \in 1 .. N - 1 |-> s[(l + 1) + x]]
      BY <2>1, Zenon DEF Remains
    <2> QED  BY <2>2, <2>3, <2>4, Zenon
  <1>4. Front(t) = Remains(s, l, r + 1)
    <2>1. Len(s) - l - (r + 1) = N - 1 /\ \A x \in 1 .. N - 1 : x \in 1 .. N
      BY <1>1, <1>2
    <2>2. Front(t) = [x \in 1 .. N - 1 |-> t[x]]
      <3>1. Front(t) = SubSeq(t, 1, N - 1)
        BY <1>2, Zenon DEF Front
      <3> QED  BY <1>2, <3>1
    <2>3. \A x \in 1 .. N - 1 : t[x] = s[l + x]
      BY <1>2, <2>1
    <2>4. Remains(s, l, r + 1) = [x \in 1 .. N - 1 |-> s[l + x]]
      BY <2>1, Zenon DEF Remains
    <2> QED  BY <2>2, <2>3, <2>4, Zenon
  <1>5. Head(t) = s[l + 1]
    BY <1>2
  <1>6. Last(t) = s[Len(s) - r]
    <2>1. l + N = Len(s) - r /\ N \in 1 .. N
      <3>1. Len(s) \in Nat
        OBVIOUS
      <3>2. N \in Nat /\ N > 0 /\ N = Len(s) - l - r
        BY <1>1, <1>2, Zenon
      <3> QED  BY <3>1, <3>2
    <2> QED  BY <1>2, <2>1, Zenon DEF Last
  <1> QED  BY <1>1, <1>3, <1>4, <1>5, <1>6, Zenon

\* A push leaves its list, a pop what it did not take.
LEMMA PushLeaves ==
  ASSUME NEW c \in Cmds, IsPush(c), NEW v, NEW w, w = Outcome(c, v).map
  PROVE  c.key \in DOMAIN w /\ w[c.key] = List(Pushed(c))
  <1>1. PICK k, new, mid : k = c.key /\ new = List(Pushed(c)) /\ mid = With(v, k, List(<<>>))
    BY Zenon
  <1>2. Middle(c, v) = mid
    BY <1>1, MiddleOf, Zenon DEF IsPush
  <1>3. Outcome(c, v) = Filled(mid, k, "list", new)
    <2>1. "Lpush" # "Rpush"
      OBVIOUS
    <2>2. c.op = "Lpush" => Outcome(c, v) = Filled(mid, k, "list", List(Reverse(c.values)))
      <3>1. c.op = "Lpush" => Outcome(c, v) = Filled(Middle(c, v), c.key, "list", List(Reverse(c.values)))
        BY OutcomeOf, Zenon
      <3> QED  BY <1>1, <1>2, <3>1, Zenon
    <2>3. c.op = "Rpush" => Outcome(c, v) = Filled(mid, k, "list", List(c.values))
      <3>1. c.op = "Rpush" => Outcome(c, v) = Filled(Middle(c, v), c.key, "list", List(c.values))
        BY OutcomeOf, Zenon
      <3> QED  BY <1>1, <1>2, <3>1, Zenon
    <2> QED  BY <1>1, <2>1, <2>2, <2>3, Zenon DEF IsPush, Pushed
  <1>4. k \in DOMAIN mid /\ mid[k].kind = "list"
    BY <1>1 DEF With, List, Value
  <1>5. Outcome(c, v) = Ok(With(mid, k, new))
    BY <1>3, <1>4, Zenon DEF Filled
  <1>6. w = With(mid, k, new)
    BY <1>5, Parts, Zenon
  <1> QED  BY <1>1, <1>6 DEF With

PopResult(c, s, out) ==
    /\ c.key \in DOMAIN out.map
    /\ s = <<>> => out.map[c.key] = List(s) /\ out.res = ErrRes
    /\ s # <<>> /\ c.op = "Lpop" => out.map[c.key] = List(Tail(s)) /\ out.res = GetRes(Number(Head(s)))
    /\ s # <<>> /\ c.op = "Rpop" => out.map[c.key] = List(Front(s)) /\ out.res = GetRes(Number(Last(s)))

LEMMA PopLeaves ==
  ASSUME NEW c, IsPop(c), NEW v, NEW out, out = Outcome(c, v), NEW s \in Seq(Int),
         c.key \in DOMAIN v, v[c.key] = List(s)
  PROVE  PopResult(c, s, out)
  <1>1. PICK k : k = c.key
    BY Zenon
  <1>2. List(s).kind = "list" /\ List(s).val = s
    BY DEF List, Value
  <1>3. k \in DOMAIN v /\ v[k].kind = "list" /\ v[k].val = s
    BY <1>1, <1>2, Zenon
  <1>4. c.op = "Lpop" => out = Popped(v, k, Tail(s), Head(s))
    BY <1>1, <1>3, OutcomeOf, Zenon
  <1>5. c.op = "Rpop" => out = Popped(v, k, Front(s), Last(s))
    BY <1>1, <1>3, OutcomeOf, Zenon
  <1>6. ASSUME NEW rest, NEW e, out = Popped(v, k, rest, e)
        PROVE  /\ k \in DOMAIN out.map
               /\ s = <<>> => out.map[k] = List(s) /\ out.res = ErrRes
               /\ s # <<>> => out.map[k] = List(rest) /\ out.res = GetRes(Number(e))
    <2>1. CASE s = <<>>
      <3>1. out = Err(v)
        BY <1>3, <1>6, <2>1, Zenon DEF Popped, HasElement
      <3>2. out.map = v /\ out.res = ErrRes
        BY <3>1, Parts, Zenon
      <3> QED  BY <1>1, <1>3, <2>1, <3>2, Zenon
    <2>2. CASE s # <<>>
      <3>1. out = [map |-> With(v, k, List(rest)), res |-> GetRes(Number(e))]
        BY <1>3, <1>6, <2>2, Zenon DEF Popped, HasElement
      <3>2. out.map = With(v, k, List(rest)) /\ out.res = GetRes(Number(e))
        BY <3>1
      <3>3. k \in DOMAIN With(v, k, List(rest)) /\ With(v, k, List(rest))[k] = List(rest)
        BY DEF With
      <3> QED  BY <2>2, <3>2, <3>3, Zenon
    <2> QED  BY <2>1, <2>2
  <1>7. c.op = "Lpop" => /\ k \in DOMAIN out.map
                         /\ s = <<>> => out.map[k] = List(s) /\ out.res = ErrRes
                         /\ s # <<>> => out.map[k] = List(Tail(s)) /\ out.res = GetRes(Number(Head(s)))
    BY <1>4, <1>6, Zenon
  <1>8. c.op = "Rpop" => /\ k \in DOMAIN out.map
                         /\ s = <<>> => out.map[k] = List(s) /\ out.res = ErrRes
                         /\ s # <<>> => out.map[k] = List(Front(s)) /\ out.res = GetRes(Number(Last(s)))
    BY <1>5, <1>6, Zenon
  <1> QED  BY <1>1, <1>7, <1>8, Zenon DEF IsPop, PopResult

LEMMA PopsCount ==
  ASSUME NEW coms, NEW op, NEW i \in Nat, NEW j \in Nat
  PROVE  IsFiniteSet(PopsIn(coms, op, i, j)) /\ Cardinality(PopsIn(coms, op, i, j)) \in Nat
  <1>1. IsFiniteSet(i + 1 .. j)
    BY FS_Interval
  <1>2. PopsIn(coms, op, i, j) \in SUBSET (i + 1 .. j)
    BY Zenon DEF PopsIn
  <1>3. IsFiniteSet(PopsIn(coms, op, i, j))
    BY <1>1, <1>2, FS_Subset, Zenon
  <1> QED  BY <1>3, FS_CardinalityType, Zenon

LEMMA PopsNext ==
  ASSUME NEW coms, NEW op, NEW i \in Nat, NEW j \in Nat, i <= j
  PROVE  Cardinality(PopsIn(coms, op, i, j + 1))
           = Cardinality(PopsIn(coms, op, i, j)) + IF coms[j + 1].op = op THEN 1 ELSE 0
  <1>1. \A x : x \in i + 1 .. j + 1 <=> x \in i + 1 .. j \/ x = j + 1
    OBVIOUS
  <1>2. j + 1 \notin i + 1 .. j
    OBVIOUS
  <1>3. PICK P, Q : P = PopsIn(coms, op, i, j) /\ Q = PopsIn(coms, op, i, j + 1)
    BY Zenon
  <1>4. IsFiniteSet(P) /\ Cardinality(P) \in Nat
    BY <1>3, PopsCount, Zenon
  <1>5. CASE coms[j + 1].op = op
    <2>1. Q = P \cup {j + 1}
      BY <1>1, <1>3, <1>5, Zenon DEF PopsIn
    <2>2. j + 1 \notin P
      BY <1>2, <1>3, Zenon DEF PopsIn
    <2>3. Cardinality(Q) = Cardinality(P) + 1
      BY <1>4, <2>1, <2>2, FS_AddElement, Zenon
    <2> QED  BY <1>3, <1>5, <2>3, Zenon
  <1>6. CASE coms[j + 1].op # op
    <2>1. Q = P
      BY <1>1, <1>3, <1>6, Zenon DEF PopsIn
    <2>2. Cardinality(Q) = Cardinality(P) + 0
      BY <1>4, <2>1, SMTT(20)
    <2> QED  BY <1>3, <1>6, <2>2, Zenon
  <1> QED  BY <1>5, <1>6

\* One more pop.
More(c, op, l) == l + IF c.op = op THEN 1 ELSE 0
PoppedOnce(c, out, P, l, r) ==
    /\ c.key \in DOMAIN out.map
    /\ out.map[c.key] = List(Remains(P, More(c, "Lpop", l), More(c, "Rpop", r)))
    /\ out.res = IF l + r >= Len(P) THEN ErrRes
                 ELSE GetRes(Number(IF c.op = "Lpop" THEN P[l + 1] ELSE P[Len(P) - r]))

LEMMA PopOnce ==
  ASSUME NEW c, IsPop(c), NEW v, NEW P \in Seq(Int), NEW l \in Nat, NEW r \in Nat,
         c.key \in DOMAIN v, v[c.key] = List(Remains(P, l, r))
  PROVE  PoppedOnce(c, Outcome(c, v), P, l, r)
  <1>0. PICK out, l2, r2 : out = Outcome(c, v) /\ l2 = More(c, "Lpop", l) /\ r2 = More(c, "Rpop", r)
    BY Zenon
  <1>1. PICK s : s = Remains(P, l, r)
    BY Zenon
  <1>2. s \in Seq(Int) /\ Len(P) \in Nat
    BY <1>1, RemainsLen, Zenon
  <1>3. (l + r >= Len(P) => s = <<>>) /\ (l + r < Len(P) => s # <<>>)
    BY <1>1, RemainsLen, Zenon
  <1>4. v[c.key] = List(s)
    BY <1>1, Zenon
  <1>5. /\ c.key \in DOMAIN out.map
        /\ s = <<>> => out.map[c.key] = List(s) /\ out.res = ErrRes
        /\ s # <<>> /\ c.op = "Lpop" => out.map[c.key] = List(Tail(s)) /\ out.res = GetRes(Number(Head(s)))
        /\ s # <<>> /\ c.op = "Rpop" => out.map[c.key] = List(Front(s)) /\ out.res = GetRes(Number(Last(s)))
    <2>1. PopResult(c, s, out)
      BY <1>0, <1>2, <1>4, PopLeaves, Zenon
    <2> QED  BY <2>1, Zenon DEF PopResult
  <1>6. \/ c.op = "Lpop" /\ l2 = l + 1 /\ r2 = r
        \/ c.op = "Rpop" /\ l2 = l /\ r2 = r + 1
    BY <1>0 DEF IsPop, More
  <1>7. CASE l + r >= Len(P)
    <2>1. l2 \in Nat /\ r2 \in Nat /\ l2 + r2 >= Len(P)
      BY <1>2, <1>6, <1>7
    <2>2. Remains(P, l2, r2) = <<>>
      BY <2>1, RemainsLen, Zenon
    <2>3. s = <<>>
      BY <1>3, <1>7, Zenon
    <2> QED  BY <1>0, <1>5, <1>7, <2>2, <2>3, Zenon DEF PoppedOnce
  <1>8. CASE l + r < Len(P)
    <2>1. s # <<>> /\ ~(l + r >= Len(P))
      BY <1>2, <1>3, <1>8
    <2>2. /\ Tail(s) = Remains(P, l + 1, r) /\ Front(s) = Remains(P, l, r + 1)
          /\ Head(s) = P[l + 1] /\ Last(s) = P[Len(P) - r]
      BY <1>1, <1>8, RemainsTail, Zenon
    <2>3. "Lpop" # "Rpop"
      OBVIOUS
    <2> QED  BY <1>0, <1>5, <1>6, <2>1, <2>2, <2>3, Zenon DEF PoppedOnce
  <1>9. l + r >= Len(P) \/ l + r < Len(P)
    BY <1>2
  <1> QED  BY <1>7, <1>8, <1>9

\* Nothing popped yet.
LEMMA PopNone ==
  ASSUME NEW coms, NEW i \in Nat, NEW P \in Seq(Int)
  PROVE  Remains(P, Cardinality(PopsIn(coms, "Lpop", i, i)), Cardinality(PopsIn(coms, "Rpop", i, i))) = P
  <1>1. i + 1 .. i = {}
    OBVIOUS
  <1>2. PopsIn(coms, "Lpop", i, i) = {} /\ PopsIn(coms, "Rpop", i, i) = {}
    BY <1>1, Zenon DEF PopsIn
  <1>3. Cardinality({}) = 0
    BY FS_EmptySet, Zenon
  <1>4. Len(P) \in Nat /\ P = [x \in 1 .. Len(P) |-> P[x]]
    OBVIOUS
  <1>5. Len(P) - 0 - 0 = Len(P) /\ \A x \in 1 .. Len(P) : 0 + x = x
    BY <1>4
  <1>6. Remains(P, 0, 0) = [x \in 1 .. Len(P) |-> P[0 + x]]
    BY <1>5, Zenon DEF Remains
  <1>7. Remains(P, 0, 0) = P
    BY <1>4, <1>5, <1>6, Zenon
  <1> QED  BY <1>2, <1>3, <1>7, Zenon

LEMMA PoppedKept ==
  ASSUME NEW coms, NEW coms2, NEW L \in Nat, \A i \in 1 .. L : coms2[i] = coms[i],
         NEW i \in 1 .. L, NEW j \in i .. L, NEW v, PoppedTo(coms, i, j, v)
  PROVE  PoppedTo(coms2, i, j, v)
  <1>1. coms2[i] = coms[i]
    BY Zenon
  <1>2. \A x \in i + 1 .. j : x \in 1 .. L
    OBVIOUS
  <1>3. \A x \in i + 1 .. j : coms2[x] = coms[x]
    BY <1>2, Zenon
  <1>4. ASSUME NEW op PROVE PopsIn(coms2, op, i, j) = PopsIn(coms, op, i, j)
    BY <1>3, Zenon DEF PopsIn
  <1>5. /\ PopsIn(coms2, "Lpop", i, j) = PopsIn(coms, "Lpop", i, j)
        /\ PopsIn(coms2, "Rpop", i, j) = PopsIn(coms, "Rpop", i, j)
    BY <1>4, Zenon
  <1> SUFFICES ASSUME IsPush(coms2[i]),
                      \A x \in i + 1 .. j : IsPop(coms2[x]) /\ coms2[x].key = coms2[i].key
               PROVE  /\ coms2[i].key \in DOMAIN v
                      /\ v[coms2[i].key] =
                            List(Remains(Pushed(coms2[i]), Cardinality(PopsIn(coms2, "Lpop", i, j)),
                                         Cardinality(PopsIn(coms2, "Rpop", i, j))))
    BY Zenon DEF PoppedTo
  <1>6. \A x \in i + 1 .. j : IsPop(coms[x]) /\ coms[x].key = coms[i].key
    BY <1>1, <1>3, Zenon
  <1>7. IsPush(coms[i])
    BY <1>1, Zenon
  <1>8. /\ coms[i].key \in DOMAIN v
        /\ v[coms[i].key] = List(Remains(Pushed(coms[i]), Cardinality(PopsIn(coms, "Lpop", i, j)),
                                         Cardinality(PopsIn(coms, "Rpop", i, j))))
    BY <1>6, <1>7, Zenon DEF PoppedTo
  <1> QED  BY <1>1, <1>5, <1>8, Zenon

LEMMA PoppedNext ==
  ASSUME NEW coms, NEW i \in Nat, NEW j \in Nat, i <= j, coms[i] \in Cmds, NEW v, PoppedTo(coms, i, j, v),
         NEW w, w = Outcome(coms[j + 1], v).map
  PROVE  PoppedTo(coms, i, j + 1, w)
  <1> SUFFICES ASSUME IsPush(coms[i]),
                      \A x \in i + 1 .. j + 1 : IsPop(coms[x]) /\ coms[x].key = coms[i].key
               PROVE  /\ coms[i].key \in DOMAIN w
                      /\ w[coms[i].key] =
                            List(Remains(Pushed(coms[i]), Cardinality(PopsIn(coms, "Lpop", i, j + 1)),
                                         Cardinality(PopsIn(coms, "Rpop", i, j + 1))))
    BY Zenon DEF PoppedTo
  <1>1. j + 1 \in i + 1 .. j + 1 /\ \A x \in i + 1 .. j : x \in i + 1 .. j + 1
    OBVIOUS
  <1>2. PICK c, P, l, r, l2, r2 :
            /\ c = coms[j + 1] /\ P = Pushed(coms[i])
            /\ l = Cardinality(PopsIn(coms, "Lpop", i, j)) /\ r = Cardinality(PopsIn(coms, "Rpop", i, j))
            /\ l2 = Cardinality(PopsIn(coms, "Lpop", i, j + 1)) /\ r2 = Cardinality(PopsIn(coms, "Rpop", i, j + 1))
    BY Zenon
  <1>3. coms[i].key \in DOMAIN v /\ v[coms[i].key] = List(Remains(P, l, r))
    BY <1>1, <1>2, Zenon DEF PoppedTo
  <1>4. IsPop(c) /\ c.key = coms[i].key
    BY <1>1, <1>2, Zenon
  <1>5. P \in Seq(Int) /\ l \in Nat /\ r \in Nat
    BY <1>2, PushedSeq, PopsCount, Zenon
  <1>6. l2 = l + (IF c.op = "Lpop" THEN 1 ELSE 0) /\ r2 = r + IF c.op = "Rpop" THEN 1 ELSE 0
    <2>1. Cardinality(PopsIn(coms, "Lpop", i, j + 1))
            = Cardinality(PopsIn(coms, "Lpop", i, j)) + IF coms[j + 1].op = "Lpop" THEN 1 ELSE 0
      BY PopsNext
    <2>2. Cardinality(PopsIn(coms, "Rpop", i, j + 1))
            = Cardinality(PopsIn(coms, "Rpop", i, j)) + IF coms[j + 1].op = "Rpop" THEN 1 ELSE 0
      BY PopsNext
    <2> QED  BY <1>2, <2>1, <2>2, Zenon
  <1>7. PICK out : out = Outcome(c, v)
    BY Zenon
  <1>8. c.key \in DOMAIN v /\ v[c.key] = List(Remains(P, l, r))
    BY <1>3, <1>4, Zenon
  <1>9. c.key \in DOMAIN out.map /\ out.map[c.key] = List(Remains(P, l2, r2))
    <2>1. PoppedOnce(c, Outcome(c, v), P, l, r)
      BY <1>4, <1>5, <1>8, PopOnce, Zenon
    <2> QED  BY <1>6, <1>7, <2>1, Zenon DEF PoppedOnce, More
  <1> QED  BY <1>2, <1>4, <1>7, <1>9, Zenon

-----------------------------------------------------------------------------
(* Steps on the ledger.                                                    *)

LEMMA AppendOne ==
  ASSUME NEW s, IsSeq(s), NEW e
  PROVE  /\ IsSeq(Append(s, e)) /\ Len(s) \in Nat /\ Len(Append(s, e)) = Len(s) + 1
         /\ Append(s, e)[Len(s) + 1] = e
         /\ \A i \in 1 .. Len(s) : Append(s, e)[i] = s[i]
  <1> DEFINE S == Range(s) \cup {e}
  <1>1. s \in Seq(S) /\ e \in S /\ Len(s) \in Nat
    BY DEF IsSeq
  <1> HIDE DEF S
  <1>2. PICK t : t = Append(s, e)
    BY Zenon
  <1>3. t \in Seq(S) /\ Len(t) = Len(s) + 1 /\ t[Len(s) + 1] = e /\ \A i \in 1 .. Len(s) : t[i] = s[i]
    BY <1>1, <1>2
  <1>4. IsSeq(t)
    <2>1. DOMAIN t = 1 .. Len(t) /\ Len(t) \in Nat /\ t = [i \in 1 .. Len(t) |-> t[i]]
      BY <1>3
    <2>3. \A i \in 1 .. Len(t) : t[i] \in Range(t)
      BY <2>1, Zenon DEF Range
    <2>2. t \in [1 .. Len(t) -> Range(t)]
      BY <2>1, <2>3, Zenon
    <2> QED  BY <2>1, <2>2 DEF IsSeq
  <1> QED  BY <1>1, <1>2, <1>3, <1>4, Zenon

\* A command is finished.
LEMMA PlaceFinished ==
  ASSUME NEW H, NEW coms, NEW f, NEW st, NEW d, NEW ans, Place(H, coms, f, st, d, ans), IsSeq(ans),
         Len(coms) \in Nat, f < Len(coms),
         H[f + 1] = Outcome(coms[f + 1], H[f]).map,
         NEW e, Values(e) = Outcome(coms[f + 1], H[f]).map,
         NEW res, res = Outcome(coms[f + 1], H[f]).res
  PROVE  Place(H, coms, f + 1, "ready", e, Append(ans, res))
  <1>1. f \in Nat /\ f + 1 \in 0 .. Len(coms) /\ Len(ans) = f
    BY DEF Place
  <1>2. PICK t : t = Append(ans, res)
    BY Zenon
  <1>3. Len(t) = f + 1 /\ t[f + 1] = res /\ \A i \in 1 .. f : t[i] = ans[i]
    <2>1. Len(t) = Len(ans) + 1 /\ t[Len(ans) + 1] = res /\ \A i \in 1 .. Len(ans) : t[i] = ans[i]
      <3>1. /\ Len(Append(ans, res)) = Len(ans) + 1 /\ Append(ans, res)[Len(ans) + 1] = res
            /\ \A i \in 1 .. Len(ans) : Append(ans, res)[i] = ans[i]
        BY AppendOne
      <3> QED  BY <1>2, <3>1, Zenon
    <2> QED  BY <1>1, <2>1, Zenon
  <1>4. \A i \in 1 .. f + 1 : t[i] = Outcome(coms[i], H[i - 1]).res
    <2> SUFFICES ASSUME NEW i \in 1 .. f + 1 PROVE t[i] = Outcome(coms[i], H[i - 1]).res
      BY Zenon
    <2>1. CASE i = f + 1
      <3>1. i - 1 = f
        BY <1>1, <2>1
      <3> QED  BY <1>3, <2>1, <3>1, Zenon
    <2>2. CASE i \in 1 .. f
      BY <1>3, <2>2, Zenon DEF Place
    <2>3. i = f + 1 \/ i \in 1 .. f
      BY <1>1
    <2> QED  BY <2>1, <2>2, <2>3
  <1>5. "ready" # "second" /\ "ready" # "stuck"
    OBVIOUS
  <1> QED  BY <1>1, <1>2, <1>3, <1>4, <1>5, Zenon DEF Place

\* Its first call is done.
LEMMA PlaceBegun ==
  ASSUME NEW H, NEW coms, NEW f, NEW d, NEW ans, Place(H, coms, f, "ready", d, ans),
         f < Len(coms), Counts(coms[f + 1]) => coms[f + 1].key \in DOMAIN H[f],
         NEW e, Values(e) = Middle(coms[f + 1], H[f])
  PROVE  Place(H, coms, f, "second", e, ans)
  BY Zenon DEF Place

\* The loop is lost.
LEMMA PlaceLost ==
  ASSUME NEW H, NEW coms, NEW f, NEW st, NEW d, NEW ans, Place(H, coms, f, st, d, ans),
         f < Len(coms), NEW how,
         \/ st = "ready" /\ how = "panicked"
         \/ st = "ready" /\ coms[f + 1].op = "VSet" /\ how = "stuck"
         \/ st = "second" /\ coms[f + 1].op # "VSet" /\ how = "stuck"
  PROVE  Place(H, coms, f, how, d, ans)
  <1>1. "ready" # "second" /\ "ready" # "stuck" /\ "panicked" # "second" /\ "panicked" # "stuck"
        /\ "stuck" # "second"
    OBVIOUS
  <1> QED  BY <1>1, Zenon DEF Place

\* The ledger grows: what is before stays.
LEMMA PlaceKept ==
  ASSUME NEW H, NEW H2, NEW coms, NEW coms2, NEW f, NEW st, NEW d, NEW ans,
         Place(H, coms, f, st, d, ans),
         Len(coms) \in Nat, Len(coms2) = Len(coms) + 1,
         \A i \in 1 .. Len(coms) : coms2[i] = coms[i],
         \A i \in 0 .. Len(coms) : H2[i] = H[i]
  PROVE  Place(H2, coms2, f, st, d, ans)
  <1>1. f \in 0 .. Len(coms) /\ f \in 0 .. Len(coms2) /\ f \in Nat /\ H2[f] = H[f]
    BY DEF Place
  <1>2. st # "ready" => f < Len(coms2) /\ coms2[f + 1] = coms[f + 1]
    BY <1>1 DEF Place
  <1>3. \A i \in 1 .. f : ans[i] = Outcome(coms2[i], H2[i - 1]).res
    <2> SUFFICES ASSUME NEW i \in 1 .. f PROVE ans[i] = Outcome(coms2[i], H2[i - 1]).res
      BY Zenon
    <2>1. i \in 1 .. Len(coms) /\ i - 1 \in 0 .. Len(coms)
      BY <1>1
    <2>2. coms2[i] = coms[i] /\ H2[i - 1] = H[i - 1]
      BY <2>1, Zenon
    <2> QED  BY <2>2, Zenon DEF Place
  <1>4. "second" # "ready" /\ "stuck" # "ready"
    OBVIOUS
  <1> QED  BY <1>1, <1>2, <1>3, <1>4, Zenon DEF Place

\* The commit of a command extends the ledger, at its end.
LEMMA LedgerGrows ==
  ASSUME NEW H, NEW c, committed \in Seq(Cmds), c \in Cmds, Commit(c),
         Ledger(H), OnLedger(H), Popping(H, committed)
  PROVE  \E H2 : Ledger(H2)' /\ OnLedger(H2)' /\ Popping(H2, committed)'
  <1> DEFINE L == Len(committed)
  <1>0. PICK H2 : H2 = [i \in 0 .. L + 1 |-> IF i = L + 1 THEN Outcome(c, H[L]).map ELSE H[i]]
    BY Zenon
  <1>1. PICK coms : coms = Append(committed, c)
    BY Zenon
  <1>2. /\ L \in Nat /\ Len(coms) = L + 1 /\ coms[L + 1] = c
        /\ \A i \in 1 .. L : coms[i] = committed[i]
    BY <1>1
  <1>3. committed' = coms /\ UNCHANGED <<data, finished, step, answers>>
    BY <1>1, Zenon DEF Commit
  <1>4. (\A i \in 0 .. L : H2[i] = H[i]) /\ H2[L + 1] = Outcome(c, H[L]).map
    BY <1>0, <1>2
  <1>5. Ledger(H2)'
    <2>1. H2[0] = [k \in {} |-> Word]
      <3>1. 0 \in 0 .. L
        BY <1>2
      <3> QED  BY <1>4, <3>1, Zenon DEF Ledger
    <2>2. ASSUME NEW i \in 1 .. L + 1 PROVE H2[i] = Outcome(coms[i], H2[i - 1]).map
      <3>1. CASE i = L + 1
        <4>1. i - 1 = L /\ L \in 0 .. L
          BY <1>2, <3>1
        <4> QED  BY <1>2, <1>4, <3>1, <4>1, Zenon
      <3>2. CASE i \in 1 .. L
        <4>1. i - 1 \in 0 .. L /\ i \in 0 .. L
          BY <1>2, <3>2
        <4> QED  BY <1>2, <1>4, <3>2, <4>1, Zenon DEF Ledger
      <3>3. i = L + 1 \/ i \in 1 .. L
        BY <1>2
      <3> QED  BY <3>1, <3>2, <3>3
    <2>3. \A i \in 1 .. Len(coms) : H2[i] = Outcome(coms[i], H2[i - 1]).map
      BY <1>2, <2>2, Zenon
    <2> QED  BY <1>3, <2>1, <2>3, Zenon DEF Ledger
  <1>6. OnLedger(H2)'
    <2> SUFFICES ASSUME NEW m \in Node
                 PROVE  Place(H2, coms, finished[m], step[m], data[m], answers[m])
      BY <1>3, Zenon DEF OnLedger
    <2>1. Place(H, committed, finished[m], step[m], data[m], answers[m])
      BY Zenon DEF OnLedger
    <2> QED  BY <1>2, <1>4, <2>1, PlaceKept
  <1>7. Popping(H2, coms)
    <2> SUFFICES ASSUME NEW i \in 1 .. L + 1, NEW j \in i .. L + 1 PROVE PoppedTo(coms, i, j, H2[j])
      BY <1>2, Zenon DEF Popping
    <2>1. ASSUME i \in 1 .. L, j \in i .. L PROVE PoppedTo(coms, i, j, H2[j])
      <3>1. j \in 0 .. L
        BY <1>2, <2>1
      <3>2. PoppedTo(committed, i, j, H2[j])
        BY <1>4, <2>1, <3>1, Zenon DEF Popping
      <3> QED  BY <1>2, <2>1, <3>2, PoppedKept, Zenon
    <2>2. ASSUME i \in 1 .. L, j = L + 1 PROVE PoppedTo(coms, i, j, H2[j])
      <3>1. L \in i .. L /\ L \in 0 .. L /\ i \in Nat /\ i <= L
        BY <1>2, <2>2
      <3>2. PICK v : v = H[L]
        BY Zenon
      <3>3. PoppedTo(committed, i, L, v)
        BY <2>2, <3>1, <3>2, Zenon DEF Popping
      <3>4. PoppedTo(coms, i, L, v)
        BY <1>2, <2>2, <3>1, <3>3, PoppedKept, SMTT(20)
      <3>5. coms[i] \in Cmds
        BY <1>2, <2>2
      <3>6. H2[j] = Outcome(coms[L + 1], v).map
        BY <1>2, <1>4, <2>2, <3>2, Zenon
      <3>7. PoppedTo(coms, i, L + 1, H2[j])
        BY <1>2, <3>1, <3>4, <3>5, <3>6, PoppedNext
      <3> QED  BY <2>2, <3>7, Zenon
    <2>3. ASSUME i = L + 1, j = L + 1 PROVE PoppedTo(coms, i, j, H2[j])
      <3>1. i \in Nat /\ coms[i] = c
        BY <1>2, <2>3
      <3>2. ASSUME IsPush(c)
            PROVE  c.key \in DOMAIN H2[j] /\ H2[j][c.key] = List(Pushed(c))
        BY <1>4, <2>3, <3>2, PushLeaves, Zenon
      <3>3. ASSUME IsPush(c)
            PROVE  Remains(Pushed(c), Cardinality(PopsIn(coms, "Lpop", i, i)),
                           Cardinality(PopsIn(coms, "Rpop", i, i))) = Pushed(c)
        BY <3>1, <3>3, PushedSeq, PopNone, Zenon
      <3>4. i = j
        BY <2>3, Zenon
      <3> QED  BY <3>1, <3>2, <3>3, <3>4, Zenon DEF PoppedTo
    <2>4. \/ i \in 1 .. L /\ j \in i .. L
          \/ i \in 1 .. L /\ j = L + 1
          \/ i = L + 1 /\ j = L + 1
      BY <1>2
    <2> QED  BY <2>1, <2>2, <2>3, <2>4, Zenon
  <1>8. Popping(H2, committed)'
    BY <1>3, <1>7, Zenon
  <1> QED  BY <1>5, <1>6, <1>8, Zenon

LEMMA PerNodeExcept ==
  ASSUME NEW g, PerNode(g), NEW m \in Node, NEW v
  PROVE  /\ DOMAIN g = Node
         /\ [g EXCEPT ![m] = g[m]] = g
         /\ PerNode([g EXCEPT ![m] = v])
  <1>1. DOMAIN g = Node
    BY DEF PerNode
  <1>2. [g EXCEPT ![m] = g[m]] = [x \in Node |-> g[x]]
    BY <1>1, Zenon
  <1>3. PerNode([g EXCEPT ![m] = v])
    BY <1>1 DEF PerNode
  <1> QED  BY <1>1, <1>2, <1>3, Zenon DEF PerNode

\* What OnLedger says of a node is kept by a step that only concerns others.
LEMMA Elsewhere ==
  ASSUME EfisTypeInv, NEW H, OnLedger(H), NEW m \in Node, committed' = committed,
         NEW f, NEW st, NEW d, NEW ans,
         finished' = [finished EXCEPT ![m] = f], step' = [step EXCEPT ![m] = st],
         data' = [data EXCEPT ![m] = d], answers' = [answers EXCEPT ![m] = ans],
         Place(H, committed, f, st, d, ans), Items(d), IsSeq(ans)
  PROVE  EfisTypeInv' /\ OnLedger(H)'
  <1>1. DOMAIN finished = Node /\ DOMAIN step = Node /\ DOMAIN data = Node /\ DOMAIN answers = Node
    BY PerNodeExcept, Zenon DEF EfisTypeInv
  <1>2. ASSUME NEW x \in Node
        PROVE  /\ finished'[x] = IF x = m THEN f ELSE finished[x]
               /\ step'[x] = IF x = m THEN st ELSE step[x]
               /\ data'[x] = IF x = m THEN d ELSE data[x]
               /\ answers'[x] = IF x = m THEN ans ELSE answers[x]
    BY <1>1, Zenon
  <1>3. ASSUME NEW x \in Node
        PROVE  Place(H, committed, finished'[x], step'[x], data'[x], answers'[x])
    <2>1. CASE x = m
      BY <1>2, <2>1, Zenon
    <2>2. CASE x # m
      <3>1. Place(H, committed, finished[x], step[x], data[x], answers[x])
        BY Zenon DEF OnLedger
      <3>2. finished'[x] = finished[x] /\ step'[x] = step[x] /\ data'[x] = data[x] /\ answers'[x] = answers[x]
        BY <1>2, <2>2, Zenon
      <3> QED  BY <3>1, <3>2, Zenon
    <2> QED  BY <2>1, <2>2
  <1>4. OnLedger(H)'
    BY <1>3, Zenon DEF OnLedger
  <1>5. \A x \in Node : Items(data'[x]) /\ IsSeq(answers'[x])
    <2> SUFFICES ASSUME NEW x \in Node PROVE Items(data'[x]) /\ IsSeq(answers'[x])
      BY Zenon
    <2>1. Items(data[x]) /\ IsSeq(answers[x])
      BY Zenon DEF EfisTypeInv
    <2>2. CASE x = m
      BY <1>2, <2>2, Zenon
    <2>3. CASE x # m
      BY <1>2, <2>1, <2>3, Zenon
    <2> QED  BY <2>2, <2>3
  <1>6. PerNode(finished') /\ PerNode(step') /\ PerNode(data') /\ PerNode(answers')
    BY PerNodeExcept, Zenon DEF EfisTypeInv
  <1> QED  BY <1>4, <1>5, <1>6, Zenon DEF EfisTypeInv

LEMMA ApplyOnLedger ==
  ASSUME EfisTypeInv, NEW H, Ledger(H), OnLedger(H), NEW m \in Node, ApplyCommand(m)
  PROVE  EfisTypeInv' /\ OnLedger(H)'
  <1>1. PICK f, st, d, ans, c : /\ f = finished[m] /\ st = step[m] /\ d = data[m]
                                /\ ans = answers[m] /\ c = Cmd(m)
    BY Zenon
  <1>2. Place(H, committed, f, st, d, ans) /\ Items(d) /\ IsSeq(ans)
    BY <1>1, Zenon DEF OnLedger, EfisTypeInv
  <1>3. (st = "ready" \/ st = "second") /\ f < Len(committed)
    BY <1>1, Zenon
       DEF ApplyCommand, Set, DeleteKey, Increment, Decrement, Expire, Lpush, Rpush, Lpop, Rpop,
           Sadd, Zadd, PublishCommand, Vset, Vdel, At
  <1>4. c = committed[f + 1]
    BY <1>1, Zenon DEF Cmd
  <1>5. Before(m, c, H[f])
    <2>1. "ready" # "second" /\ "ready" # "stuck"
      OBVIOUS
    <2> QED  BY <1>1, <1>2, <1>3, <1>4, <2>1, Zenon DEF Before, Place
  <1>6. CallDone(m, c, H[f])
    BY <1>5, ApplyCall, Zenon
  <1>7. Len(committed) \in Nat /\ f \in Nat /\ f + 1 \in 1 .. Len(committed)
    BY <1>2, <1>3 DEF EfisTypeInv, Place
  <1>8. H[f + 1] = Outcome(c, H[f]).map
    <2>1. (f + 1) - 1 = f
      BY <1>7
    <2> QED  BY <1>4, <1>7, <2>1, Zenon DEF Ledger
  <1>9. CASE Does(m, Outcome(c, H[f]))
    <2>1. PICK e : /\ Items(e) /\ Values(e) = Outcome(c, H[f]).map
                   /\ Finish(m, e, Outcome(c, H[f]).res)
      BY <1>9, Zenon DEF Does
    <2>2. PICK res, g, t : res = Outcome(c, H[f]).res /\ g = f + 1 /\ t = Append(ans, res)
      BY Zenon
    <2>3. Place(H, committed, g, "ready", e, t)
      BY <1>2, <1>3, <1>4, <1>7, <1>8, <2>1, <2>2, PlaceFinished, Zenon
    <2>4. IsSeq(t)
      BY <1>2, <2>2, AppendOne, Zenon
    <2>5. /\ finished' = [finished EXCEPT ![m] = g] /\ step' = [step EXCEPT ![m] = "ready"]
          /\ data' = [data EXCEPT ![m] = e] /\ answers' = [answers EXCEPT ![m] = t]
          /\ committed' = committed
      BY <1>1, <2>1, <2>2, Zenon DEF Finish
    <2> QED  BY <2>1, <2>3, <2>4, <2>5, Elsewhere, Zenon
  <1>10. CASE st = "ready" /\ Begins(m, Middle(c, H[f])) /\ (Counts(c) => c.key \in DOMAIN H[f])
    <2>1. PICK e : Items(e) /\ Values(e) = Middle(c, H[f]) /\ Half(m, e)
      BY <1>10, Zenon DEF Begins
    <2>2. Place(H, committed, f, "second", e, ans)
      BY <1>2, <1>3, <1>4, <1>10, <2>1, PlaceBegun, Zenon
    <2>3. /\ finished' = [finished EXCEPT ![m] = f] /\ answers' = [answers EXCEPT ![m] = ans]
      BY <1>1, <2>1, PerNodeExcept, Zenon DEF Half, EfisTypeInv
    <2>4. /\ step' = [step EXCEPT ![m] = "second"] /\ data' = [data EXCEPT ![m] = e]
          /\ committed' = committed
      BY <2>1, Zenon DEF Half
    <2> QED  BY <1>2, <2>1, <2>2, <2>3, <2>4, Elsewhere, Zenon
  <1>11. ASSUME NEW how, LoopLost(m, how),
                \/ st = "ready" /\ how = "panicked"
                \/ st = "ready" /\ c.op = "VSet" /\ how = "stuck"
                \/ st = "second" /\ c.op # "VSet" /\ how = "stuck"
         PROVE  EfisTypeInv' /\ OnLedger(H)'
    <2>1. Place(H, committed, f, how, d, ans)
      BY <1>2, <1>3, <1>4, <1>11, PlaceLost, Zenon
    <2>2. /\ finished' = [finished EXCEPT ![m] = f] /\ answers' = [answers EXCEPT ![m] = ans]
          /\ data' = [data EXCEPT ![m] = d]
      BY <1>1, <1>11, PerNodeExcept, Zenon DEF LoopLost, EfisTypeInv
    <2>3. step' = [step EXCEPT ![m] = how] /\ committed' = committed
      BY <1>11, Zenon DEF LoopLost
    <2> QED  BY <1>2, <2>1, <2>2, <2>3, Elsewhere, Zenon
  <1> QED  BY <1>1, <1>6, <1>9, <1>10, <1>11, Zenon DEF CallDone

LEMMA EfisInitInv ==
  ASSUME EfisInit PROVE EfisTypeInv /\ \E H : Ledger(H) /\ OnLedger(H) /\ Popping(H, committed)
  <1>1. PICK H : H = [i \in {0} |-> [k \in {} |-> Word]]
    BY Zenon
  <1>2. H[0] = [k \in {} |-> Word]
    BY <1>1
  <1>3. committed = <<>> /\ Len(committed) = 0 /\ committed \in Seq(Cmds)
    BY DEF EfisInit
  <1>4. Ledger(H)
    <2>1. \A i \in 1 .. Len(committed) : FALSE
      BY <1>3
    <2> QED  BY <1>2, <2>1, Zenon DEF Ledger
  <1>5. ASSUME NEW m \in Node
        PROVE  finished[m] = 0 /\ step[m] = "ready" /\ data[m] = <<>> /\ answers[m] = <<>>
    BY Zenon DEF EfisInit
  <1>6. PICK s : s = <<>>
    BY Zenon
  <1>7. IsSeq(s) /\ Items(s) /\ Len(s) = 0 /\ Values(s) = [k \in {} |-> Word]
    <2>1. Len(s) = 0 /\ DOMAIN s = {} /\ s \in Seq({})
      BY <1>6
    <2>2. Items(s)
      BY <2>1 DEF Items
    <2>3. Range(s) = {}
      BY <2>1 DEF Range
    <2>4. Values(s) = [k \in {} |-> Word]
      BY <2>1 DEF Values
    <2> QED  BY <2>1, <2>2, <2>3, <2>4 DEF IsSeq
  <1>8. Place(H, committed, 0, "ready", s, s)
    <2>1. 0 \in 0 .. Len(committed) /\ \A i \in 1 .. 0 : FALSE
      BY <1>3
    <2>2. "ready" # "second" /\ "ready" # "stuck"
      OBVIOUS
    <2> QED  BY <1>2, <1>7, <2>1, <2>2, Zenon DEF Place
  <1>9. OnLedger(H)
    BY <1>5, <1>6, <1>8, Zenon DEF OnLedger
  <1>10. EfisTypeInv
    <2>1. PerNode(data) /\ PerNode(finished) /\ PerNode(step) /\ PerNode(answers)
      BY DEF EfisInit, PerNode
    <2> QED  BY <1>3, <1>5, <1>6, <1>7, <2>1, Zenon DEF EfisTypeInv
  <1>11. Popping(H, committed)
    <2>1. \A i \in 1 .. Len(committed) : FALSE
      BY <1>3
    <2> QED  BY <2>1, Zenon DEF Popping
  <1> QED  BY <1>4, <1>9, <1>10, <1>11, Zenon

\* The ledger, through every step.
EfisInv == EfisTypeInv /\ \E H : Ledger(H) /\ OnLedger(H) /\ Popping(H, committed)

LEMMA EfisStepInv ==
  ASSUME EfisInv, [EfisNext]_efisVars PROVE EfisInv'
  <1>1. EfisTypeInv
    BY Zenon DEF EfisInv
  <1>2. PICK H : Ledger(H) /\ OnLedger(H) /\ Popping(H, committed)
    BY Zenon DEF EfisInv
  <1>3. ASSUME UNCHANGED <<committed, data, finished, step, answers>> PROVE EfisInv'
    <2>1. EfisTypeInv'
      BY <1>1, <1>3, Zenon DEF EfisTypeInv
    <2>2. Ledger(H)' /\ OnLedger(H)'
      BY <1>2, <1>3, Zenon DEF Ledger, OnLedger
    <2>3. Popping(H, committed)'
      BY <1>2, <1>3, Zenon
    <2> QED  BY <2>1, <2>2, <2>3, Zenon DEF EfisInv
  <1>4. ASSUME NEW c \in Cmds, Commit(c) PROVE EfisInv'
    <2>1. committed \in Seq(Cmds)
      BY <1>1, Zenon DEF EfisTypeInv
    <2>2. \E H2 : Ledger(H2)' /\ OnLedger(H2)' /\ Popping(H2, committed)'
      BY <1>2, <1>4, <2>1, LedgerGrows, Zenon
    <2>3. EfisTypeInv'
      <3>1. committed' \in Seq(Cmds)
        BY <1>4, <2>1 DEF Commit
      <3>2. UNCHANGED <<data, finished, step, answers>>
        BY <1>4, Zenon DEF Commit
      <3> QED  BY <1>1, <3>1, <3>2, Zenon DEF EfisTypeInv
    <2> QED  BY <2>2, <2>3, Zenon DEF EfisInv
  <1>5. ASSUME NEW m \in Node, ApplyCommand(m) PROVE EfisInv'
    <2>1. EfisTypeInv' /\ OnLedger(H)'
      BY <1>1, <1>2, <1>5, ApplyOnLedger, Zenon
    <2>2. committed' = committed
      BY <1>5, Zenon
         DEF ApplyCommand, Set, DeleteKey, Increment, Decrement, Expire, Lpush, Rpush, Lpop,
             Rpop, Sadd, Zadd, PublishCommand, Vset, Vdel, ReadBack, Emptied, Fill, Fails,
             Finish, Half, LoopLost
    <2>3. Ledger(H)'
      BY <1>2, <2>2, Zenon DEF Ledger
    <2>4. Popping(H, committed)'
      BY <1>2, <2>2, Zenon
    <2> QED  BY <2>1, <2>3, <2>4, Zenon DEF EfisInv
  <1>6. ASSUME NEW m \in Node, ClockTick(m) PROVE EfisInv'
    BY <1>3, <1>6, Zenon DEF ClockTick
  <1>7. ASSUME NEW r, NEW m, NEW k, NEW op, ReadCall(r, m, op, k) PROVE EfisInv'
    BY <1>3, <1>7, Zenon DEF ReadCall
  <1>8. ASSUME NEW r, Read(r) PROVE EfisInv'
    <2>1. UNCHANGED <<committed, data, finished, step, answers>>
      BY <1>8, Zenon DEF Read, Get, Ttl, Smembers, Zrange, Vsearch, Answer, ReadExpired
    <2> QED  BY <1>3, <2>1
  <1>9. CASE UNCHANGED efisVars
    BY <1>3, <1>9, Zenon DEF efisVars
  <1> QED  BY <1>4, <1>5, <1>6, <1>7, <1>8, <1>9, Zenon DEF EfisNext

LEMMA LedgerAgrees ==
  ASSUME EfisInv PROVE ReplicasAgree
  <1>1. PICK H : Ledger(H) /\ OnLedger(H)
    BY Zenon DEF EfisInv
  <1>2. SUFFICES ASSUME NEW m \in Node, NEW p \in Node
                 PROVE  /\ (finished[m] = finished[p] /\ step[m] = step[p]) => Contents(m) = Contents(p)
                        /\ \A i \in DOMAIN answers[m] \cap DOMAIN answers[p] : answers[m][i] = answers[p][i]
    BY Zenon DEF ReplicasAgree
  <1>3. /\ Place(H, committed, finished[m], step[m], data[m], answers[m])
        /\ Place(H, committed, finished[p], step[p], data[p], answers[p])
    BY <1>1, Zenon DEF OnLedger
  <1>4. ASSUME finished[m] = finished[p], step[m] = step[p] PROVE Contents(m) = Contents(p)
    <2>1. PICK v : v = IF step[m] = "second" \/ (step[m] = "stuck" /\ committed[finished[m] + 1].op # "VSet")
                       THEN Middle(committed[finished[m] + 1], H[finished[m]]) ELSE H[finished[m]]
      BY Zenon
    <2>2. Values(data[m]) = v
      BY <1>3, <2>1, Zenon DEF Place
    <2>3. Place(H, committed, finished[m], step[m], data[p], answers[p])
      BY <1>3, <1>4, Zenon
    <2>4. Values(data[p]) = v
      BY <2>1, <2>3, Zenon DEF Place
    <2> QED  BY <2>2, <2>4, Zenon DEF Contents, Values
  <1>5. IsSeq(answers[m]) /\ IsSeq(answers[p])
    BY Zenon DEF EfisInv, EfisTypeInv
  <1>6. PICK s, t, f, g : s = answers[m] /\ t = answers[p] /\ f = finished[m] /\ g = finished[p]
    BY Zenon
  <1>7. /\ f \in 0 .. Len(committed) /\ g \in 0 .. Len(committed) /\ Len(s) = f /\ Len(t) = g
        /\ \A i \in 1 .. f : s[i] = Outcome(committed[i], H[i - 1]).res
        /\ \A i \in 1 .. g : t[i] = Outcome(committed[i], H[i - 1]).res
    BY <1>3, <1>6, Zenon DEF Place
  <1>8. DOMAIN s = 1 .. f /\ DOMAIN t = 1 .. g
    BY <1>5, <1>6, <1>7 DEF IsSeq
  <1>9. \A i \in DOMAIN s \cap DOMAIN t : s[i] = t[i]
    BY <1>7, <1>8, Zenon
  <1> QED  BY <1>4, <1>6, <1>9, Zenon

\* Nodes that have applied the same commands hold the same values and have
\* given the same answers, for any number of nodes, any commands and any
\* clocks: what process_cmd does to the store does not depend on the node
\* (efis.rs:211-234, 256-882).
THEOREM NodesAgree == EfisSpec => []ReplicasAgree
  <1>1. EfisInit => EfisInv
    BY EfisInitInv, Zenon DEF EfisInv
  <1>2. EfisInv /\ [EfisNext]_efisVars => EfisInv'
    BY EfisStepInv, Zenon
  <1>3. EfisInv => ReplicasAgree
    BY LedgerAgrees, Zenon
  <1> QED  BY <1>1, <1>2, <1>3, PTL DEF EfisSpec

-----------------------------------------------------------------------------
(* Reads.  A set in the map is one that a command finished with, or the    *)
(* empty one in the middle of a sadd.                                      *)

Harmless(v) == v.kind # "set" \/ v = SetOf({})
Settled(m, k) == GetRes(data[m][k].value) \in past[m][k] \/ Harmless(data[m][k].value)

Asking(x) == x = [at |-> x.at, node |-> x.node, op |-> x.op, key |-> x.key, res |-> x.res]
Replied(x) == x.at = "idle" /\ x.op = "smembers" /\ x.res.late = "value"

ReadInv ==
    /\ PerNode(past)
    /\ reader = [r \in Reader |-> reader[r]]
    /\ \A m \in Node : \A k \in Key : k \in DOMAIN data[m] => Settled(m, k)
    /\ \A r \in Reader :
          /\ Asking(reader[r])
          /\ reader[r].at = "called" \/ Replied(reader[r]) =>
                reader[r].node \in Node /\ reader[r].key \in Key
    /\ ReadsCommitted

\* The first call of a command leaves a set behind only if it was there, or
\* an empty one.
Opened(m, d) ==
    \/ d = data[m]
    \/ \E v : /\ Values(d) = With(Values(data[m]), Cmd(m).key, v)
              /\ Harmless(v) \/ (Here(m) /\ v = Cur(m))

LEMMA OpenedHarmless ==
  ASSUME NEW m, NEW d, Opened(m, d), NEW k \in DOMAIN d
  PROVE  \/ k \in DOMAIN data[m] /\ d[k].value = data[m][k].value
         \/ Harmless(d[k].value)
  <1>1. CASE d = data[m]
    BY <1>1, Zenon
  <1>2. ASSUME NEW v, Values(d) = With(Values(data[m]), Cmd(m).key, v)
        PROVE  IF k = Cmd(m).key THEN d[k].value = v
               ELSE k \in DOMAIN data[m] /\ d[k].value = data[m][k].value
    <2>1. d[k].value = With(Values(data[m]), Cmd(m).key, v)[k] /\ k \in DOMAIN With(Values(data[m]), Cmd(m).key, v)
      BY <1>2, ValuesAt, Zenon
    <2>2. PICK w : w = Values(data[m])
      BY Zenon
    <2>3. DOMAIN w = DOMAIN data[m] /\ \A x \in DOMAIN data[m] : w[x] = data[m][x].value
      BY <2>2, ValuesAt, Zenon
    <2>4. /\ DOMAIN With(w, Cmd(m).key, v) = DOMAIN w \cup {Cmd(m).key}
          /\ \A x \in DOMAIN w \cup {Cmd(m).key} :
                With(w, Cmd(m).key, v)[x] = IF x = Cmd(m).key THEN v ELSE w[x]
      BY Zenon DEF With
    <2>5. k = Cmd(m).key \/ k \in DOMAIN data[m]
      BY <2>1, <2>2, <2>3, <2>4
    <2>6. k = Cmd(m).key => d[k].value = v
      BY <2>1, <2>2, <2>4, Zenon
    <2>7. k # Cmd(m).key => d[k].value = data[m][k].value
      BY <2>1, <2>2, <2>3, <2>4, <2>5
    <2> QED  BY <2>5, <2>6, <2>7, Zenon
  <1>3. ASSUME NEW v, Values(d) = With(Values(data[m]), Cmd(m).key, v),
               Harmless(v) \/ (Here(m) /\ v = Cur(m))
        PROVE  \/ k \in DOMAIN data[m] /\ d[k].value = data[m][k].value
               \/ Harmless(d[k].value)
    <2>1. IF k = Cmd(m).key THEN d[k].value = v
          ELSE k \in DOMAIN data[m] /\ d[k].value = data[m][k].value
      BY <1>2, <1>3, Zenon
    <2> QED  BY <1>3, <2>1, Zenon DEF Here, Cur
  <1> QED  BY <1>1, <1>3, Zenon DEF Opened

LEMMA PlusHarmless ==
  ASSUME NEW v, NEW by PROVE Plus(v, by) = v \/ Harmless(Plus(v, by))
  BY DEF Plus, Harmless, Number, Value

LEMMA EmptyHarmless ==
  ASSUME NEW dim PROVE Harmless(List(<<>>)) /\ Harmless(SetOf({})) /\ Harmless(SortedSet(<<>>)) /\ Harmless(Vector(<<>>, dim))
  BY DEF Harmless, List, SetOf, SortedSet, Vector, Value

\* What a call changes.
LEMMA CallChanges ==
  ASSUME NEW m, Items(data[m]), ApplyCommand(m)
  PROVE  \/ \E d, res : Finish(m, d, res)
         \/ \E d : Opened(m, d) /\ Half(m, d)
         \/ \E how : LoopLost(m, how)
  <1> DEFINE Change == \/ \E d, res : Finish(m, d, res)
                       \/ \E d : Opened(m, d) /\ Half(m, d)
                       \/ \E how : LoopLost(m, how)
  <1>1. Set(m) \/ DeleteKey(m) \/ Expire(m) \/ Lpop(m) \/ Rpop(m) \/ PublishCommand(m) \/ Vdel(m) => Change
    BY Zenon DEF Set, DeleteKey, Expire, Lpop, Rpop, PublishCommand, Vdel, Fails
  <1>2. ASSUME NEW by, Here(m), Half(m, StoreModify(data[m], Cmd(m).key, Plus(Cur(m), by))) PROVE Change
    <2>1. PICK v : v = Plus(Cur(m), by)
      BY Zenon
    <2>2. Values(StoreModify(data[m], Cmd(m).key, v)) = With(Values(data[m]), Cmd(m).key, v)
      BY <1>2, StoreModifyValues, Zenon DEF Here
    <2>3. Harmless(v) \/ v = Cur(m)
      BY <2>1, PlusHarmless, Zenon
    <2>4. Opened(m, StoreModify(data[m], Cmd(m).key, v))
      BY <1>2, <2>2, <2>3, Zenon DEF Opened
    <2> QED  BY <1>2, <2>1, <2>4, Zenon
  <1>3. ASSUME NEW v, Harmless(v), Emptied(m, v) PROVE Change
    <2>1. PICK d : d = StoreSet(data[m], Cmd(m).key, v, Never, clock[m])
      BY Zenon
    <2>2. Values(d) = With(Values(data[m]), Cmd(m).key, v)
      BY <2>1, StoreSetValues
    <2>3. Opened(m, d)
      BY <1>3, <2>2, Zenon DEF Opened
    <2> QED  BY <1>3, <2>1, <2>3, Zenon DEF Emptied
  <1>4. ASSUME NEW kind, NEW v, Fill(m, kind, v) PROVE Change
    BY <1>4, Zenon DEF Fill, Fails
  <1>5. Increment(m) \/ Decrement(m) => Change
    BY <1>2, Zenon DEF Increment, Decrement, ReadBack, Fails
  <1>6. Lpush(m) \/ Rpush(m) \/ Sadd(m) \/ Zadd(m) => Change
    <2>1. Harmless(List(<<>>)) /\ Harmless(SetOf({})) /\ Harmless(SortedSet(<<>>))
      BY EmptyHarmless, Zenon
    <2> HIDE DEF Change
    <2> QED  BY <1>3, <1>4, <2>1, Zenon DEF Lpush, Rpush, Sadd, Zadd
  <1>7. Vset(m) => Change
    <2>1. \A dim : Harmless(Vector(<<>>, dim))
      BY EmptyHarmless, Zenon
    <2>2. Half(m, data[m]) => Change
      BY Zenon DEF Opened
    <2>3. \A how : LoopLost(m, how) => Change
      BY Zenon
    <2> HIDE DEF Change
    <2> QED  BY <1>3, <1>4, <2>1, <2>2, <2>3, Zenon DEF Vset
  <1> HIDE DEF Change
  <1>8. Change
    BY <1>1, <1>5, <1>6, <1>7, Zenon DEF ApplyCommand
  <1> QED  BY <1>8, Zenon DEF Change

\* A step that leaves the readers alone and forgets no past value.
LEMMA ReadersKept ==
  ASSUME ReadInv, reader' = reader,
         \A m \in Node : \A k \in Key : past[m][k] \subseteq past'[m][k]
  PROVE  ReadsCommitted'
  <1> SUFFICES ASSUME NEW r \in Reader, Replied(reader[r])
               PROVE  reader[r].res \in past'[reader[r].node][reader[r].key] \cup {GetRes(SetOf({}))}
    BY Zenon DEF ReadsCommitted, Replied
  <1>1. reader[r].node \in Node /\ reader[r].key \in Key
    BY Zenon DEF ReadInv
  <1>2. reader[r].res \in past[reader[r].node][reader[r].key] \cup {GetRes(SetOf({}))}
    BY Zenon DEF ReadInv, ReadsCommitted, Replied
  <1>3. past[reader[r].node][reader[r].key] \subseteq past'[reader[r].node][reader[r].key]
    BY <1>1, Zenon
  <1> QED  BY <1>2, <1>3, Zenon

LEMMA FinishRead ==
  ASSUME EfisTypeInv, ReadInv, NEW m \in Node, NEW d, NEW res, Finish(m, d, res)
  PROVE  ReadInv'
  <1>1. PICK h : h = [k \in Key |-> past[m][k] \cup
                        {IF k \in DOMAIN d THEN GetRes(d[k].value) ELSE ErrRes}]
    BY Zenon
  <1>2. data' = [data EXCEPT ![m] = d] /\ past' = [past EXCEPT ![m] = h] /\ reader' = reader
    BY <1>1, Zenon DEF Finish
  <1>3. DOMAIN data = Node /\ DOMAIN past = Node /\ PerNode(past')
    BY <1>2, PerNodeExcept, Zenon DEF EfisTypeInv, ReadInv
  <1>4. ASSUME NEW x \in Node
        PROVE  data'[x] = (IF x = m THEN d ELSE data[x]) /\ past'[x] = IF x = m THEN h ELSE past[x]
    BY <1>2, <1>3, Zenon
  <1>5. ASSUME NEW k \in Key
        PROVE  past[m][k] \subseteq h[k] /\ (k \in DOMAIN d => GetRes(d[k].value) \in h[k])
    BY <1>1, Zenon
  <1>6. \A x \in Node : \A k \in Key : past[x][k] \subseteq past'[x][k]
    BY <1>4, <1>5, Zenon
  <1>7. ASSUME NEW x \in Node, NEW k \in Key, k \in DOMAIN data'[x] PROVE Settled(x, k)'
    <2>1. CASE x = m
      BY <1>4, <1>5, <1>7, <2>1, Zenon DEF Settled
    <2>2. CASE x # m
      <3>1. data'[x] = data[x] /\ past'[x] = past[x]
        BY <1>4, <2>2, Zenon
      <3>2. Settled(x, k)
        BY <1>7, <3>1, Zenon DEF ReadInv
      <3> QED  BY <3>1, <3>2, Zenon DEF Settled
    <2> QED  BY <2>1, <2>2
  <1>8. ReadsCommitted'
    BY <1>2, <1>6, ReadersKept, Zenon
  <1> QED  BY <1>2, <1>3, <1>7, <1>8, Zenon DEF ReadInv

LEMMA HalfRead ==
  ASSUME EfisTypeInv, ReadInv, NEW m \in Node, NEW d, Opened(m, d), Half(m, d)
  PROVE  ReadInv'
  <1>1. data' = [data EXCEPT ![m] = d] /\ past' = past /\ reader' = reader
    BY Zenon DEF Half
  <1>2. DOMAIN data = Node
    BY PerNodeExcept, Zenon DEF EfisTypeInv
  <1>3. ASSUME NEW x \in Node PROVE data'[x] = IF x = m THEN d ELSE data[x]
    BY <1>1, <1>2, Zenon
  <1>4. ASSUME NEW x \in Node, NEW k \in Key, k \in DOMAIN data'[x] PROVE Settled(x, k)'
    <2>1. CASE x = m
      <3>1. data'[x] = d /\ k \in DOMAIN d
        BY <1>3, <1>4, <2>1, Zenon
      <3>2. \/ k \in DOMAIN data[m] /\ d[k].value = data[m][k].value
            \/ Harmless(d[k].value)
        BY <3>1, OpenedHarmless, Zenon
      <3>3. k \in DOMAIN data[m] => Settled(m, k)
        BY Zenon DEF ReadInv
      <3> QED  BY <1>1, <2>1, <3>1, <3>2, <3>3, Zenon DEF Settled
    <2>2. CASE x # m
      <3>1. data'[x] = data[x]
        BY <1>3, <2>2, Zenon
      <3>2. Settled(x, k)
        BY <1>4, <3>1, Zenon DEF ReadInv
      <3> QED  BY <1>1, <3>1, <3>2, Zenon DEF Settled
    <2> QED  BY <2>1, <2>2
  <1>5. ReadsCommitted'
    BY <1>1, Zenon DEF ReadInv, ReadsCommitted
  <1> QED  BY <1>1, <1>4, <1>5, Zenon DEF ReadInv

LEMMA DataKeptRead ==
  ASSUME ReadInv, UNCHANGED <<data, past, reader>> PROVE ReadInv'
  BY Zenon DEF ReadInv, ReadsCommitted, Settled

\* A step of one reader.
LEMMA ReaderStep ==
  ASSUME ReadInv, UNCHANGED <<data, past>>, NEW r \in Reader, NEW x,
         reader' = [reader EXCEPT ![r] = x], Asking(x),
         x.at = "called" \/ Replied(x) => x.node \in Node /\ x.key \in Key,
         Replied(x) => x.res \in past[x.node][x.key] \cup {GetRes(SetOf({}))}
  PROVE  ReadInv'
  <1>1. DOMAIN reader = Reader
    BY DEF ReadInv
  <1>2. ASSUME NEW q \in Reader PROVE reader'[q] = IF q = r THEN x ELSE reader[q]
    BY <1>1, Zenon
  <1>3. reader' = [q \in Reader |-> reader'[q]]
    BY <1>1, Zenon
  <1>4. ASSUME NEW q \in Reader
        PROVE  /\ Asking(reader'[q])
               /\ reader'[q].at = "called" \/ Replied(reader'[q]) =>
                     reader'[q].node \in Node /\ reader'[q].key \in Key
               /\ Replied(reader'[q]) =>
                     reader'[q].res \in past[reader'[q].node][reader'[q].key] \cup {GetRes(SetOf({}))}
    <2>1. CASE q = r
      <3>1. reader'[q] = x
        BY <1>2, <2>1, Zenon
      <3> QED  BY <3>1, Zenon
    <2>2. CASE q # r
      <3>1. reader'[q] = reader[q]
        BY <1>2, <2>2, Zenon
      <3>2. /\ Asking(reader[q])
            /\ reader[q].at = "called" \/ Replied(reader[q]) => reader[q].node \in Node /\ reader[q].key \in Key
        BY Zenon DEF ReadInv
      <3>3. Replied(reader[q]) =>
              reader[q].res \in past[reader[q].node][reader[q].key] \cup {GetRes(SetOf({}))}
        BY Zenon DEF ReadInv, ReadsCommitted, Replied
      <3> QED  BY <3>1, <3>2, <3>3, Zenon
    <2> QED  BY <2>1, <2>2, Zenon
  <1>5. ReadsCommitted'
    <2>1. \A q \in Reader : Replied(reader'[q]) =>
             reader'[q].res \in past'[reader'[q].node][reader'[q].key] \cup {GetRes(SetOf({}))}
      BY <1>4, Zenon
    <2> QED  BY <2>1, Zenon DEF ReadsCommitted, Replied
  <1>6. PerNode(past') /\ \A m \in Node : \A k \in Key : k \in DOMAIN data'[m] => Settled(m, k)'
    BY Zenon DEF ReadInv, Settled
  <1> QED  BY <1>3, <1>4, <1>5, <1>6, Zenon DEF ReadInv

LEMMA AnswerRead ==
  ASSUME ReadInv, NEW r \in Reader, NEW op, NEW res, Answer(r, op, res),
         op = "smembers" => res = IfKind(r, {"set"})
  PROVE  ReadInv'
  <1>1. PICK y, k, m, out : /\ y = reader[r] /\ k = y.key /\ m = y.node
                            /\ out = IF k \in DOMAIN data[m] THEN res ELSE ErrRes
    BY Zenon
  <1>2. PICK x : x = [at |-> "idle", node |-> m, op |-> y.op, key |-> k, res |-> out]
    BY Zenon
  <1>3. Asking(y) /\ y.at = "called" /\ y.op = op /\ UNCHANGED <<data, past>>
    BY <1>1, Zenon DEF ReadInv, Answer
  <1>4. reader' = [reader EXCEPT ![r] = x]
    <2>1. reader' = [reader EXCEPT ![r].at = "idle", ![r].res = out]
      BY <1>1, Zenon DEF Answer
    <2>2. [[y EXCEPT !.at = "idle"] EXCEPT !.res = out] = x
      <3>1. PICK a, o, q : a = y.at /\ o = y.op /\ q = y.res
        BY Zenon
      <3>2. y = [at |-> a, node |-> m, op |-> o, key |-> k, res |-> q]
        BY <1>1, <1>3, <3>1, Zenon DEF Asking
      <3>3. PICK z : z = [y EXCEPT !.at = "idle"]
        BY Zenon
      <3>4. z = [at |-> "idle", node |-> m, op |-> o, key |-> k, res |-> q]
        BY <3>2, <3>3
      <3>5. [z EXCEPT !.res = out] = [at |-> "idle", node |-> m, op |-> o, key |-> k, res |-> out]
        BY <3>4
      <3> QED  BY <1>2, <3>1, <3>3, <3>5, Zenon
    <2>3. reader = [q \in Reader |-> reader[q]]
      BY Zenon DEF ReadInv
    <2> QED  BY <1>1, <2>1, <2>2, <2>3, Zenon
  <1>5. m \in Node /\ k \in Key
    BY <1>1, <1>3, Zenon DEF ReadInv
  <1>6. Asking(x) /\ x.node = m /\ x.key = k /\ x.op = op /\ x.res = out
    BY <1>2, <1>3 DEF Asking
  <1>7. ASSUME Replied(x) PROVE x.res \in past[m][k] \cup {GetRes(SetOf({}))}
    <2>1. op = "smembers" /\ out.late = "value"
      BY <1>6, <1>7, Zenon DEF Replied
    <2>2. ErrRes.late # "value"
      BY DEF ErrRes
    <2>3. k \in DOMAIN data[m] /\ out = IfKind(r, {"set"})
      BY <1>1, <2>1, <2>2, Zenon
    <2>4. PICK v : v = data[m][k].value
      BY Zenon
    <2>5. v = Found(r)
      BY <1>1, <2>4, Zenon DEF Found
    <2>6. out = GetRes(v) /\ v.kind = "set"
      BY <2>1, <2>2, <2>3, <2>5, Zenon DEF IfKind
    <2>7. GetRes(v) \in past[m][k] \/ v = SetOf({})
      <3>1. Settled(m, k)
        BY <1>5, <2>3, Zenon DEF ReadInv
      <3> QED  BY <2>4, <2>6, <3>1, Zenon DEF Settled, Harmless
    <2> QED  BY <1>6, <2>6, <2>7, Zenon
  <1>8. Replied(x) => x.res \in past[x.node][x.key] \cup {GetRes(SetOf({}))}
    BY <1>6, <1>7, Zenon
  <1>9. x.node \in Node /\ x.key \in Key
    BY <1>5, <1>6, Zenon
  <1> QED  BY <1>3, <1>4, <1>6, <1>8, <1>9, ReaderStep, Zenon

LEMMA ReadStepInv ==
  ASSUME EfisInv, ReadInv, [EfisNext]_efisVars PROVE ReadInv'
  <1>1. EfisTypeInv
    BY Zenon DEF EfisInv
  <1>2. ASSUME NEW m \in Node, ApplyCommand(m) PROVE ReadInv'
    <2>1. Items(data[m])
      BY <1>1, Zenon DEF EfisTypeInv
    <2>2. \/ \E d, res : Finish(m, d, res)
          \/ \E d : Opened(m, d) /\ Half(m, d)
          \/ \E how : LoopLost(m, how)
      BY <1>2, <2>1, CallChanges, Zenon
    <2>3. ASSUME NEW how, LoopLost(m, how) PROVE ReadInv'
      BY <2>3, DataKeptRead, Zenon DEF LoopLost
    <2> QED  BY <1>1, <2>2, <2>3, FinishRead, HalfRead, Zenon
  <1>3. ASSUME NEW c, Commit(c) PROVE ReadInv'
    BY <1>3, DataKeptRead, Zenon DEF Commit
  <1>4. ASSUME NEW m, ClockTick(m) PROVE ReadInv'
    BY <1>4, DataKeptRead, Zenon DEF ClockTick
  <1>5. ASSUME NEW r \in Reader, NEW m \in Node, NEW k \in Key, NEW op, ReadCall(r, m, op, k) PROVE ReadInv'
    <2>1. PICK x : x = [at |-> "called", node |-> m, op |-> op, key |-> k, res |-> OkRes]
      BY Zenon
    <2>2. Asking(x) /\ x.at = "called" /\ x.node = m /\ x.key = k
      BY <2>1 DEF Asking
    <2>3. reader' = [reader EXCEPT ![r] = x] /\ UNCHANGED <<data, past>>
      BY <1>5, <2>1, Zenon DEF ReadCall
    <2>4. ~Replied(x)
      BY <2>2 DEF Replied
    <2> QED  BY <2>2, <2>3, <2>4, ReaderStep, Zenon
  <1>6. ASSUME NEW r \in Reader, Read(r) PROVE ReadInv'
    <2>1. Get(r) \/ Ttl(r) \/ Zrange(r) \/ Vsearch(r) => ReadInv'
      <3>1. "get" # "smembers" /\ "ttl" # "smembers" /\ "zrange" # "smembers" /\ "vsearch" # "smembers"
        OBVIOUS
      <3> QED  BY <3>1, AnswerRead, Zenon DEF Get, Ttl, Zrange, Vsearch
    <2>2. Smembers(r) => ReadInv'
      BY AnswerRead, Zenon DEF Smembers
    <2>3. ASSUME ReadExpired(r) PROVE ReadInv'
      <3>1. PICK y : y = reader[r]
        BY Zenon
      <3>2. PICK x : x = [at |-> "stuck", node |-> y.node, op |-> y.op, key |-> y.key, res |-> y.res]
        BY Zenon
      <3>3. Asking(y)
        BY <3>1, Zenon DEF ReadInv
      <3>4. [y EXCEPT !.at = "stuck"] = x
        BY <3>2, <3>3 DEF Asking
      <3>5. reader' = [reader EXCEPT ![r].at = "stuck"] /\ UNCHANGED <<data, past>>
        BY <2>3, Zenon DEF ReadExpired
      <3>6. reader' = [reader EXCEPT ![r] = x]
        BY <3>1, <3>4, <3>5, Zenon
      <3>7. Asking(x) /\ x.at # "called" /\ ~Replied(x)
        BY <3>2 DEF Asking, Replied
      <3> QED  BY <3>5, <3>6, <3>7, ReaderStep, Zenon
    <2> QED  BY <1>6, <2>1, <2>2, <2>3, Zenon DEF Read
  <1>7. CASE UNCHANGED efisVars
    BY <1>7, DataKeptRead, Zenon DEF efisVars
  <1> QED  BY <1>2, <1>3, <1>4, <1>5, <1>6, <1>7, Zenon DEF EfisNext

LEMMA ReadInitInv == ASSUME EfisInit PROVE ReadInv
  <1>1. PerNode(past) /\ reader = [r \in Reader |-> reader[r]]
    BY DEF EfisInit, PerNode
  <1>2. \A m \in Node : DOMAIN data[m] = {}
    BY DEF EfisInit
  <1>3. ASSUME NEW r \in Reader PROVE Asking(reader[r]) /\ reader[r].at # "called" /\ ~Replied(reader[r])
    <2>1. reader[r] = NoRead
      BY Zenon DEF EfisInit
    <2> QED  BY <2>1 DEF NoRead, Asking, Replied
  <1>4. ReadsCommitted
    BY <1>3, Zenon DEF ReadsCommitted, Replied
  <1> QED  BY <1>1, <1>2, <1>3, <1>4, Zenon DEF ReadInv

\* A client that asks a node for a set gets one that a command left there,
\* or the empty one: a read that falls between the two calls of a sadd
\* (efis.rs:633-664) sees nothing else, whatever the commands and the
\* number of nodes and readers.
THEOREM SetsReadWhole == EfisSpec => []ReadsCommitted
  <1>1. EfisInit => EfisInv /\ ReadInv
    BY EfisInitInv, ReadInitInv, Zenon DEF EfisInv
  <1>2. EfisInv /\ ReadInv /\ [EfisNext]_efisVars => EfisInv' /\ ReadInv'
    BY EfisStepInv, ReadStepInv, Zenon
  <1>3. ReadInv => ReadsCommitted
    BY Zenon DEF ReadInv
  <1> QED  BY <1>1, <1>2, <1>3, PTL DEF EfisSpec

-----------------------------------------------------------------------------
(* The answers to pops.                                                    *)

\* Between i and j there is room for j - i - 1 commands, so when there are
\* as many pops, all of them are pops.
LEMMA AllPops ==
  ASSUME NEW coms, NEW i \in Nat, NEW j \in Nat, i <= j,
         Cardinality(PopsIn(coms, "Lpop", i, j)) + Cardinality(PopsIn(coms, "Rpop", i, j)) = j - i
  PROVE  \A x \in i + 1 .. j : IsPop(coms[x])
  <1>1. PICK A, B, C : A = PopsIn(coms, "Lpop", i, j) /\ B = PopsIn(coms, "Rpop", i, j) /\ C = i + 1 .. j
    BY Zenon
  <1>2. IsFiniteSet(A) /\ IsFiniteSet(B) /\ Cardinality(A) \in Nat /\ Cardinality(B) \in Nat
    BY <1>1, PopsCount, Zenon
  <1>3. IsFiniteSet(C) /\ Cardinality(C) = j - i
    <2>1. i + 1 \in Int /\ j \in Int
      OBVIOUS
    <2>2. IsFiniteSet(C) /\ Cardinality(C) = IF i + 1 > j THEN 0 ELSE j - (i + 1) + 1
      BY <1>1, <2>1, FS_Interval, Zenon
    <2> QED  BY <2>2
  <1>4. A \cap B = {}
    <2>1. "Lpop" # "Rpop"
      OBVIOUS
    <2> QED  BY <1>1, <2>1, Zenon DEF PopsIn
  <1>5. Cardinality(A \cup B) = Cardinality(A) + Cardinality(B) - 0
    <2>1. Cardinality(A \cup B) = Cardinality(A) + Cardinality(B) - Cardinality(A \cap B)
      BY <1>2, FS_Union
    <2>2. Cardinality(A \cap B) = 0
      BY <1>4, FS_EmptySet, Zenon
    <2> QED  BY <2>1, <2>2, Zenon
  <1>6. Cardinality(C) = Cardinality(A \cup B)
    BY <1>1, <1>2, <1>3, <1>5
  <1>7. A \cup B \in SUBSET C
    BY <1>1, Zenon DEF PopsIn
  <1>8. C = A \cup B
    BY <1>3, <1>6, <1>7, FS_Subset, Zenon
  <1> QED  BY <1>1, <1>8, Zenon DEF PopsIn, IsPop

LEMMA PopsRight ==
  ASSUME EfisInv PROVE PopsWhatWasPushed
  <1>1. PICK H : Ledger(H) /\ OnLedger(H) /\ Popping(H, committed)
    BY Zenon DEF EfisInv
  <1>2. committed \in Seq(Cmds)
    BY Zenon DEF EfisInv, EfisTypeInv
  <1> SUFFICES ASSUME NEW m \in Node, NEW i \in 1 .. Len(answers[m]), NEW j \in 1 .. Len(answers[m])
               PROVE  LET Pops(op) == {x \in i + 1 .. j - 1 : committed[x].op = op}
                          l == Cardinality(Pops("Lpop"))
                          r == Cardinality(Pops("Rpop"))
                          pushed == IF committed[i].op = "Lpush" THEN Reverse(committed[i].values)
                                    ELSE committed[i].values
                      IN  (/\ i < j /\ l + r = j - i - 1
                           /\ \A x \in i .. j : committed[x].key = committed[j].key
                           /\ committed[i].op \in {"Lpush", "Rpush"}
                           /\ committed[j].op \in {"Lpop", "Rpop"}) =>
                          answers[m][j] =
                             IF l + r >= Len(pushed) THEN ErrRes
                             ELSE GetRes(Number(IF committed[j].op = "Lpop" THEN pushed[l + 1]
                                                ELSE pushed[Len(pushed) - r]))
    BY Zenon DEF PopsWhatWasPushed
  <1>3. PICK h, l, r, P, c : /\ h = j - 1 /\ P = Pushed(committed[i]) /\ c = committed[j]
                             /\ l = Cardinality(PopsIn(committed, "Lpop", i, h))
                             /\ r = Cardinality(PopsIn(committed, "Rpop", i, h))
    BY Zenon
  <1> SUFFICES ASSUME i < j, l + r = j - i - 1,
                      \A x \in i .. j : committed[x].key = c.key, IsPush(committed[i]), IsPop(c)
               PROVE  answers[m][j] = IF l + r >= Len(P) THEN ErrRes
                                      ELSE GetRes(Number(IF c.op = "Lpop" THEN P[l + 1] ELSE P[Len(P) - r]))
    BY <1>3, Zenon DEF PopsIn, Pushed, IsPush, IsPop
  <1>4. PICK f : f = finished[m]
    BY Zenon
  <1>5. /\ f \in 0 .. Len(committed) /\ Len(answers[m]) = f
        /\ \A x \in 1 .. f : answers[m][x] = Outcome(committed[x], H[x - 1]).res
    BY <1>1, <1>4, Zenon DEF OnLedger, Place
  <1>6. Len(committed) \in Nat
    BY <1>2, SMTT(20)
  <1>7. i \in 1 .. Len(committed) /\ h \in i .. Len(committed) /\ j \in 1 .. f /\ h \in Nat /\ i \in Nat /\ i <= h
        /\ l + r = h - i
    BY <1>3, <1>5, <1>6
  <1>8. \A x \in i + 1 .. h : IsPop(committed[x])
    BY <1>3, <1>7, AllPops, Zenon
  <1>9. \A x \in i + 1 .. h : committed[x].key = committed[i].key
    <2>1. i \in i .. j /\ \A x \in i + 1 .. h : x \in i .. j
      BY <1>3, <1>7, SMTT(20)
    <2> QED  BY <2>1, Zenon
  <1>10. committed[i].key = c.key /\ committed[i] \in Cmds
    <2>1. i \in i .. j
      BY <1>3, <1>7
    <2> QED  BY <1>2, <1>7, <2>1
  <1>11. PICK v : v = H[h]
    BY Zenon
  <1>12. PoppedTo(committed, i, h, v)
    BY <1>1, <1>7, <1>11, Zenon DEF Popping
  <1>13. c.key \in DOMAIN v /\ v[c.key] = List(Remains(P, l, r))
    BY <1>3, <1>8, <1>9, <1>10, <1>12, Zenon DEF PoppedTo
  <1>14. P \in Seq(Int) /\ l \in Nat /\ r \in Nat
    BY <1>3, <1>7, <1>10, PushedSeq, PopsCount, Zenon
  <1>15. PICK out : out = Outcome(c, v)
    BY Zenon
  <1>16. out.res = IF l + r >= Len(P) THEN ErrRes
                   ELSE GetRes(Number(IF c.op = "Lpop" THEN P[l + 1] ELSE P[Len(P) - r]))
    <2>1. PoppedOnce(c, Outcome(c, v), P, l, r)
      BY <1>13, <1>14, PopOnce, Zenon
    <2> QED  BY <1>15, <2>1, Zenon DEF PoppedOnce
  <1>17. answers[m][j] = out.res
    BY <1>3, <1>5, <1>7, <1>11, <1>15, Zenon
  <1> QED  BY <1>16, <1>17, Zenon

\* A list is a double-ended queue: after a push, l pops from the left and r
\* from the right, every node answers a pop with the next element of that
\* end of what was pushed, or fails when all are gone (efis.rs:486-631), for
\* pushes of any length and any commands before and after.
THEOREM PopsAnswerPushes == EfisSpec => []PopsWhatWasPushed
  <1>1. EfisInit => EfisInv
    BY EfisInitInv, Zenon DEF EfisInv
  <1>2. EfisInv /\ [EfisNext]_efisVars => EfisInv'
    BY EfisStepInv, Zenon
  <1>3. EfisInv => PopsWhatWasPushed
    BY PopsRight, Zenon
  <1> QED  BY <1>1, <1>2, <1>3, PTL DEF EfisSpec

=============================================================================
