---------------------------- MODULE StoreTurnsProofs ----------------------------
(***************************************************************************)
(* Proofs about StoreTurns: the byte budget of a session and the caps on   *)
(* its conversations and messages hold for every number of calls, rows and *)
(* faults.                                                                 *)
(*                                                                         *)
(* The invariant has five parts: what each call can hold at each of its    *)
(* steps, the turns, the rows a call owns while it has its turn, what is   *)
(* counted and not yet stored (or freed and not yet released), and the     *)
(* counts of rows.                                                         *)
(***************************************************************************)
EXTENDS StoreTurns, CollectionTheorems

-----------------------------------------------------------------------------
(* The calls. *)

Ops == {"none", "create", "add", "update", "title", "tool", "clear", "delete"}
Texts == [conv : Convs, bytes : Nat, tools : Nat]
Records == [op : Ops, at : Steps, conv : Convs \union {None}, msg : Msgs \union {None},
            bytes : Nat, freed : Nat \union {None}, unread : SUBSET Convs, seed : Nat \union {None}]

\* The steps of each operation.
OnPath(r) ==
    /\ r.op = "none" <=> r.at = "idle"
    /\ r.op = "create" => r.at \in {"turn", "reserve", "write"}
    /\ r.op = "add" => r.at \in {"turn", "count", "reserve", "write", "recount", "show"}
    /\ r.op = "update" => r.at \in {"turn", "fit", "rewrite", "recount", "show"}
    /\ r.op = "title" => r.at \in {"turn", "reserve", "write", "release"}
    /\ r.op = "tool" => r.at \in {"turn", "fit", "rewrite", "release"}
    /\ r.op \in {"clear", "delete"} => r.at \in {"turn", "erase", "release"}

\* What a call holds at each step.
Sound(r) ==
    /\ r \in Records
    /\ OnPath(r)
    /\ r.at = "idle" => r = Idle
    /\ r.op # "none" => r.conv \in Convs
    /\ IF r.op \in {"add", "update", "tool"} THEN r.msg \in Msgs ELSE r.msg = None
    /\ IF r.at = "erase" THEN r.freed \in {0, None} ELSE r.freed # None
    /\ r.op \in {"create", "add"} \/ r.at \in {"turn", "count", "show"} => r.freed = 0
    /\ r.unread # {} => r.seed # None
    /\ r.at \in {"turn", "count"} => r.seed = None
    /\ r.op = "create" => r.bytes = TitleBytes
    /\ r.op = "title" /\ r.at = "turn" => r.bytes \in TitleSizes

Typed ==
    /\ title \in [Convs -> Nat \union {None}]
    /\ message \in [Msgs -> Texts \union {None}]
    /\ shown \in [Convs -> Nat]
    /\ used \in Nat \union {None}
    /\ faults \in 0..MaxFaults
    /\ call \in [Callers -> Records]
    /\ \A c \in Callers : Sound(call[c])

-----------------------------------------------------------------------------
(* The turns. *)

Turns ==
    /\ turn \in [Keys -> Seq(Callers)]
    /\ \A k \in Keys : IsQueue(turn[k], Callers)
    /\ \A c \in Callers : call[c].at \notin {"idle", "turn"} => HasTurn(c)
    /\ \A c \in Callers, k \in Keys : c \in ToSet(turn[k]) <=> ~At(c, "idle") /\ k = Key(c)

-----------------------------------------------------------------------------
(* The rows a call owns. *)

\* No other call uses the ids of a call that will write a row of its own. What a call
\* found in its turn is still there.
Owns(c) ==
    /\ call[c].op = "create" =>
        /\ title[call[c].conv] = None /\ MessagesOf(call[c].conv) = {}
        /\ \A d \in Callers \ {c} : call[d].conv # call[c].conv
    /\ call[c].op = "add" /\ call[c].at \in {"turn", "count", "reserve", "write"} =>
        /\ message[call[c].msg] = None
        /\ \A d \in Callers \ {c} : call[d].msg # call[c].msg
    /\ call[c].op \in {"update", "tool"} /\ message[call[c].msg] # None =>
        message[call[c].msg].conv = call[c].conv
    /\ call[c].op \in {"add", "update", "tool", "title"} /\ call[c].at # "turn" =>
        call[c].conv \in Conversations
    /\ call[c].op = "update" /\ call[c].at \in {"fit", "rewrite"} =>
        message[call[c].msg] # None /\ message[call[c].msg].bytes = call[c].freed
    /\ call[c].op = "tool" /\ call[c].at \in {"fit", "rewrite"} =>
        message[call[c].msg] # None /\ message[call[c].msg].tools >= call[c].freed
    /\ call[c].op = "title" /\ call[c].at \in {"reserve", "write"} =>
        /\ title[call[c].conv] >= call[c].freed
        /\ title[call[c].conv] + call[c].bytes - call[c].freed \in TitleSizes

Rows ==
    /\ title \in [Convs -> {TitleBytes, None} \union TitleSizes]
    /\ \A m \in Msgs : message[m] # None => title[message[m].conv] # None
    /\ \A c \in Callers : Owns(c)

-----------------------------------------------------------------------------
(* The budget. *)

\* What a call has counted and not yet written, or freed and not yet released; by how much
\* its write makes the rows grow; and what it is to release.
Owes(r) == CASE r.at \in {"write", "rewrite"} -> r.bytes
             [] r.at \in {"recount", "release"} -> r.freed
             [] OTHER -> 0
Grows(r) == CASE r.at = "write" -> r.bytes
              [] r.at = "rewrite" -> Less(r.bytes, r.freed)
              [] OTHER -> 0
Frees(r) == IF r.at \in {"rewrite", "recount", "release"} THEN r.freed ELSE 0

Owed == SumFunctionOnSet([c \in Callers |-> Owes(call[c])], Callers)
Growth == SumFunctionOnSet([c \in Callers |-> Grows(call[c])], Callers)
Freed == SumFunctionOnSet([c \in Callers |-> Frees(call[c])], Callers)

\* The texts of the conversations V.
TextsOf(V) == SumFunctionOnSet(TextSize, {m \in Msgs : message[m] # None /\ message[m].conv \in V})

\* What calls that failed may have left counted.
Leftover == faults * Limit

\* What is counted covers the rows, and passes the limit by no more than what is to be
\* released and what calls that failed have left counted.
Counted ==
    used # None =>
        /\ used >= StoredBytes + Owed
        /\ used <= Limit + Freed + Leftover

\* Until a call has counted, nothing is written: what a call has read for the seed and
\* what it has yet to read cover the rows.
Unseeded ==
    used = None => \A c \in Callers :
        /\ call[c].at \notin {"write", "rewrite", "recount", "show"}
        /\ call[c].at = "release" => call[c].freed = 0
        /\ call[c].at = "erase" => call[c].freed = None
        /\ Counting(c) /\ call[c].seed # None =>
            /\ call[c].seed + TextsOf(call[c].unread) >= StoredBytes
            /\ call[c].seed + TextsOf(call[c].unread) <= Limit

Budget ==
    /\ StoredBytes + Growth <= Limit
    /\ Counted
    /\ Unseeded
    /\ \A c \in Callers : call[c].freed # None => call[c].freed <= Limit

-----------------------------------------------------------------------------
(* The counts of rows. *)

\* A call that was let in has room for the row it will write.
HasRoom(c) ==
    /\ call[c].op = "create" /\ call[c].at \in {"reserve", "write"} =>
        Cardinality(Conversations) < MaxConvs
    /\ call[c].op = "add" /\ call[c].at \in {"reserve", "write"} =>
        Cardinality(MessagesOf(call[c].conv)) < MaxMessages
    /\ call[c].at = "show" => call[c].bytes = Cardinality(MessagesOf(call[c].conv))

\* The count of a conversation is right, or a call is about to write it.
Recounted(v) ==
    \/ shown[v] = Cardinality(MessagesOf(v))
    \/ \E c \in Callers : call[c].conv = v /\ call[c].at \in {"recount", "show"}

Caps ==
    /\ Cardinality(Conversations) <= MaxConvs
    /\ \A v \in Convs : Cardinality(MessagesOf(v)) <= MaxMessages
    /\ \A v \in Convs : shown[v] <= Cardinality(Msgs)
    /\ \A c \in Callers : HasRoom(c)
    /\ faults = 0 => \A v \in Conversations : Recounted(v)

StoreInv == Typed /\ Turns /\ Rows /\ Budget /\ Caps

-----------------------------------------------------------------------------
(* The steps of a call: it joins a queue, goes on while it holds its turn, or ends. *)

Others(c) == \A d \in Callers \ {c} : call'[d] = call[d]

Joins(c) ==
    /\ At(c, "idle") /\ call'[c].at = "turn" /\ Key(c)' \in Keys
    /\ turn' = [turn EXCEPT ![Key(c)'] = Append(@, c)]

Goes(c) ==
    /\ ~At(c, "idle") /\ HasTurn(c) /\ call'[c].at \notin {"idle", "turn"}
    /\ call'[c].op = call[c].op /\ call'[c].conv = call[c].conv /\ call'[c].msg = call[c].msg
    /\ turn' = turn

Quits(c) == ~At(c, "idle") /\ End(c)

Moves(c) ==
    /\ call' \in [Callers -> Records] /\ Sound(call'[c]) /\ Others(c)
    /\ Joins(c) \/ Goes(c) \/ Quits(c)

\* What a new call holds is sound.
LEMMA IdleSound == Sound(Idle) /\ Idle \in Records
BY StoreAssumption DEF Sound, Records, OnPath, Idle, Ops, Steps

\* The key of a call under way is that of a turn.
LEMMA KeyType ==
    ASSUME Typed, NEW c \in Callers, ~At(c, "idle")
    PROVE  Key(c) \in Keys
BY DEF Typed, Sound, OnPath, Records, Ops, Key, Keys, At

\* A call that joins a queue.
LEMMA AskMoves ==
    ASSUME Typed, NEW c \in Callers, NEW op \in Ops \ {"none"}, NEW v \in Convs, NEW m, NEW n \in Nat, NEW key,
           key = IF op = "create" THEN SessionTurn ELSE v,
           IF op \in {"add", "update", "tool"} THEN m \in Msgs ELSE m = None,
           op = "create" => n = TitleBytes,
           op = "title" => n \in TitleSizes,
           Ask(c, op, v, m, n, key)
    PROVE  Moves(c) /\ Joins(c)
<1> DEFINE r == [Idle EXCEPT !.op = op, !.at = "turn", !.conv = v, !.msg = m, !.bytes = n]
<1>1. r \in Records /\ Sound(r)
  BY IdleSound DEF Records, Sound, OnPath, Idle, Ops, Steps
<1>2. call \in [Callers -> Records] /\ call' = [call EXCEPT ![c] = r]
  BY DEF Typed, Ask
<1>3. call' \in [Callers -> Records] /\ call'[c] = r /\ Others(c)
  BY <1>1, <1>2 DEF Others
<1>4. Key(c)' = key /\ key \in Keys
  BY <1>3 DEF Key, Idle, Keys
<1>5. Joins(c)
  BY <1>3, <1>4 DEF Joins, Ask, At, Idle
<1> QED BY <1>1, <1>3, <1>5 DEF Moves

\* A call that ends.
LEMMA EndMoves ==
    ASSUME Typed, NEW c \in Callers, ~At(c, "idle"), End(c)
    PROVE  Moves(c) /\ Quits(c) /\ call'[c] = Idle
<1>1. call \in [Callers -> Records] /\ call' = [call EXCEPT ![c] = Idle]
  BY DEF Typed, End
<1>2. call' \in [Callers -> Records] /\ call'[c] = Idle /\ Others(c)
  BY <1>1, IdleSound DEF Others
<1> QED BY <1>2, IdleSound DEF Moves, Quits

\* A call that goes on.
LEMMA GoMoves ==
    ASSUME Typed, Turns, NEW c \in Callers, NEW r, Sound(r), ~At(c, "idle"),
           At(c, "turn") => HasTurn(c), r.at \notin {"idle", "turn"},
           r.op = call[c].op, r.conv = call[c].conv, r.msg = call[c].msg,
           call' = [call EXCEPT ![c] = r], turn' = turn
    PROVE  Moves(c) /\ Goes(c) /\ call'[c] = r
<1>1. call \in [Callers -> Records] /\ r \in Records
  BY DEF Typed, Sound
<1>2. call' \in [Callers -> Records] /\ call'[c] = r /\ Others(c)
  BY <1>1 DEF Others
<1>3. HasTurn(c)
  BY DEF Turns, At
<1> QED BY <1>2, <1>3 DEF Moves, Goes
-----------------------------------------------------------------------------
(* Values. *)

\* The sums over rows and calls are naturals.
LEMMA SumsTyped ==
    ASSUME Typed
    PROVE  /\ Summable(TitleSize, Convs) /\ Summable(TextSize, Msgs)
           /\ \A M \in SUBSET Msgs : Summable(TextSize, M) /\ SumFunctionOnSet(TextSize, M) \in Nat
           /\ TitlesBytes \in Nat /\ StoredBytes \in Nat /\ StoredBytes >= TitlesBytes
           /\ \A v \in Convs : TextBytes(v) \in Nat
<1>1. Summable(TitleSize, Convs)
  BY StoreAssumption DEF Typed, Summable, TitleSize
<1>2. \A m \in Msgs : TextSize[m] \in Nat
  BY DEF Typed, TextSize, Texts
<1>3. \A M \in SUBSET Msgs : Summable(TextSize, M)
  BY <1>2, StoreAssumption, FS_Subset DEF Summable
<1>4. /\ \A M \in SUBSET Msgs : SumFunctionOnSet(TextSize, M) \in Nat
      /\ SumFunctionOnSet(TitleSize, Convs) \in Nat
  BY <1>1, <1>3, SumType
<1>5. \A v \in Convs : MessagesOf(v) \in SUBSET Msgs
  BY DEF MessagesOf
<1> QED BY <1>1, <1>3, <1>4, <1>5 DEF TitlesBytes, TextBytes, StoredBytes

\* The rows of a conversation are finitely many.
LEMMA CountsTyped ==
    /\ \A v \in Convs : IsFiniteSet(MessagesOf(v)) /\ Cardinality(MessagesOf(v)) \in Nat
                          /\ Cardinality(MessagesOf(v)) <= Cardinality(Msgs)
    /\ IsFiniteSet(Conversations) /\ Cardinality(Conversations) \in Nat
    /\ Cardinality(Msgs) \in Nat /\ Cardinality(Callers) \in Nat
<1>1. \A v \in Convs : MessagesOf(v) \subseteq Msgs
  BY DEF MessagesOf
<1>2. Conversations \subseteq Convs
  BY DEF Conversations
<1> QED BY <1>1, <1>2, StoreAssumption, FS_Subset, FS_CardinalityType

\* A call that has read the rows has a counter.
LEMMA CounterTyped ==
    ASSUME Typed, NEW c \in Callers, CounterReady(c)
    PROVE  Counter(c) \in Nat
BY DEF Typed, Records, CounterReady, Counter

\* Subtraction that stops at zero.
LEMMA LessTyped == \A n, k \in Nat : Less(n, k) \in Nat /\ Least(n, k) \in Nat
BY DEF Less, Least

-----------------------------------------------------------------------------
(* The step of every action. *)

\* Each request begins with a place in a queue.
LEMMA AskCreateMoves ==
    ASSUME Typed, NEW c \in Callers, AskCreate(c)
    PROVE  Moves(c) /\ Joins(c)
<1>1. PICK v \in FreshConvs : Ask(c, "create", v, None, TitleBytes, SessionTurn)
  BY DEF AskCreate
<1> QED BY <1>1, AskMoves, StoreAssumption DEF FreshConvs, Ops

\* A new message waits for its conversation's turn.
LEMMA AskAddMoves ==
    ASSUME Typed, NEW c \in Callers, AskAdd(c)
    PROVE  Moves(c) /\ Joins(c)
<1>1. PICK v \in Conversations, m \in FreshMsgs, n \in Sizes : Ask(c, "add", v, m, n, v)
  BY DEF AskAdd
<1>2. v \in Convs /\ m \in Msgs /\ n \in Nat
  BY StoreAssumption DEF Conversations, FreshMsgs
<1> QED BY <1>1, <1>2, AskMoves DEF Ops

\* So does a delete or a clearing,
LEMMA AskEraseMoves ==
    ASSUME Typed, NEW c \in Callers, AskErase(c)
    PROVE  Moves(c) /\ Joins(c)
<1>1. PICK v \in Conversations, op \in {"clear", "delete"} : Ask(c, op, v, None, 0, v)
  BY DEF AskErase
<1>2. v \in Convs /\ op \in Ops
  BY DEF Conversations, Ops
<1> QED BY <1>1, <1>2, AskMoves

\* a rewritten message,
LEMMA AskUpdateMoves ==
    ASSUME Typed, NEW c \in Callers, AskUpdate(c)
    PROVE  Moves(c) /\ Joins(c)
<1>1. PICK m \in Msgs, n \in Sizes : message[m] # None /\ Ask(c, "update", message[m].conv, m, n, message[m].conv)
  BY DEF AskUpdate
<1>2. message[m].conv \in Convs /\ n \in Nat
  BY <1>1, StoreAssumption DEF Typed, Texts
<1> QED BY <1>1, <1>2, AskMoves DEF Ops

\* a new title,
LEMMA AskTitleMoves ==
    ASSUME Typed, NEW c \in Callers, AskTitle(c)
    PROVE  Moves(c) /\ Joins(c)
<1>1. PICK v \in Conversations, n \in TitleSizes : Ask(c, "title", v, None, n, v)
  BY DEF AskTitle
<1>2. v \in Convs /\ n \in Nat
  BY StoreAssumption DEF Conversations
<1> QED BY <1>1, <1>2, AskMoves DEF Ops

\* and a tool call's text.
LEMMA AskToolMoves ==
    ASSUME Typed, NEW c \in Callers, AskTool(c)
    PROVE  Moves(c) /\ Joins(c)
<1>1. PICK m \in Msgs, n \in Sizes : message[m] # None /\ Ask(c, "tool", message[m].conv, m, n, message[m].conv)
  BY DEF AskTool
<1>2. message[m].conv \in Convs /\ n \in Nat
  BY <1>1, StoreAssumption DEF Typed, Texts
<1> QED BY <1>1, <1>2, AskMoves DEF Ops

\* What an action leaves a call with.
LEMMA RunMoves ==
    ASSUME Typed, Turns, NEW c \in Callers, Run(c)
    PROVE  Moves(c) /\ ~Joins(c)
<1>0. Sound(call[c]) /\ call \in [Callers -> Records] /\ call[c] \in Records
  BY DEF Typed
<1>1. Moves(c)
  <2>1. CASE SeedTitles(c)
    <3> DEFINE r == [call[c] EXCEPT !.seed = TitlesBytes, !.unread = Conversations]
    <3>1. call' = [call EXCEPT ![c] = r] /\ turn' = turn /\ (At(c, "reserve") \/ At(c, "fit"))
      BY <2>1, <1>0 DEF SeedTitles, Counting
    <3>2. Sound(r)
      BY <1>0, <3>1, <2>1, SumsTyped, StoreAssumption DEF Sound, Records, OnPath, Conversations, At, SeedTitles, Counting
    <3>8. /\ r.at \notin {"idle", "turn"} /\ r.op = call[c].op
          /\ r.conv = call[c].conv /\ r.msg = call[c].msg
      BY <1>0, <2>1 DEF Records, SeedTitles, Counting, At
    <3>9. ~At(c, "idle") /\ (At(c, "turn") => HasTurn(c))
      BY <2>1 DEF At, SeedTitles, Counting
    <3> HIDE DEF r
    <3> QED BY <3>1, <3>2, <3>8, <3>9, GoMoves
  <2>2. CASE SeedTexts(c)
    <3>1. PICK v \in call[c].unread :
            call' = [call EXCEPT ![c].seed = @ + TextBytes(v), ![c].unread = @ \ {v}]
      BY <2>2 DEF SeedTexts
    <3> DEFINE r == [call[c] EXCEPT !.seed = @ + TextBytes(v), !.unread = @ \ {v}]
    <3>2. call' = [call EXCEPT ![c] = r] /\ turn' = turn
      BY <3>1, <2>2, <1>0 DEF SeedTexts
    <3>3. call[c].seed + TextBytes(v) \in Nat
      BY <1>0, SumsTyped DEF Sound, Records
    <3>4. Sound(r)
      BY <1>0, <3>3, <2>2, StoreAssumption DEF Sound, Records, OnPath, At, SeedTexts, Counting
    <3>8. /\ r.at \notin {"idle", "turn"} /\ r.op = call[c].op
          /\ r.conv = call[c].conv /\ r.msg = call[c].msg
      BY <1>0, <2>2 DEF Records, SeedTexts, Counting, At
    <3>9. ~At(c, "idle") /\ (At(c, "turn") => HasTurn(c))
      BY <2>2 DEF At, SeedTexts, Counting
    <3> HIDE DEF r
    <3> QED BY <3>2, <3>4, <3>8, <3>9, GoMoves
  <2>3. CASE Reserve(c)
    <3>1. CASE End(c)
      BY <2>3, <3>1, EndMoves DEF Reserve, At
    <3>2. CASE To(c, "write") /\ UNCHANGED turn
      <4> DEFINE r == [call[c] EXCEPT !.at = "write"]
      <4>1. call' = [call EXCEPT ![c] = r] /\ turn' = turn
        BY <3>2, <1>0 DEF To
      <4>2. Sound(r)
        BY <1>0, <2>3, StoreAssumption DEF Sound, Records, OnPath, At, Reserve, Steps
      <4>8. /\ r.at \notin {"idle", "turn"} /\ r.op = call[c].op
            /\ r.conv = call[c].conv /\ r.msg = call[c].msg
        BY <1>0 DEF Records
      <4>9. ~At(c, "idle") /\ (At(c, "turn") => HasTurn(c))
        BY <2>3 DEF At, Reserve
      <4> HIDE DEF r
      <4> QED BY <4>1, <4>2, <4>8, <4>9, GoMoves
    <3> QED BY <2>3, <3>1, <3>2 DEF Reserve
  <2>4. CASE Fit(c)
    <3> DEFINE n == Least(call[c].bytes, Less(Limit, Counter(c)) + call[c].freed)
               r == [call[c] EXCEPT !.at = "rewrite", !.bytes = n]
    <3>1. call' = [call EXCEPT ![c] = r] /\ turn' = turn
      BY <2>4, <1>0 DEF Fit
    <3>2. n \in Nat
      <4>1. call[c].bytes \in Nat /\ call[c].freed \in Nat
        BY <1>0, <2>4 DEF Sound, Records, Fit, At
      <4>2. Counter(c) \in Nat /\ Limit \in Nat
        BY <2>4, CounterTyped, StoreAssumption DEF Fit
      <4>3. Less(Limit, Counter(c)) \in Nat
        BY <4>2, LessTyped
      <4>4. Less(Limit, Counter(c)) + call[c].freed \in Nat
        BY <4>1, <4>3
      <4> QED BY <4>1, <4>4, LessTyped
    <3> HIDE DEF n
    <3>3. Sound(r)
      BY <1>0, <3>2, <2>4, StoreAssumption DEF Sound, Records, OnPath, At, Fit, Steps
    <3>8. /\ r.at \notin {"idle", "turn"} /\ r.op = call[c].op
          /\ r.conv = call[c].conv /\ r.msg = call[c].msg
      BY <1>0 DEF Records
    <3>9. ~At(c, "idle") /\ (At(c, "turn") => HasTurn(c))
      BY <2>4 DEF At, Fit
    <3> HIDE DEF r
    <3> QED BY <3>1, <3>3, <3>8, <3>9, GoMoves
  <2>5. CASE CountConversations(c)
    <3>1. CASE End(c)
      BY <2>5, <3>1, EndMoves DEF CountConversations, Starts, At
    <3>2. CASE To(c, "reserve") /\ UNCHANGED turn
      <4> DEFINE r == [call[c] EXCEPT !.at = "reserve"]
      <4>1. call' = [call EXCEPT ![c] = r] /\ turn' = turn
        BY <3>2, <1>0 DEF To
      <4>2. Sound(r)
        BY <1>0, <2>5, StoreAssumption DEF Sound, Records, OnPath, At, CountConversations, Starts, Steps
      <4>8. /\ r.at \notin {"idle", "turn"} /\ r.op = call[c].op
            /\ r.conv = call[c].conv /\ r.msg = call[c].msg
        BY <1>0 DEF Records
      <4>9. ~At(c, "idle") /\ (At(c, "turn") => HasTurn(c))
        BY <2>5 DEF At, CountConversations, Starts
      <4> HIDE DEF r
      <4> QED BY <4>1, <4>2, <4>8, <4>9, GoMoves
    <3> QED BY <2>5, <3>1, <3>2 DEF CountConversations
  <2>6. CASE WriteConversation(c)
    BY <2>6, EndMoves DEF WriteConversation, At
  <2>7. CASE FindConversation(c)
    <3>1. CASE End(c)
      BY <2>7, <3>1, EndMoves DEF FindConversation, Starts, At
    <3>2. CASE To(c, "count") /\ UNCHANGED turn
      <4> DEFINE r == [call[c] EXCEPT !.at = "count"]
      <4>1. call' = [call EXCEPT ![c] = r] /\ turn' = turn
        BY <3>2, <1>0 DEF To
      <4>2. Sound(r)
        BY <1>0, <2>7, StoreAssumption DEF Sound, Records, OnPath, At, FindConversation, Starts, Steps
      <4>8. /\ r.at \notin {"idle", "turn"} /\ r.op = call[c].op
            /\ r.conv = call[c].conv /\ r.msg = call[c].msg
        BY <1>0 DEF Records
      <4>9. ~At(c, "idle") /\ (At(c, "turn") => HasTurn(c))
        BY <2>7 DEF At, FindConversation, Starts
      <4> HIDE DEF r
      <4> QED BY <4>1, <4>2, <4>8, <4>9, GoMoves
    <3> QED BY <2>7, <3>1, <3>2 DEF FindConversation
  <2>8. CASE CountMessages(c)
    <3>1. CASE End(c)
      BY <2>8, <3>1, EndMoves DEF CountMessages, At
    <3>2. CASE To(c, "reserve") /\ UNCHANGED <<shown, turn>>
      <4> DEFINE r == [call[c] EXCEPT !.at = "reserve"]
      <4>1. call' = [call EXCEPT ![c] = r] /\ turn' = turn
        BY <3>2, <1>0 DEF To
      <4>2. Sound(r)
        BY <1>0, <2>8, StoreAssumption DEF Sound, Records, OnPath, At, CountMessages, Steps
      <4>8. /\ r.at \notin {"idle", "turn"} /\ r.op = call[c].op
            /\ r.conv = call[c].conv /\ r.msg = call[c].msg
        BY <1>0 DEF Records
      <4>9. ~At(c, "idle") /\ (At(c, "turn") => HasTurn(c))
        BY <2>8 DEF At, CountMessages
      <4> HIDE DEF r
      <4> QED BY <4>1, <4>2, <4>8, <4>9, GoMoves
    <3> QED BY <2>8, <3>1, <3>2 DEF CountMessages
  <2>9. CASE WriteMessage(c)
    <3> DEFINE r == [call[c] EXCEPT !.at = "recount"]
    <3>1. call' = [call EXCEPT ![c] = r] /\ turn' = turn
      BY <2>9, <1>0 DEF To, WriteMessage
    <3>2. Sound(r)
      BY <1>0, <2>9, StoreAssumption DEF Sound, Records, OnPath, At, WriteMessage, Steps
    <3>8. /\ r.at \notin {"idle", "turn"} /\ r.op = call[c].op
          /\ r.conv = call[c].conv /\ r.msg = call[c].msg
      BY <1>0 DEF Records
    <3>9. ~At(c, "idle") /\ (At(c, "turn") => HasTurn(c))
      BY <2>9 DEF At, WriteMessage
    <3> HIDE DEF r
    <3> QED BY <3>1, <3>2, <3>8, <3>9, GoMoves
  <2>10. CASE Recount(c)
    <3> DEFINE n == Cardinality(MessagesOf(call[c].conv))
               r == [call[c] EXCEPT !.at = "show", !.freed = 0, !.bytes = n]
    <3>1. call' = [call EXCEPT ![c] = r] /\ turn' = turn
      BY <2>10, <1>0 DEF Recount
    <3>2. n \in Nat
      BY <1>0, <2>10, CountsTyped DEF Sound, OnPath, Recount, At
    <3> HIDE DEF n
    <3>3. Sound(r)
      <4>1. call[c].op \in {"add", "update"} /\ At(c, "recount")
        BY <1>0, <2>10 DEF Sound, Records, Ops, OnPath, At, Recount
      <4>2. r \in Records
        BY <1>0, <3>2 DEF Records, Steps
      <4>3. /\ r.at = "show" /\ r.op = call[c].op /\ r.conv = call[c].conv /\ r.msg = call[c].msg
            /\ r.freed = 0 /\ r.unread = call[c].unread /\ r.seed = call[c].seed
        BY <1>0 DEF Records
      <4> HIDE DEF r
      <4> QED BY <1>0, <4>1, <4>2, <4>3, StoreAssumption DEF Sound, OnPath
    <3>8. /\ r.at \notin {"idle", "turn"} /\ r.op = call[c].op
          /\ r.conv = call[c].conv /\ r.msg = call[c].msg
      BY <1>0 DEF Records
    <3>9. ~At(c, "idle") /\ (At(c, "turn") => HasTurn(c))
      BY <2>10 DEF At, Recount
    <3> HIDE DEF r
    <3> QED BY <3>1, <3>3, <3>8, <3>9, GoMoves
  <2>11. CASE ShowCount(c)
    BY <2>11, EndMoves DEF ShowCount, At
  <2>12. CASE FindMessage(c)
    <3>1. CASE End(c)
      BY <2>12, <3>1, EndMoves DEF FindMessage, Starts, At
    <3>2. CASE ~End(c)
      <4> DEFINE n == message[call[c].msg].bytes
                 r == [call[c] EXCEPT !.at = "fit", !.freed = n]
      <4>1. call' = [call EXCEPT ![c] = r] /\ turn' = turn /\ message[call[c].msg] # None
        BY <2>12, <3>2, <1>0 DEF FindMessage
      <4>2. n \in Nat
        BY <1>0, <4>1, <2>12 DEF Sound, Typed, Texts, FindMessage, Starts
      <4> HIDE DEF n
      <4>3. Sound(r)
        BY <1>0, <4>2, <2>12, StoreAssumption DEF Sound, Records, OnPath, At, FindMessage, Starts, Steps
      <4>8. /\ r.at \notin {"idle", "turn"} /\ r.op = call[c].op
            /\ r.conv = call[c].conv /\ r.msg = call[c].msg
        BY <1>0 DEF Records
      <4>9. ~At(c, "idle") /\ (At(c, "turn") => HasTurn(c))
        BY <2>12 DEF At, FindMessage, Starts
      <4> HIDE DEF r
      <4> QED BY <4>1, <4>3, <4>8, <4>9, GoMoves
    <3> QED BY <3>1, <3>2
  <2>13. CASE Rewrite(c)
    <3>1. CASE End(c)
      BY <2>13, <3>1, EndMoves DEF Rewrite, At
    <3>2. CASE To(c, "recount") /\ UNCHANGED turn
      <4> DEFINE r == [call[c] EXCEPT !.at = "recount"]
      <4>1. call' = [call EXCEPT ![c] = r] /\ turn' = turn
        BY <3>2, <1>0 DEF To
      <4>2. Sound(r)
        BY <1>0, <2>13, StoreAssumption DEF Sound, Records, OnPath, At, Rewrite, Steps
      <4>8. /\ r.at \notin {"idle", "turn"} /\ r.op = call[c].op
            /\ r.conv = call[c].conv /\ r.msg = call[c].msg
        BY <1>0 DEF Records
      <4>9. ~At(c, "idle") /\ (At(c, "turn") => HasTurn(c))
        BY <2>13 DEF At, Rewrite
      <4> HIDE DEF r
      <4> QED BY <4>1, <4>2, <4>8, <4>9, GoMoves
    <3> QED BY <2>13, <3>1, <3>2 DEF Rewrite
  <2>14. CASE FindTitle(c)
    <3>1. CASE End(c)
      BY <2>14, <3>1, EndMoves DEF FindTitle, Starts, At
    <3>2. CASE ~End(c)
      <4> DEFINE t == title[call[c].conv]
                 n == Less(call[c].bytes, t)
                 k == Less(t, call[c].bytes)
                 r == [call[c] EXCEPT !.at = "reserve", !.bytes = n, !.freed = k]
      <4>1. turn' = turn /\ call[c].conv \in Conversations /\ call' = [call EXCEPT ![c] = r]
        BY <2>14, <3>2, <1>0 DEF FindTitle
      <4>2. n \in Nat /\ k \in Nat
        <5>1. t \in Nat /\ call[c].bytes \in Nat
          BY <1>0, <4>1 DEF Typed, Conversations, Records
        <5> QED BY <5>1, LessTyped
      <4> HIDE DEF n, k
      <4>3. Sound(r)
        BY <1>0, <4>2, <2>14, StoreAssumption DEF Sound, Records, OnPath, At, FindTitle, Starts, Steps
      <4>8. /\ r.at \notin {"idle", "turn"} /\ r.op = call[c].op
            /\ r.conv = call[c].conv /\ r.msg = call[c].msg
        BY <1>0 DEF Records
      <4>9. ~At(c, "idle") /\ (At(c, "turn") => HasTurn(c))
        BY <2>14 DEF At, FindTitle, Starts
      <4> HIDE DEF r
      <4> QED BY <4>1, <4>3, <4>8, <4>9, GoMoves
    <3> QED BY <3>1, <3>2
  <2>15. CASE WriteTitle(c)
    <3>1. CASE End(c)
      BY <2>15, <3>1, EndMoves DEF WriteTitle, At
    <3>2. CASE To(c, "release") /\ UNCHANGED turn
      <4> DEFINE r == [call[c] EXCEPT !.at = "release"]
      <4>1. call' = [call EXCEPT ![c] = r] /\ turn' = turn
        BY <3>2, <1>0 DEF To
      <4>2. Sound(r)
        BY <1>0, <2>15, StoreAssumption DEF Sound, Records, OnPath, At, WriteTitle, Steps
      <4>8. /\ r.at \notin {"idle", "turn"} /\ r.op = call[c].op
            /\ r.conv = call[c].conv /\ r.msg = call[c].msg
        BY <1>0 DEF Records
      <4>9. ~At(c, "idle") /\ (At(c, "turn") => HasTurn(c))
        BY <2>15 DEF At, WriteTitle
      <4> HIDE DEF r
      <4> QED BY <4>1, <4>2, <4>8, <4>9, GoMoves
    <3> QED BY <2>15, <3>1, <3>2 DEF WriteTitle
  <2>16. CASE FindTool(c)
    <3>1. CASE End(c)
      BY <2>16, <3>1, EndMoves DEF FindTool, Starts, At
    <3>2. CASE ~End(c)
      <4>1. message[call[c].msg] # None /\ turn' = turn
        BY <2>16, <3>2 DEF FindTool
      <4>2. PICK n \in 0..message[call[c].msg].tools : call' = [call EXCEPT ![c].at = "fit", ![c].freed = n]
        BY <2>16, <3>2 DEF FindTool
      <4> DEFINE r == [call[c] EXCEPT !.at = "fit", !.freed = n]
      <4>3. n \in Nat
        BY <1>0, <4>1, <2>16 DEF Sound, Typed, Texts, FindTool, Starts
      <4>4. call' = [call EXCEPT ![c] = r]
        BY <4>2, <1>0
      <4>5. Sound(r)
        BY <1>0, <4>3, <2>16, StoreAssumption DEF Sound, Records, OnPath, At, FindTool, Starts, Steps
      <4>8. /\ r.at \notin {"idle", "turn"} /\ r.op = call[c].op
            /\ r.conv = call[c].conv /\ r.msg = call[c].msg
        BY <1>0 DEF Records
      <4>9. ~At(c, "idle") /\ (At(c, "turn") => HasTurn(c))
        BY <2>16 DEF At, FindTool, Starts
      <4> HIDE DEF r
      <4> QED BY <4>1, <4>4, <4>5, <4>8, <4>9, GoMoves
    <3> QED BY <3>1, <3>2
  <2>17. CASE WriteTool(c)
    <3>1. CASE End(c)
      BY <2>17, <3>1, EndMoves DEF WriteTool, At
    <3>2. CASE To(c, "release") /\ UNCHANGED turn
      <4> DEFINE r == [call[c] EXCEPT !.at = "release"]
      <4>1. call' = [call EXCEPT ![c] = r] /\ turn' = turn
        BY <3>2, <1>0 DEF To
      <4>2. Sound(r)
        BY <1>0, <2>17, StoreAssumption DEF Sound, Records, OnPath, At, WriteTool, Steps
      <4>8. /\ r.at \notin {"idle", "turn"} /\ r.op = call[c].op
            /\ r.conv = call[c].conv /\ r.msg = call[c].msg
        BY <1>0 DEF Records
      <4>9. ~At(c, "idle") /\ (At(c, "turn") => HasTurn(c))
        BY <2>17 DEF At, WriteTool
      <4> HIDE DEF r
      <4> QED BY <4>1, <4>2, <4>8, <4>9, GoMoves
    <3> QED BY <2>17, <3>1, <3>2 DEF WriteTool
  <2>18. CASE FindOwner(c)
    <3> DEFINE k == IF call[c].conv \in Conversations /\ used # None THEN 0 ELSE None
               r == [call[c] EXCEPT !.at = "erase", !.freed = k]
    <3>1. call' = [call EXCEPT ![c] = r] /\ turn' = turn
      BY <2>18, <1>0 DEF FindOwner
    <3>2. k \in {0, None}
      OBVIOUS
    <3> HIDE DEF k
    <3>3. Sound(r)
      BY <1>0, <3>2, <2>18, StoreAssumption DEF Sound, Records, OnPath, At, FindOwner, Starts, Steps
    <3>8. /\ r.at \notin {"idle", "turn"} /\ r.op = call[c].op
          /\ r.conv = call[c].conv /\ r.msg = call[c].msg
      BY <1>0 DEF Records
    <3>9. ~At(c, "idle") /\ (At(c, "turn") => HasTurn(c))
      BY <2>18 DEF At, FindOwner, Starts
    <3> HIDE DEF r
    <3> QED BY <3>1, <3>3, <3>8, <3>9, GoMoves
  <2>19. CASE Erase(c)
    <3> DEFINE v == call[c].conv
               n == TextBytes(v) + IF call[c].op = "delete" /\ v \in Conversations THEN title[v] ELSE 0
               k == IF call[c].freed = None THEN 0 ELSE n
               r == [call[c] EXCEPT !.at = "release", !.freed = k]
    <3>1. call' = [call EXCEPT ![c] = r] /\ turn' = turn
      BY <2>19, <1>0 DEF Erase
    <3>2. k \in Nat
      <4>1. v \in Convs
        BY <1>0, <2>19 DEF Sound, OnPath, Erase, At
      <4>2. TextBytes(v) \in Nat
        BY <4>1, SumsTyped
      <4>3. v \in Conversations => title[v] \in Nat
        BY <4>1 DEF Conversations, Typed
      <4> QED BY <4>2, <4>3
    <3> HIDE DEF k
    <3>3. Sound(r)
      BY <1>0, <3>2, <2>19, StoreAssumption DEF Sound, Records, OnPath, At, Erase, Steps
    <3>8. /\ r.at \notin {"idle", "turn"} /\ r.op = call[c].op
          /\ r.conv = call[c].conv /\ r.msg = call[c].msg
      BY <1>0 DEF Records
    <3>9. ~At(c, "idle") /\ (At(c, "turn") => HasTurn(c))
      BY <2>19 DEF At, Erase
    <3> HIDE DEF r
    <3> QED BY <3>1, <3>3, <3>8, <3>9, GoMoves
  <2>20. CASE Release(c)
    BY <2>20, EndMoves DEF Release, At
  <2> QED BY <2>1, <2>2, <2>3, <2>4, <2>5, <2>6, <2>7, <2>8, <2>9, <2>10, <2>11, <2>12, <2>13, <2>14,
             <2>15, <2>16, <2>17, <2>18, <2>19, <2>20 DEF Run
<1>2. ~At(c, "idle")
  BY <1>0 DEF Run, SeedTitles, SeedTexts, Reserve, Fit, CountConversations, WriteConversation, FindConversation,
     CountMessages, WriteMessage, Recount, ShowCount, FindMessage, Rewrite, FindTitle, WriteTitle, FindTool,
     WriteTool, FindOwner, Erase, Release, Starts, At, Counting
<1> QED BY <1>1, <1>2 DEF Joins

\* A caller that leaves ends its call and gives up its turn or place.
LEMMA LeaveMoves ==
    ASSUME Typed, NEW c \in Callers, Leave(c)
    PROVE  Moves(c) /\ Quits(c)
BY EndMoves DEF Leave, At

\* So does a failed statement.
LEMMA FailMoves ==
    ASSUME Typed, NEW c \in Callers, Fail(c)
    PROVE  Moves(c) /\ Quits(c)
BY EndMoves DEF Fail, Asking, At

-----------------------------------------------------------------------------
(* Types and turns are kept. *)

\* A call that has its turn is the only one that has it.
LEMMA OneHolder ==
    ASSUME Turns, NEW c \in Callers, NEW d \in Callers, HasTurn(c), Key(d) = Key(c),
           call[d].at \notin {"idle", "turn"}
    PROVE  d = c
BY DEF Turns, HasTurn

\* Whatever a call does, the turns stay in order.
LEMMA MovesKeepTurns ==
    ASSUME Typed, Turns, NEW c \in Callers, Moves(c)
    PROVE  Turns'
<1>1. /\ \A d \in Callers \ {c} : call'[d] = call[d] /\ Key(d)' = Key(d)
      /\ \A k \in Keys : IsQueue(turn[k], Callers)
      /\ turn \in [Keys -> Seq(Callers)]
  BY DEF Moves, Others, Key, Turns
<1>2. \A k \in Keys : c \in ToSet(turn[k]) <=> ~At(c, "idle") /\ k = Key(c)
  BY DEF Turns
<1>3. CASE Joins(c)
  <2> DEFINE k == Key(c)'
             q == Append(turn[k], c)
  <2>1. k \in Keys /\ turn' = [turn EXCEPT ![k] = q] /\ c \notin ToSet(turn[k])
    BY <1>2, <1>3 DEF Joins
  <2>2. /\ IsQueue(q, Callers) /\ ToSet(q) = ToSet(turn[k]) \union {c}
        /\ turn[k] # <<>> => q # <<>> /\ Head(q) = Head(turn[k])
    BY <1>1, <2>1, QueueAppend
  <2>3. turn'[k] = q /\ \A j \in Keys \ {k} : turn'[j] = turn[j]
    BY <1>1, <2>1
  <2>4. turn' \in [Keys -> Seq(Callers)]
    BY <1>1, <2>1, <2>2 DEF IsQueue
  <2> HIDE DEF q
  <2>5. \A j \in Keys : IsQueue(turn'[j], Callers)
    BY <1>1, <2>2, <2>3
  <2>6. \A d \in Callers : call'[d].at \notin {"idle", "turn"} => HasTurn(d)'
    <3> SUFFICES ASSUME NEW d \in Callers, call'[d].at \notin {"idle", "turn"} PROVE HasTurn(d)'
      OBVIOUS
    <3>1. d # c /\ call'[d] = call[d] /\ Key(d)' = Key(d) /\ HasTurn(d)
      BY <1>1, <1>3 DEF Joins, Turns
    <3>2. Key(d) \in Keys
      BY <3>1, KeyType DEF At
    <3> HIDE DEF k
    <3> QED BY <2>2, <2>3, <3>1, <3>2 DEF HasTurn
  <2>7. \A d \in Callers, j \in Keys : d \in ToSet(turn'[j]) <=> ~At(d, "idle")' /\ j = Key(d)'
    <3> SUFFICES ASSUME NEW d \in Callers, NEW j \in Keys
                 PROVE  d \in ToSet(turn'[j]) <=> ~At(d, "idle")' /\ j = Key(d)'
      OBVIOUS
    <3>1. d \in ToSet(turn'[j]) <=> (d \in ToSet(turn[j]) \/ (d = c /\ j = k))
      BY <2>2, <2>3
    <3>2. CASE d = c
      <4>1. c \notin ToSet(turn[j]) /\ ~At(c, "idle")'
        BY <1>2, <1>3 DEF Joins, At
      <4> QED BY <3>1, <3>2, <4>1
    <3>3. CASE d # c
      <4>1. d \in ToSet(turn[j]) <=> ~At(d, "idle") /\ j = Key(d)
        BY DEF Turns
      <4>2. At(d, "idle")' <=> At(d, "idle")
        BY <1>1, <3>3 DEF At
      <4>3. Key(d)' = Key(d)
        BY <1>1, <3>3
      <4> HIDE DEF k
      <4> QED BY <3>1, <3>3, <4>1, <4>2, <4>3
    <3> QED BY <3>2, <3>3
  <2> QED BY <2>4, <2>5, <2>6, <2>7 DEF Turns
<1>4. CASE Goes(c)
  <2>1. turn' = turn /\ Key(c)' = Key(c) /\ HasTurn(c) /\ ~At(c, "idle") /\ ~At(c, "idle")'
    BY <1>4 DEF Goes, Key, At
  <2>2. \A d \in Callers : Key(d)' = Key(d) /\ (At(d, "idle")' <=> At(d, "idle"))
    BY <1>1, <2>1 DEF At
  <2>3. \A d \in Callers : call'[d].at \notin {"idle", "turn"} => HasTurn(d)'
    BY <1>1, <2>1, <2>2 DEF Turns, HasTurn
  <2> QED BY <2>1, <2>2, <2>3 DEF Turns
<1>5. CASE Quits(c)
  <2> DEFINE k == Key(c)
             q == RemoveFirst(turn[k], c)
  <2>1. k \in Keys /\ turn' = [turn EXCEPT ![k] = q] /\ c \in ToSet(turn[k])
    BY <1>2, <1>5, KeyType DEF Quits, End
  <2>2. /\ IsQueue(q, Callers) /\ ToSet(q) = ToSet(turn[k]) \ {c}
        /\ Head(turn[k]) # c => q # <<>> /\ Head(q) = Head(turn[k])
    BY <1>1, <2>1, QueueLeave
  <2>3. turn'[k] = q /\ \A j \in Keys \ {k} : turn'[j] = turn[j]
    BY <1>1, <2>1
  <2>4. turn' \in [Keys -> Seq(Callers)]
    BY <1>1, <2>1, <2>2 DEF IsQueue
  <2> HIDE DEF q
  <2>5. \A j \in Keys : IsQueue(turn'[j], Callers)
    BY <1>1, <2>2, <2>3
  <2>0. call'[c] = Idle
    BY <1>5 DEF Quits, End, Typed
  <2>6. \A d \in Callers : call'[d].at \notin {"idle", "turn"} => HasTurn(d)'
    <3> SUFFICES ASSUME NEW d \in Callers, call'[d].at \notin {"idle", "turn"} PROVE HasTurn(d)'
      OBVIOUS
    <3>1. d # c
      BY <2>0 DEF Idle
    <3>2. call'[d] = call[d] /\ Key(d)' = Key(d) /\ HasTurn(d)
      BY <1>1, <3>1 DEF Turns
    <3>3. Key(d) \in Keys
      BY <3>2, KeyType DEF At
    <3> HIDE DEF k
    <3> QED BY <2>2, <2>3, <3>1, <3>2, <3>3 DEF HasTurn
  <2>7. \A d \in Callers, j \in Keys : d \in ToSet(turn'[j]) <=> ~At(d, "idle")' /\ j = Key(d)'
    <3> SUFFICES ASSUME NEW d \in Callers, NEW j \in Keys
                 PROVE  d \in ToSet(turn'[j]) <=> ~At(d, "idle")' /\ j = Key(d)'
      OBVIOUS
    <3>1. d \in ToSet(turn'[j]) <=> (d \in ToSet(turn[j]) /\ ~(d = c /\ j = k))
      BY <2>2, <2>3
    <3>2. CASE d = c
      <4>1. At(c, "idle")'
        BY <2>0 DEF Idle, At
      <4>2. c \in ToSet(turn[j]) => j = k
        BY <1>2
      <4> QED BY <3>1, <3>2, <4>1, <4>2
    <3>3. CASE d # c
      <4>1. d \in ToSet(turn[j]) <=> ~At(d, "idle") /\ j = Key(d)
        BY DEF Turns
      <4>2. At(d, "idle")' <=> At(d, "idle")
        BY <1>1, <3>3 DEF At
      <4>3. Key(d)' = Key(d)
        BY <1>1, <3>3
      <4> HIDE DEF k
      <4> QED BY <3>1, <3>3, <4>1, <4>2, <4>3
    <3> QED BY <3>2, <3>3
  <2> QED BY <2>4, <2>5, <2>6, <2>7 DEF Turns
<1> QED BY <1>3, <1>4, <1>5 DEF Moves

\* What is released leaves the counter a natural.
LEMMA ReleasedTyped ==
    ASSUME Typed, NEW c \in Callers, call[c].freed \in Nat
    PROVE  Released(c) \in Nat \union {None}
BY LessTyped DEF Typed, Released

RowTypes ==
    /\ title \in [Convs -> Nat \union {None}]
    /\ message \in [Msgs -> Texts \union {None}]
    /\ shown \in [Convs -> Nat]
    /\ used \in Nat \union {None}
    /\ faults \in 0..MaxFaults

\* The rows and the counter keep their types.
LEMMA RunTypesRows ==
    ASSUME Typed, Rows, NEW c \in Callers, Run(c)
    PROVE  RowTypes'
<1>0. /\ Sound(call[c]) /\ call[c] \in Records /\ Owns(c)
      /\ RowTypes
  BY DEF Typed, Rows, RowTypes
<1>1. CASE SeedTitles(c)
  BY <1>0, <1>1 DEF SeedTitles, RowTypes, rows
<1>2. CASE SeedTexts(c)
  BY <1>0, <1>2 DEF SeedTexts, RowTypes, rows
<1>3. CASE Reserve(c)
  <2>1. Counter(c) \in Nat /\ call[c].bytes \in Nat
    BY <1>0, <1>3, CounterTyped DEF Reserve, Records
  <2>2. used' \in Nat
    BY <2>1, <1>3 DEF Reserve
  <2> QED BY <1>0, <1>3, <2>2 DEF Reserve, RowTypes, rows
<1>4. CASE Fit(c)
  <2> DEFINE k == Less(Limit, Counter(c))
             n == Least(call[c].bytes, k + call[c].freed)
  <2>1. Counter(c) \in Nat /\ call[c].bytes \in Nat /\ call[c].freed \in Nat /\ Limit \in Nat
    BY <1>0, <1>4, CounterTyped, StoreAssumption DEF Fit, Records, Sound, At
  <2>2. k \in Nat
    BY <2>1, LessTyped
  <2> HIDE DEF k
  <2>3. n \in Nat
    <3>1. k + call[c].freed \in Nat
      BY <2>1, <2>2
    <3> QED BY <2>1, <3>1, LessTyped
  <2>4. used' = Counter(c) + n
    BY <1>4 DEF Fit, k
  <2> HIDE DEF n
  <2>5. used' \in Nat
    BY <2>1, <2>3, <2>4
  <2> QED BY <1>0, <1>4, <2>5 DEF Fit, RowTypes, rows
<1>5. CASE CountConversations(c)
  BY <1>0, <1>5 DEF CountConversations, RowTypes, rows
<1>6. CASE WriteConversation(c)
  BY <1>0, <1>6 DEF WriteConversation, RowTypes, Records
<1>7. CASE FindConversation(c)
  BY <1>0, <1>7 DEF FindConversation, RowTypes, rows
<1>8. CASE CountMessages(c)
  <2>1. call[c].conv \in Convs
    BY <1>0, <1>8 DEF CountMessages, At, Sound, OnPath
  <2>2. Cardinality(MessagesOf(call[c].conv)) \in Nat
    BY <2>1, CountsTyped
  <2> QED BY <1>0, <1>8, <2>2 DEF CountMessages, RowTypes
<1>9. CASE WriteMessage(c)
  <2>1. call[c].conv \in Convs /\ call[c].bytes \in Nat
    BY <1>0, <1>9 DEF WriteMessage, At, Sound, OnPath, Records
  <2> QED BY <1>0, <1>9, <2>1 DEF WriteMessage, RowTypes, Texts
<1>10. CASE Recount(c)
  <2>1. call[c].freed \in Nat
    BY <1>0, <1>10 DEF Recount, At, Sound, Records
  <2> QED BY <1>0, <1>10, <2>1, ReleasedTyped DEF Recount, RowTypes, rows
<1>11. CASE ShowCount(c)
  BY <1>0, <1>11 DEF ShowCount, RowTypes, Records
<1>12. CASE FindMessage(c)
  BY <1>0, <1>12 DEF FindMessage, RowTypes, rows
<1>13. CASE Rewrite(c)
  BY <1>0, <1>13 DEF Rewrite, RowTypes, Records, Texts
<1>14. CASE FindTitle(c)
  BY <1>0, <1>14 DEF FindTitle, RowTypes, rows
<1>15. CASE WriteTitle(c)
  <2> DEFINE v == call[c].conv
             n == title[v] + call[c].bytes - call[c].freed
  <2>1. call[c].op = "title" /\ call[c].at = "write"
    BY <1>15 DEF WriteTitle, At
  <2>2. v \in Conversations => n \in Nat
    BY <1>0, <2>1, StoreAssumption DEF Owns
  <2> QED BY <1>0, <1>15, <2>2 DEF WriteTitle, RowTypes
<1>16. CASE FindTool(c)
  BY <1>0, <1>16 DEF FindTool, RowTypes, rows
<1>17. CASE WriteTool(c)
  <2> DEFINE m == call[c].msg
             n == message[m].tools + call[c].bytes - call[c].freed
  <2>1. call[c].op = "tool" /\ call[c].at = "rewrite"
    BY <1>17 DEF WriteTool, At
  <2>2. /\ m \in Msgs /\ message[m] # None /\ message[m].tools >= call[c].freed /\ call[c].freed \in Nat
        /\ call[c].bytes \in Nat /\ message[m] \in Texts
    BY <1>0, <2>1 DEF Owns, Sound, Records, RowTypes
  <2>3. n \in Nat
    BY <2>2 DEF Texts
  <2>4. message' = [message EXCEPT ![m].tools = n]
    BY <1>17, <2>2 DEF WriteTool
  <2> HIDE DEF n
  <2>5. message' \in [Msgs -> Texts \union {None}]
    BY <1>0, <2>2, <2>3, <2>4 DEF RowTypes, Texts
  <2> QED BY <1>0, <1>17, <2>5 DEF WriteTool, RowTypes
<1>18. CASE FindOwner(c)
  BY <1>0, <1>18 DEF FindOwner, RowTypes, rows
<1>19. CASE Erase(c)
  BY <1>0, <1>19 DEF Erase, RowTypes
<1>20. CASE Release(c)
  <2>1. call[c].freed \in Nat
    BY <1>0, <1>20 DEF Release, At, Sound, Records
  <2> QED BY <1>0, <1>20, <2>1, ReleasedTyped DEF Release, RowTypes, rows
<1> QED BY <1>1, <1>2, <1>3, <1>4, <1>5, <1>6, <1>7, <1>8, <1>9, <1>10, <1>11, <1>12, <1>13, <1>14,
           <1>15, <1>16, <1>17, <1>18, <1>19, <1>20 DEF Run

\* So do they when a statement fails.
LEMMA FailTypesRows ==
    ASSUME Typed, NEW c \in Callers, Fail(c)
    PROVE  RowTypes'
<1>1. At(c, "recount") => call[c].freed \in Nat
  BY DEF Typed, At, Sound, Records
<1>2. used' \in Nat \union {None}
  BY <1>1, ReleasedTyped DEF Fail, Typed
<1> QED BY <1>2, StoreAssumption DEF Fail, Typed, RowTypes, rows

\* The types and the turns together.
LEMMA MovesKeepTypes ==
    ASSUME Typed, Turns, NEW c \in Callers, Moves(c), RowTypes'
    PROVE  Typed' /\ Turns'
<1>1. Turns'
  BY MovesKeepTurns
<1>2. \A d \in Callers : Sound(call'[d])
  BY DEF Moves, Others, Typed
<1> QED BY <1>1, <1>2 DEF Moves, Typed, RowTypes

-----------------------------------------------------------------------------
(* The rows of a call are its own. *)

\* The step of c keeps within the rows its turn covers.
Within(c) ==
    /\ HasTurn(c)
    /\ \A v \in Convs : v # call[c].conv => title'[v] = title[v]
    /\ \A m \in Msgs : message'[m] # message[m] =>
        /\ call[c].op # "create"
        /\ message'[m] # None => message'[m].conv = call[c].conv
        /\ message[m] # None => message[m].conv = call[c].conv
        /\ message[m] = None => /\ m = call[c].msg /\ call[c].op = "add"
                                /\ call[c].at = "write"

Untouched == title' = title /\ message' = message

\* The ids of a call that goes on or ends are not another's.
LEMMA IdsKept ==
    ASSUME Typed, NEW c \in Callers, Moves(c), ~Joins(c)
    PROVE  \A e \in Callers : /\ call'[e].conv \in {call[e].conv, None}
                              /\ call'[e].msg \in {call[e].msg, None}
<1>1. call'[c] = Idle \/ (call'[c].conv = call[c].conv /\ call'[c].msg = call[c].msg)
  BY DEF Moves, Goes, Quits, End, Typed
<1> QED BY <1>1 DEF Moves, Others, Idle

\* A row that did not change is the row of the same conversation.
LEMMA SameRows ==
    ASSUME NEW v, title'[v] = title[v],
           \A m \in Msgs : message'[m] # message[m] =>
               /\ message'[m] # None => message'[m].conv # v
               /\ message[m] # None => message[m].conv # v
    PROVE  MessagesOf(v)' = MessagesOf(v)
BY DEF MessagesOf

\* What another call does within its turn leaves the rows a call owns as they are.
LEMMA OthersOwn ==
    ASSUME Typed, Turns, Rows, NEW c \in Callers, Moves(c), ~Joins(c), Within(c) \/ Untouched,
           NEW d \in Callers \ {c}
    PROVE  Owns(d)'
<1>0. /\ call'[d] = call[d] /\ Owns(d) /\ Sound(call[d]) /\ Sound(call[c]) /\ Owns(c)
      /\ call[d] \in Records
  BY DEF Moves, Others, Rows, Typed
<1>1. \A e \in Callers : call'[e].conv \in {call[e].conv, None} /\ call'[e].msg \in {call[e].msg, None}
  BY IdsKept
<1> SUFFICES ASSUME NEW v, v = call[d].conv, NEW m, m = call[d].msg PROVE Owns(d)'
  OBVIOUS
<1>2. call[d].op = "create" =>
        /\ v \in Convs /\ v # None /\ title'[v] = None /\ MessagesOf(v)' = {}
        /\ \A e \in Callers \ {d} : call'[e].conv # v
  <2> SUFFICES ASSUME call[d].op = "create"
               PROVE  /\ v \in Convs /\ v # None /\ title'[v] = None /\ MessagesOf(v)' = {}
                      /\ \A e \in Callers \ {d} : call'[e].conv # v
    OBVIOUS
  <2>1. /\ v \in Convs /\ v # None /\ title[v] = None /\ MessagesOf(v) = {}
        /\ \A e \in Callers \ {d} : call[e].conv # v
    BY <1>0, StoreAssumption DEF Owns, Sound
  <2>2. call[c].conv # v
    BY <2>1
  <2>3. title'[v] = title[v] /\ MessagesOf(v)' = MessagesOf(v)
    <3>1. title'[v] = title[v]
      BY <2>1, <2>2 DEF Within, Untouched
    <3>2. \A x \in Msgs : message'[x] # message[x] =>
            /\ message'[x] # None => message'[x].conv # v
            /\ message[x] # None => message[x].conv # v
      BY <2>2 DEF Within, Untouched
    <3> QED BY <3>1, <3>2, SameRows
  <2> QED BY <1>1, <2>1, <2>3
<1>3. call[d].op = "add" /\ call[d].at \in {"turn", "count", "reserve", "write"} =>
        /\ message'[m] = None
        /\ \A e \in Callers \ {d} : call'[e].msg # m
  <2> SUFFICES ASSUME call[d].op = "add", call[d].at \in {"turn", "count", "reserve", "write"}
               PROVE  message'[m] = None /\ \A e \in Callers \ {d} : call'[e].msg # m
    OBVIOUS
  <2>1. m \in Msgs /\ m # None /\ message[m] = None /\ \A e \in Callers \ {d} : call[e].msg # m
    BY <1>0, StoreAssumption DEF Owns, Sound
  <2>2. message'[m] = message[m]
    BY <2>1 DEF Within, Untouched
  <2> QED BY <1>1, <2>1, <2>2
<1>4. call[d].op \in {"update", "tool"} /\ message'[m] # None => message'[m].conv = v
  <2> SUFFICES ASSUME call[d].op \in {"update", "tool"}, message'[m] # None
               PROVE  message'[m].conv = v
    OBVIOUS
  <2>1. m \in Msgs /\ (message[m] # None => message[m].conv = v)
    BY <1>0 DEF Owns, Sound
  <2>2. CASE message'[m] = message[m]
    BY <2>1, <2>2
  <2>3. CASE message'[m] # message[m]
    <3>1. /\ message'[m].conv = call[c].conv
          /\ message[m] # None => message[m].conv = call[c].conv
          /\ message[m] = None => m = call[c].msg /\ call[c].op = "add" /\ call[c].at = "write"
      BY <2>1, <2>3 DEF Within, Untouched
    <3>2. message[m] # None
      BY <1>0, <3>1 DEF Owns
    <3> QED BY <2>1, <3>1, <3>2
  <2> QED BY <2>2, <2>3
<1>5. call[d].op \in {"add", "update", "tool", "title"} /\ call[d].at # "turn" =>
        /\ v \in Convs /\ title'[v] = title[v]
        /\ v \in Conversations
        /\ m \in Msgs /\ message[m] # None /\ message[m].conv = v => message'[m] = message[m]
  <2> SUFFICES ASSUME call[d].op \in {"add", "update", "tool", "title"}, call[d].at # "turn"
               PROVE  /\ v \in Convs /\ title'[v] = title[v]
                      /\ v \in Conversations
                      /\ m \in Msgs /\ message[m] # None /\ message[m].conv = v => message'[m] = message[m]
    OBVIOUS
  <2>1. v \in Convs /\ v \in Conversations /\ Key(d) = v /\ call[d].at \notin {"idle", "turn"}
    BY <1>0 DEF Owns, Sound, OnPath, Key
  <2>2. CASE Untouched
    BY <2>1, <2>2 DEF Untouched
  <2>3. CASE Within(c)
    <3>1. call[c].conv # v
      <4>1. CASE call[c].op = "create"
        BY <1>0, <4>1, <2>1 DEF Owns, Conversations
      <4>2. CASE call[c].op # "create"
        BY <2>1, <2>3, <4>2, OneHolder DEF Within, Key
      <4> QED BY <4>1, <4>2
    <3> QED BY <2>1, <2>3, <3>1 DEF Within
  <2> QED BY <2>2, <2>3
<1>6. call[d].op \in {"update", "tool"} /\ call[d].at \in {"fit", "rewrite"} => message'[m] = message[m]
  <2> SUFFICES ASSUME call[d].op \in {"update", "tool"}, call[d].at \in {"fit", "rewrite"}
               PROVE  message'[m] = message[m]
    OBVIOUS
  <2>1. m \in Msgs /\ message[m] # None /\ message[m].conv = v
    BY <1>0 DEF Owns, Sound
  <2> QED BY <1>5, <2>1
<1>7. call[d].op \in {"add", "update", "tool", "title"} /\ call[d].at # "turn" => v \in Conversations'
  BY <1>5 DEF Conversations
<1> QED
  BY <1>0, <1>2, <1>3, <1>4, <1>5, <1>6, <1>7 DEF Owns

\* A call that is over owns nothing.
LEMMA EndOwns ==
    ASSUME NEW c \in Callers, Quits(c), Typed
    PROVE  Owns(c)' /\ call'[c] = Idle
BY DEF Quits, End, Typed, Owns, Idle

\* Nor does a call that starts to wait take what another owns.
LEMMA JoinsOwn ==
    ASSUME Typed, Rows, NEW c \in Callers, Moves(c), Joins(c), Untouched,
           \/ call'[c].op # "create" /\ call'[c].conv \in Conversations
           \/ call'[c].op = "create" /\ call'[c].conv \in FreshConvs,
           \/ call'[c].op \notin {"add", "update", "tool"}
           \/ call'[c].op = "add" /\ call'[c].msg \in FreshMsgs
           \/ /\ call'[c].op \in {"update", "tool"} /\ message[call'[c].msg] # None
              /\ message[call'[c].msg].conv = call'[c].conv
    PROVE  Rows'
<1>0. /\ Sound(call'[c]) /\ call'[c].at = "turn" /\ title' = title /\ message' = message
      /\ \A d \in Callers \ {c} : call'[d] = call[d] /\ Owns(d) /\ Sound(call[d])
      /\ Conversations' = Conversations /\ \A v : MessagesOf(v)' = MessagesOf(v)
  BY DEF Moves, Joins, Untouched, Others, Rows, Typed, Conversations, MessagesOf
<1>1. Owns(c)'
  <2>1. call'[c].op = "create" => call'[c].conv \in FreshConvs
    OBVIOUS
  <2>2. call'[c].op = "create" => \A d \in Callers \ {c} : call'[d].conv # call'[c].conv
    BY <1>0, <2>1 DEF FreshConvs
  <2>3. call'[c].op = "add" => \A d \in Callers \ {c} : call'[d].msg # call'[c].msg
    BY <1>0 DEF FreshMsgs
  <2>4. call'[c].op = "add" => message'[call'[c].msg] = None
    BY <1>0 DEF FreshMsgs
  <2>5. call'[c].op = "create" => title'[call'[c].conv] = None /\ MessagesOf(call[c].conv)' = {}
    BY <1>0, <2>1 DEF FreshConvs, MessagesOf
  <2> QED BY <1>0, <2>2, <2>3, <2>4, <2>5 DEF Owns
<1>2. ASSUME NEW d \in Callers \ {c} PROVE Owns(d)'
  <2>1. call[d].op = "create" => call'[c].conv # call[d].conv
    BY <1>0 DEF Owns, Conversations, FreshConvs
  <2>2. call[d].op = "add" /\ call[d].at \in {"turn", "count", "reserve", "write"} => call'[c].msg # call[d].msg
    <3>1. call[d].op = "add" => call[d].msg \in Msgs /\ call[d].msg # None
      BY <1>0, StoreAssumption DEF Sound
    <3>2. CASE call'[c].op \notin {"add", "update", "tool"}
      BY <1>0, <3>1, <3>2 DEF Sound
    <3>3. CASE call'[c].op = "add" /\ call'[c].msg \in FreshMsgs
      BY <3>3 DEF FreshMsgs
    <3>4. CASE call'[c].op \in {"update", "tool"} /\ message[call'[c].msg] # None
      BY <1>0, <3>4 DEF Owns
    <3> QED BY <3>2, <3>3, <3>4
  <2>3. /\ call[d].op = "create" => \A e \in Callers \ {d} : call'[e].conv # call'[d].conv
        /\ call[d].op = "add" /\ call[d].at \in {"turn", "count", "reserve", "write"} =>
              \A e \in Callers \ {d} : call'[e].msg # call'[d].msg
    BY <1>0, <2>1, <2>2 DEF Owns
  <2> QED BY <1>0, <2>3 DEF Owns
<1> QED BY <1>0, <1>1, <1>2 DEF Rows

\* Requests that begin leave the rows as they are.
LEMMA AskKeepsRows ==
    ASSUME Typed, Rows, NEW c \in Callers,
           AskCreate(c) \/ AskAdd(c) \/ AskErase(c) \/ AskUpdate(c) \/ AskTitle(c) \/ AskTool(c)
    PROVE  Rows'
<1>0. Moves(c) /\ Joins(c)
  BY AskCreateMoves, AskAddMoves, AskEraseMoves, AskUpdateMoves, AskTitleMoves, AskToolMoves
<1>1. call \in [Callers -> Records]
  BY DEF Typed
<1>2. CASE AskCreate(c)
  <2>1. PICK v \in FreshConvs : Ask(c, "create", v, None, TitleBytes, SessionTurn)
    BY <1>2 DEF AskCreate
  <2>2. call'[c].op = "create" /\ call'[c].conv = v /\ Untouched
    BY <2>1, <1>1 DEF Ask, Idle, Untouched, rows
  <2> QED BY <1>0, <2>2, JoinsOwn
<1>3. CASE AskAdd(c)
  <2>1. PICK v \in Conversations, m \in FreshMsgs, n \in Sizes : Ask(c, "add", v, m, n, v)
    BY <1>3 DEF AskAdd
  <2>2. call'[c].op = "add" /\ call'[c].conv = v /\ call'[c].msg = m /\ Untouched
    BY <2>1, <1>1 DEF Ask, Idle, Untouched, rows
  <2> QED BY <1>0, <2>2, JoinsOwn
<1>4. CASE AskErase(c)
  <2>1. PICK v \in Conversations, op \in {"clear", "delete"} : Ask(c, op, v, None, 0, v)
    BY <1>4 DEF AskErase
  <2>2. call'[c].op = op /\ call'[c].conv = v /\ Untouched
    BY <2>1, <1>1 DEF Ask, Idle, Untouched, rows
  <2> QED BY <1>0, <2>2, JoinsOwn
<1>5. CASE AskUpdate(c) \/ AskTool(c)
  <2>1. PICK op \in {"update", "tool"}, m \in Msgs, n \in Sizes :
           message[m] # None /\ Ask(c, op, message[m].conv, m, n, message[m].conv)
    BY <1>5 DEF AskUpdate, AskTool
  <2>2. call'[c].op = op /\ call'[c].conv = message[m].conv /\ call'[c].msg = m /\ Untouched
    BY <2>1, <1>1 DEF Ask, Idle, Untouched, rows
  <2>3. message[m].conv \in Conversations
    BY <2>1 DEF Rows, Typed, Texts, Conversations
  <2> QED BY <1>0, <2>1, <2>2, <2>3, JoinsOwn
<1>6. CASE AskTitle(c)
  <2>1. PICK v \in Conversations, n \in TitleSizes : Ask(c, "title", v, None, n, v)
    BY <1>6 DEF AskTitle
  <2>2. call'[c].op = "title" /\ call'[c].conv = v /\ Untouched
    BY <2>1, <1>1 DEF Ask, Idle, Untouched, rows
  <2> QED BY <1>0, <2>2, JoinsOwn
<1> QED BY <1>2, <1>3, <1>4, <1>5, <1>6

\* A step that keeps within the rows of its turn, and leaves them sound, keeps the rows.
LEMMA RunKeepsRows ==
    ASSUME Typed, Turns, Rows, NEW c \in Callers, Moves(c), ~Joins(c), Within(c) \/ Untouched,
           Owns(c)',
           title' \in [Convs -> {TitleBytes, None} \union TitleSizes],
           \A m \in Msgs : message'[m] # None => title'[message'[m].conv] # None
    PROVE  Rows'
<1>1. \A d \in Callers : Owns(d)'
  BY OthersOwn
<1> QED BY <1>1 DEF Rows

\* A call that goes on, and writes no row, still owns what it found.
LEMMA GoesOwn ==
    ASSUME Typed, Turns, Rows, NEW c \in Callers, Moves(c), Goes(c), Untouched,
           call[c].at = "turn" /\ call[c].op \in {"add", "update", "tool", "title"} =>
               call[c].conv \in Conversations,
           call[c].op = "add" /\ call'[c].at \in {"count", "reserve", "write"} =>
               call[c].at \in {"turn", "count", "reserve"},
           call[c].op \in {"update", "tool"} /\ call'[c].at \in {"fit", "rewrite"} =>
               \/ call[c].at = "fit" /\ call'[c].freed = call[c].freed
               \/ call[c].at = "turn" /\ message[call[c].msg] # None,
           call[c].op = "update" /\ call[c].at = "turn" => call'[c].freed = message[call[c].msg].bytes,
           call[c].op = "tool" /\ call[c].at = "turn" => call'[c].freed <= message[call[c].msg].tools,
           call[c].op = "title" /\ call'[c].at \in {"reserve", "write"} =>
               \/ call[c].at = "reserve" /\ call'[c].freed = call[c].freed /\ call'[c].bytes = call[c].bytes
               \/ /\ call[c].at = "turn" /\ title[call[c].conv] >= call'[c].freed
                  /\ title[call[c].conv] + call'[c].bytes - call'[c].freed \in TitleSizes
    PROVE  Rows'
<1>0. /\ Sound(call'[c]) /\ Sound(call[c]) /\ title' = title /\ message' = message /\ Owns(c)
      /\ \A d \in Callers \ {c} : call'[d] = call[d]
      /\ Conversations' = Conversations /\ \A v : MessagesOf(v)' = MessagesOf(v)
      /\ call'[c].op = call[c].op /\ call'[c].conv = call[c].conv /\ call'[c].msg = call[c].msg
      /\ ~Joins(c)
  BY DEF Moves, Goes, Joins, Untouched, Others, Rows, Typed, Conversations, MessagesOf
<1>1. call'[c].op = "create" => title'[call'[c].conv] = None /\ MessagesOf(call[c].conv)' = {}
                                /\ \A d \in Callers \ {c} : call'[d].conv # call'[c].conv
  BY <1>0 DEF Owns
<1>2. call'[c].op = "add" /\ call'[c].at \in {"turn", "count", "reserve", "write"} =>
        message'[call'[c].msg] = None /\ \A d \in Callers \ {c} : call'[d].msg # call'[c].msg
  BY <1>0 DEF Owns, Goes
<1>3. call'[c].op \in {"update", "tool"} /\ message'[call'[c].msg] # None =>
        message'[call'[c].msg].conv = call'[c].conv
  BY <1>0 DEF Owns
<1>4. call'[c].op \in {"add", "update", "tool", "title"} => call'[c].conv \in Conversations'
  BY <1>0 DEF Owns
<1>5. call'[c].op = "update" /\ call'[c].at \in {"fit", "rewrite"} =>
        message'[call'[c].msg] # None /\ message'[call'[c].msg].bytes = call'[c].freed
  BY <1>0 DEF Owns
<1>6. call'[c].op = "tool" /\ call'[c].at \in {"fit", "rewrite"} =>
        message'[call'[c].msg] # None /\ message'[call'[c].msg].tools >= call'[c].freed
  <2> SUFFICES ASSUME call'[c].op = "tool", call'[c].at \in {"fit", "rewrite"}
               PROVE  message'[call'[c].msg] # None /\ message'[call'[c].msg].tools >= call'[c].freed
    OBVIOUS
  <2>1. CASE call[c].at = "fit" /\ call'[c].freed = call[c].freed
    BY <1>0, <2>1 DEF Owns
  <2>2. CASE call[c].at = "turn" /\ message[call[c].msg] # None
    <3>1. message[call[c].msg].tools \in Nat /\ call'[c].freed \in Nat
      BY <1>0, <2>2 DEF Sound, Records, Typed, Texts
    <3> QED BY <1>0, <2>2, <3>1
  <2> QED BY <1>0, <2>1, <2>2
<1>7. call'[c].op = "title" /\ call'[c].at \in {"reserve", "write"} =>
        /\ title'[call'[c].conv] >= call'[c].freed
        /\ title'[call'[c].conv] + call'[c].bytes - call'[c].freed \in TitleSizes
  BY <1>0 DEF Owns
<1>8. Owns(c)'
  BY <1>1, <1>2, <1>3, <1>4, <1>5, <1>6, <1>7 DEF Owns
<1> QED BY <1>0, <1>8, RunKeepsRows DEF Rows

\* A call that ends and writes no row leaves the rows as they are.
LEMMA QuitsOwn ==
    ASSUME Typed, Turns, Rows, NEW c \in Callers, Moves(c), Quits(c), Untouched
    PROVE  Rows'
<1>1. Owns(c)' /\ ~Joins(c)
  BY EndOwns DEF Quits, Joins
<1> QED BY <1>1, RunKeepsRows DEF Rows, Untouched

\* The rows stay as they should whatever a call does in its turn.
LEMMA RunRows ==
    ASSUME Typed, Turns, Rows, NEW c \in Callers, Run(c)
    PROVE  Rows'
<1>0. /\ Sound(call[c]) /\ call \in [Callers -> Records] /\ call[c] \in Records /\ Owns(c)
      /\ Moves(c) /\ ~Joins(c) /\ RowTypes
      /\ call[c].at \notin {"idle", "turn"} => HasTurn(c)
  BY RunMoves DEF Typed, Rows, RowTypes, Turns
<1>21. ~Quits(c) => Goes(c)
  BY <1>0 DEF Moves
<1>22. Untouched /\ Quits(c) => Rows'
  BY <1>0, QuitsOwn
<1>1. CASE SeedTitles(c)
  <2>1. /\ call'[c] = [call[c] EXCEPT !.seed = TitlesBytes, !.unread = Conversations] /\ Untouched
        /\ call[c].at \in {"reserve", "fit"}
    BY <1>0, <1>1 DEF SeedTitles, Untouched, rows, Counting, At
  <2>2. call'[c].at = call[c].at /\ call'[c].freed = call[c].freed /\ call'[c].bytes = call[c].bytes
    BY <1>0, <2>1 DEF Records
  <2>3. call'[c].at # "idle"
    BY <2>1, <2>2
  <2>4. ~Quits(c)
    BY <1>0, <2>3 DEF Quits, End, Idle
  <2> QED BY <1>0, <1>21, <2>1, <2>2, <2>4, GoesOwn DEF Sound, OnPath
<1>2. CASE SeedTexts(c)
  <2>1. PICK v \in call[c].unread :
          call' = [call EXCEPT ![c].seed = @ + TextBytes(v), ![c].unread = @ \ {v}]
    BY <1>2 DEF SeedTexts
  <2>2. /\ call[c].at \in {"reserve", "fit"} /\ Untouched
        /\ call'[c].at = call[c].at /\ call'[c].freed = call[c].freed /\ call'[c].bytes = call[c].bytes
    BY <1>0, <1>2, <2>1 DEF SeedTexts, Untouched, rows, Counting, At, Records
  <2>3. ~Quits(c)
    BY <1>0, <2>2 DEF Quits, End, Idle
  <2> QED BY <1>0, <1>21, <2>2, <2>3, GoesOwn DEF Sound, OnPath
<1>3. CASE Reserve(c)
  <2>1. Untouched /\ call[c].at = "reserve"
    BY <1>3 DEF Reserve, Untouched, rows, At
  <2>2. CASE ~Quits(c)
    <3>1. To(c, "write")
      BY <1>0, <1>3, <2>1, <2>2 DEF Reserve, Quits, At
    <3>2. /\ call'[c].at = "write" /\ call'[c].freed = call[c].freed /\ call'[c].bytes = call[c].bytes
      BY <1>0, <3>1 DEF To, Records
    <3> QED BY <1>0, <1>21, <2>1, <2>2, <3>2, GoesOwn DEF Sound, OnPath
  <2> QED BY <1>22, <2>1, <2>2
<1>4. CASE Fit(c)
  <2>1. Untouched /\ call[c].at = "fit" /\ call'[c].at = "rewrite" /\ call'[c].freed = call[c].freed
    BY <1>0, <1>4 DEF Fit, Untouched, rows, At, Records
  <2>2. ~Quits(c)
    BY <1>0, <2>1 DEF Quits, End, Idle
  <2> QED BY <1>0, <1>21, <2>1, <2>2, GoesOwn DEF Sound, OnPath
<1>5. CASE CountConversations(c)
  <2>1. Untouched /\ call[c].op = "create"
    BY <1>5 DEF CountConversations, Untouched, rows, Starts
  <2>2. CASE ~Quits(c)
    BY <1>0, <1>21, <2>1, <2>2, GoesOwn
  <2> QED BY <1>22, <2>1, <2>2
<1>6. CASE WriteConversation(c)
  <2> DEFINE v == call[c].conv
  <2>1. /\ call[c].op = "create" /\ call[c].at = "write" /\ v \in Convs /\ call[c].bytes = TitleBytes
        /\ message' = message /\ title' = [title EXCEPT ![v] = TitleBytes]
    BY <1>0, <1>6 DEF WriteConversation, At, Sound, OnPath
  <2>2. Quits(c)
    BY <1>6, <2>1 DEF WriteConversation, Quits, At
  <2>3. Within(c)
    BY <1>0, <2>1 DEF Within, RowTypes
  <2>4. title' \in [Convs -> {TitleBytes, None} \union TitleSizes]
    BY <2>1 DEF Rows
  <2>5. \A m \in Msgs : message'[m] # None => title'[message'[m].conv] # None
    BY <2>1, StoreAssumption DEF Rows
  <2> QED BY <1>0, <2>2, <2>3, <2>4, <2>5, EndOwns, RunKeepsRows
<1>7. CASE FindConversation(c)
  <2>1. Untouched /\ call[c].op = "add" /\ call[c].at = "turn"
    BY <1>7 DEF FindConversation, Untouched, rows, Starts, At
  <2>2. CASE ~Quits(c)
    <3>1. call[c].conv \in Conversations
      BY <1>7, <2>1, <2>2 DEF FindConversation, Quits, At
    <3> QED BY <1>0, <1>21, <2>1, <2>2, <3>1, GoesOwn
  <2> QED BY <1>22, <2>1, <2>2
<1>8. CASE CountMessages(c)
  <2>1. Untouched /\ call[c].op = "add" /\ call[c].at = "count"
    BY <1>0, <1>8 DEF CountMessages, Untouched, At, Sound, OnPath, Records, Ops
  <2>2. CASE ~Quits(c)
    BY <1>0, <1>21, <2>1, <2>2, GoesOwn
  <2> QED BY <1>22, <2>1, <2>2
<1>9. CASE WriteMessage(c)
  <2> DEFINE m == call[c].msg
             v == call[c].conv
             new == [conv |-> v, bytes |-> call[c].bytes, tools |-> 0]
  <2>1. /\ call[c].op = "add" /\ call[c].at = "write" /\ m \in Msgs /\ v \in Conversations
        /\ message[m] = None /\ title' = title /\ message' = [message EXCEPT ![m] = new]
        /\ call'[c] = [call[c] EXCEPT !.at = "recount"]
    BY <1>0, <1>9 DEF WriteMessage, At, Sound, Owns, To
  <2>2. message'[m] = new /\ \A x \in Msgs \ {m} : message'[x] = message[x]
    BY <1>0, <2>1 DEF RowTypes
  <2>3. Within(c)
    <3>1. new.conv = v
      OBVIOUS
    <3> HIDE DEF new
    <3> QED BY <1>0, <2>1, <2>2, <3>1 DEF Within
  <2>4. \A x \in Msgs : message'[x] # None => title'[message'[x].conv] # None
    <3>1. title[new.conv] # None
      BY <2>1 DEF Conversations
    <3> HIDE DEF new
    <3> QED BY <2>1, <2>2, <3>1 DEF Rows
  <2>5. Owns(c)'
    <3>1. call'[c].op = "add" /\ call'[c].at = "recount" /\ call'[c].conv = v
      BY <1>0, <2>1 DEF Records
    <3>2. v \in Conversations'
      BY <2>1 DEF Conversations
    <3> HIDE DEF v
    <3> QED BY <3>1, <3>2 DEF Owns
  <2>6. title' \in [Convs -> {TitleBytes, None} \union TitleSizes]
    BY <2>1 DEF Rows
  <2> QED BY <1>0, <2>3, <2>4, <2>5, <2>6, RunKeepsRows
<1>10. CASE Recount(c)
  <2>1. Untouched /\ call[c].at = "recount" /\ call'[c].at = "show" /\ call[c].op \in {"add", "update"}
    BY <1>0, <1>10 DEF Recount, Untouched, rows, At, Records, Sound, OnPath, Ops
  <2>2. ~Quits(c)
    BY <1>0, <2>1 DEF Quits, End, Idle
  <2> QED BY <1>0, <1>21, <2>1, <2>2, GoesOwn
<1>11. CASE ShowCount(c)
  <2>1. Untouched /\ Quits(c)
    BY <1>11 DEF ShowCount, Untouched, Quits, At
  <2> QED BY <1>22, <2>1
<1>12. CASE FindMessage(c)
  <2>1. Untouched /\ call[c].op = "update" /\ call[c].at = "turn"
    BY <1>12 DEF FindMessage, Untouched, rows, Starts, At
  <2>2. CASE ~Quits(c)
    <3>1. /\ call[c].conv \in Conversations /\ message[call[c].msg] # None
          /\ call'[c].freed = message[call[c].msg].bytes
      BY <1>0, <1>12, <2>1, <2>2 DEF FindMessage, Quits, At, Records
    <3> QED BY <1>0, <1>21, <2>1, <2>2, <3>1, GoesOwn
  <2> QED BY <1>22, <2>1, <2>2
<1>13. CASE Rewrite(c)
  <2> DEFINE m == call[c].msg
             v == call[c].conv
             new == [message[m] EXCEPT !.bytes = call[c].bytes]
  <2>1. /\ call[c].op = "update" /\ call[c].at = "rewrite" /\ m \in Msgs /\ v \in Conversations
        /\ message[m] # None /\ message[m] \in Texts /\ message[m].conv = v
    BY <1>0, <1>13 DEF Rewrite, At, Sound, Owns, RowTypes
  <2>2. /\ title' = title /\ message' = [message EXCEPT ![m] = new]
        /\ call'[c] = [call[c] EXCEPT !.at = "recount"]
    BY <1>0, <1>13, <2>1 DEF Rewrite, To
  <2>3. message'[m] = new /\ \A x \in Msgs \ {m} : message'[x] = message[x]
    BY <1>0, <2>1, <2>2 DEF RowTypes
  <2>4. new.conv = v
    BY <2>1 DEF Texts
  <2>5. Within(c)
    <3> HIDE DEF new
    <3> QED BY <1>0, <2>1, <2>2, <2>3, <2>4 DEF Within
  <2>6. \A x \in Msgs : message'[x] # None => title'[message'[x].conv] # None
    <3>1. title[new.conv] # None
      BY <2>1, <2>4 DEF Conversations
    <3> HIDE DEF new
    <3> QED BY <2>1, <2>2, <2>3, <3>1 DEF Rows
  <2>7. Owns(c)'
    <3>1. call'[c].op = "update" /\ call'[c].at = "recount" /\ call'[c].conv = v /\ call'[c].msg = m
      BY <1>0, <2>1, <2>2 DEF Records
    <3>2. v \in Conversations' /\ message'[m].conv = v
      BY <2>1, <2>2, <2>3, <2>4 DEF Conversations
    <3> HIDE DEF v, m
    <3> QED BY <3>1, <3>2 DEF Owns
  <2>8. title' \in [Convs -> {TitleBytes, None} \union TitleSizes]
    BY <2>2 DEF Rows
  <2> QED BY <1>0, <2>5, <2>6, <2>7, <2>8, RunKeepsRows
<1>14. CASE FindTitle(c)
  <2>1. Untouched /\ call[c].op = "title" /\ call[c].at = "turn"
    BY <1>14 DEF FindTitle, Untouched, rows, Starts, At
  <2>2. CASE ~Quits(c)
    <3> DEFINE t == title[call[c].conv]
               b == call[c].bytes
    <3>1. /\ call[c].conv \in Conversations
          /\ call'[c].bytes = Less(b, t) /\ call'[c].freed = Less(t, b)
      BY <1>0, <1>14, <2>1, <2>2 DEF FindTitle, Quits, At, Records
    <3>2. t \in Nat /\ b \in Nat /\ b \in TitleSizes
      BY <1>0, <2>1, <3>1 DEF Conversations, RowTypes, Sound, Records
    <3> HIDE DEF t, b
    <3>3. Less(t, b) \in Nat /\ Less(b, t) \in Nat /\ t >= Less(t, b) /\ t + Less(b, t) - Less(t, b) = b
      BY <3>2 DEF Less
    <3>4. t >= call'[c].freed /\ t + call'[c].bytes - call'[c].freed \in TitleSizes
      BY <3>1, <3>2, <3>3
    <3> QED BY <1>0, <1>21, <2>1, <2>2, <3>1, <3>4, GoesOwn DEF t
  <2> QED BY <1>22, <2>1, <2>2
<1>15. CASE WriteTitle(c)
  <2> DEFINE v == call[c].conv
             n == title[v] + call[c].bytes - call[c].freed
  <2>1. /\ call[c].op = "title" /\ call[c].at = "write" /\ v \in Conversations /\ n \in TitleSizes
    BY <1>0, <1>15 DEF WriteTitle, At, Owns
  <2>2. /\ message' = message /\ title' = [title EXCEPT ![v] = n]
        /\ call'[c] = [call[c] EXCEPT !.at = "release"]
    BY <1>0, <1>15, <2>1 DEF WriteTitle, To
  <2>3. Within(c)
    BY <1>0, <2>1, <2>2 DEF Within, RowTypes
  <2>4. title' \in [Convs -> {TitleBytes, None} \union TitleSizes] /\ title'[v] = n /\ n # None
    BY <2>1, <2>2, StoreAssumption DEF Rows, Conversations
  <2>5. \A m \in Msgs : message'[m] # None => title'[message'[m].conv] # None
    BY <1>0, <2>2, <2>4 DEF Rows, RowTypes
  <2>6. Owns(c)'
    <3>1. call'[c].op = "title" /\ call'[c].at = "release" /\ call'[c].conv = v
      BY <1>0, <2>1, <2>2 DEF Records
    <3>2. v \in Conversations'
      BY <2>1, <2>4 DEF Conversations
    <3> HIDE DEF v
    <3> QED BY <3>1, <3>2 DEF Owns
  <2> QED BY <1>0, <2>3, <2>4, <2>5, <2>6, RunKeepsRows
<1>16. CASE FindTool(c)
  <2>1. Untouched /\ call[c].op = "tool" /\ call[c].at = "turn"
    BY <1>16 DEF FindTool, Untouched, rows, Starts, At
  <2>2. CASE ~Quits(c)
    <3>1. /\ call[c].conv \in Conversations /\ message[call[c].msg] # None
      BY <1>16, <2>1, <2>2 DEF FindTool, Quits, At
    <3>2. PICK n \in 0..message[call[c].msg].tools : call' = [call EXCEPT ![c].at = "fit", ![c].freed = n]
      BY <1>16, <2>1, <2>2 DEF FindTool, Quits, At
    <3>3. call'[c].freed <= message[call[c].msg].tools
      BY <1>0, <3>2 DEF Records
    <3> QED BY <1>0, <1>21, <2>1, <2>2, <3>1, <3>3, GoesOwn
  <2> QED BY <1>22, <2>1, <2>2
<1>17. CASE WriteTool(c)
  <2> DEFINE m == call[c].msg
             v == call[c].conv
             new == [message[m] EXCEPT !.tools = @ + call[c].bytes - call[c].freed]
  <2>1. /\ call[c].op = "tool" /\ call[c].at = "rewrite" /\ m \in Msgs /\ v \in Conversations
        /\ message[m] # None /\ message[m] \in Texts /\ message[m].conv = v
    BY <1>0, <1>17 DEF WriteTool, At, Sound, Owns, RowTypes
  <2>2. /\ title' = title /\ message' = [message EXCEPT ![m] = new]
        /\ call'[c] = [call[c] EXCEPT !.at = "release"]
    BY <1>0, <1>17, <2>1 DEF WriteTool, To
  <2>3. message'[m] = new /\ \A x \in Msgs \ {m} : message'[x] = message[x]
    BY <1>0, <2>1, <2>2 DEF RowTypes
  <2>4. new.conv = v
    BY <2>1 DEF Texts
  <2>5. Within(c)
    <3> HIDE DEF new
    <3> QED BY <1>0, <2>1, <2>2, <2>3, <2>4 DEF Within
  <2>6. \A x \in Msgs : message'[x] # None => title'[message'[x].conv] # None
    <3>1. title[new.conv] # None
      BY <2>1, <2>4 DEF Conversations
    <3> HIDE DEF new
    <3> QED BY <2>1, <2>2, <2>3, <3>1 DEF Rows
  <2>7. Owns(c)'
    <3>1. call'[c].op = "tool" /\ call'[c].at = "release" /\ call'[c].conv = v /\ call'[c].msg = m
      BY <1>0, <2>1, <2>2 DEF Records
    <3>2. v \in Conversations' /\ message'[m].conv = v
      BY <2>1, <2>2, <2>3, <2>4 DEF Conversations
    <3> HIDE DEF v, m
    <3> QED BY <3>1, <3>2 DEF Owns
  <2>8. title' \in [Convs -> {TitleBytes, None} \union TitleSizes]
    BY <2>2 DEF Rows
  <2> QED BY <1>0, <2>5, <2>6, <2>7, <2>8, RunKeepsRows
<1>18. CASE FindOwner(c)
  <2>1. Untouched /\ call[c].op \in {"clear", "delete"}
    BY <1>18 DEF FindOwner, Untouched, rows, Starts
  <2>2. CASE ~Quits(c)
    BY <1>0, <1>21, <2>1, <2>2, GoesOwn
  <2> QED BY <1>22, <2>1, <2>2
<1>19. CASE Erase(c)
  <2> DEFINE v == call[c].conv
  <2>1. /\ call[c].op \in {"clear", "delete"} /\ call[c].at = "erase" /\ v \in Convs
    BY <1>0, <1>19 DEF Erase, At, Sound, OnPath, Records, Ops
  <2>2. /\ message' = [m \in Msgs |-> IF m \in MessagesOf(v) THEN None ELSE message[m]]
        /\ title' = [title EXCEPT ![v] = IF call[c].op = "delete" THEN None ELSE @]
        /\ call'[c].at = "release" /\ call'[c].op = call[c].op
    BY <1>0, <1>19 DEF Erase, Records
  <2>3. Within(c)
    <3>1. \A m \in Msgs : message'[m] # message[m] => message'[m] = None /\ message[m].conv = v
      BY <2>2 DEF MessagesOf
    <3> QED BY <1>0, <2>1, <2>2, <3>1 DEF Within, RowTypes
  <2>4. title' \in [Convs -> {TitleBytes, None} \union TitleSizes]
    BY <2>1, <2>2 DEF Rows
  <2>5. \A m \in Msgs : message'[m] # None => title'[message'[m].conv] # None
    <3>1. \A m \in Msgs : message'[m] # None => message'[m] = message[m] /\ message[m].conv # v
      BY <2>2 DEF MessagesOf
    <3> QED BY <1>0, <2>2, <3>1 DEF Rows, RowTypes
  <2>6. Owns(c)'
    BY <2>1, <2>2 DEF Owns
  <2> QED BY <1>0, <2>3, <2>4, <2>5, <2>6, RunKeepsRows
<1>20. CASE Release(c)
  <2>1. Untouched /\ Quits(c)
    BY <1>20 DEF Release, Untouched, rows, Quits, At
  <2> QED BY <1>22, <2>1
<1> QED BY <1>1, <1>2, <1>3, <1>4, <1>5, <1>6, <1>7, <1>8, <1>9, <1>10, <1>11, <1>12, <1>13, <1>14,
           <1>15, <1>16, <1>17, <1>18, <1>19, <1>20 DEF Run

-----------------------------------------------------------------------------
(* The counts of rows stay within the caps. *)

SameCounts ==
    /\ Conversations' = Conversations
    /\ \A v \in Convs : MessagesOf(v)' = MessagesOf(v)

\* Calls that have their turns work on different conversations.
LEMMA Apart ==
    ASSUME Typed, Turns, NEW c \in Callers, HasTurn(c), call[c].op # "create",
           NEW d \in Callers \ {c}, call[d].at \notin {"idle", "turn"}, call[d].op # "create"
    PROVE  call[d].conv # call[c].conv
BY OneHolder DEF Key

\* A step that neither adds nor removes a row keeps the caps, if it lets no call in that has
\* no room and leaves no count wrong that it was to write.
LEMMA SameCountsKeepCaps ==
    ASSUME Typed, Caps, NEW c \in Callers, Moves(c), SameCounts, HasRoom(c)', faults' >= faults,
           \A v \in Convs : shown'[v] = shown[v] \/ shown'[v] = Cardinality(MessagesOf(v)),
           call[c].at \in {"recount", "show"} =>
               \/ faults' > faults
               \/ call'[c].at \in {"recount", "show"} /\ call'[c].conv = call[c].conv
               \/ call[c].conv \in Convs /\ shown'[call[c].conv] = Cardinality(MessagesOf(call[c].conv))
    PROVE  Caps'
<1>0. /\ \A d \in Callers \ {c} : call'[d] = call[d]
      /\ \A d \in Callers : Sound(call[d])
      /\ shown \in [Convs -> Nat]
      /\ Conversations \subseteq Convs
  BY DEF Moves, Others, Typed, Conversations
<1>1. \A d \in Callers : HasRoom(d)'
  <2> SUFFICES ASSUME NEW d \in Callers \ {c} PROVE HasRoom(d)'
    OBVIOUS
  <2>1. HasRoom(d) /\ call'[d] = call[d] /\ Sound(call[d])
    BY <1>0 DEF Caps
  <2>2. call[d].op # "none" => MessagesOf(call[d].conv)' = MessagesOf(call[d].conv)
    <3>1. SUFFICES ASSUME NEW v, v = call[d].conv, call[d].op # "none"
                   PROVE  MessagesOf(v)' = MessagesOf(v)
      BY <2>1
    <3> QED BY <2>1, <3>1 DEF SameCounts, Sound
  <2>3. call[d].op = "none" => call[d].at = "idle"
    BY <2>1 DEF Sound, OnPath
  <2> QED BY <2>1, <2>2, <2>3 DEF HasRoom, SameCounts
<1>2. \A v \in Convs : shown'[v] <= Cardinality(Msgs)
  BY <1>0, CountsTyped DEF Caps
<1>3. ASSUME faults' = 0, NEW v \in Conversations' PROVE Recounted(v)'
  <2>1. /\ v \in Convs /\ v \in Conversations /\ MessagesOf(v)' = MessagesOf(v)
        /\ Recounted(v) /\ ~(faults' > faults)
    BY <1>3, <1>0 DEF SameCounts, Caps, Typed
  <2>2. CASE shown'[v] = Cardinality(MessagesOf(v))
    BY <2>1, <2>2 DEF Recounted
  <2>3. CASE shown'[v] # Cardinality(MessagesOf(v))
    <3>1. shown'[v] = shown[v]
      BY <1>0, <2>1, <2>3
    <3>2. PICK d \in Callers : call[d].conv = v /\ call[d].at \in {"recount", "show"}
      BY <2>1, <2>3, <3>1 DEF Recounted
    <3>3. CASE d # c
      BY <1>0, <3>2, <3>3 DEF Recounted
    <3>4. CASE d = c
      BY <2>1, <2>3, <3>2, <3>4 DEF Recounted
    <3> QED BY <3>3, <3>4
  <2> QED BY <2>2, <2>3
<1>4. Cardinality(Conversations)' <= MaxConvs /\ \A v \in Convs : Cardinality(MessagesOf(v))' <= MaxMessages
  BY DEF Caps, SameCounts
<1> QED BY <1>1, <1>2, <1>3, <1>4 DEF Caps

\* A step that writes no row leaves as many.
LEMMA UntouchedCounts == Untouched => SameCounts
BY DEF Untouched, SameCounts, Conversations, MessagesOf

\* A call that is over needs no room.
LEMMA EndHasRoom ==
    ASSUME NEW c \in Callers, call'[c] = Idle
    PROVE  HasRoom(c)'
BY DEF HasRoom, Idle

\* One conversation more, in the turn in which its writer saw there was room.
LEMMA WriteConversationCaps ==
    ASSUME Typed, Turns, Rows, Caps, NEW c \in Callers, WriteConversation(c)
    PROVE  Caps'
<1>0. /\ Sound(call[c]) /\ Owns(c) /\ HasRoom(c) /\ HasTurn(c)
      /\ call[c].op = "create" /\ call[c].at = "write"
      /\ \A d \in Callers \ {c} : call'[d] = call[d] /\ Sound(call[d])
      /\ call'[c] = Idle
  BY DEF Typed, Rows, Caps, Turns, WriteConversation, At, End
<1> DEFINE v == call[c].conv
<1>1. v \in Convs /\ title[v] = None /\ MessagesOf(v) = {} /\ call[c].bytes # None
  BY <1>0, StoreAssumption DEF Owns, Sound, Records
<1>2. /\ title' = [title EXCEPT ![v] = call[c].bytes] /\ shown' = [shown EXCEPT ![v] = 0]
      /\ message' = message /\ faults' = faults /\ call[c].bytes # None
  BY <1>1 DEF WriteConversation
<1> HIDE DEF v
<1>3. Conversations' = Conversations \union {v} /\ v \notin Conversations /\ \A w \in Convs : MessagesOf(w)' = MessagesOf(w)
  BY <1>1, <1>2 DEF Conversations, MessagesOf, Typed
<1>4. Cardinality(Conversations') = Cardinality(Conversations) + 1 /\ Cardinality(Conversations') <= MaxConvs
  <2>1. Cardinality(Conversations \union {v}) = Cardinality(Conversations) + 1
    BY <1>3, CountsTyped, FS_AddElement
  <2>2. Cardinality(Conversations) \in Nat /\ Cardinality(Conversations) < MaxConvs /\ MaxConvs \in Nat
    BY <1>0, CountsTyped, StoreAssumption DEF HasRoom
  <2> QED BY <1>3, <2>1, <2>2
<1>5. \A d \in Callers : HasRoom(d)'
  <2> SUFFICES ASSUME NEW d \in Callers \ {c} PROVE HasRoom(d)'
    BY <1>0, EndHasRoom
  <2>1. HasRoom(d) /\ call'[d] = call[d] /\ Sound(call[d])
    BY <1>0 DEF Caps
  <2>2. call[d].op # "none" => MessagesOf(call[d].conv)' = MessagesOf(call[d].conv)
    <3>1. SUFFICES ASSUME NEW w, w = call[d].conv, call[d].op # "none"
                   PROVE  MessagesOf(w)' = MessagesOf(w)
      BY <2>1
    <3> QED BY <2>1, <3>1, <1>3 DEF Sound
  <2>3. ~(call[d].op = "create" /\ call[d].at \in {"reserve", "write"})
    BY <1>0, OneHolder DEF Key
  <2>4. call[d].op = "none" => call[d].at = "idle"
    BY <2>1 DEF Sound, OnPath
  <2> QED BY <2>1, <2>2, <2>3, <2>4 DEF HasRoom
<1>6. \A w \in Convs : shown'[w] <= Cardinality(Msgs)
  BY <1>1, <1>2, CountsTyped DEF Caps, Typed
<1>7. ASSUME faults' = 0, NEW w \in Conversations' PROVE Recounted(w)'
  <2>1. CASE w = v
    <3>1. shown'[w] = 0 /\ MessagesOf(w)' = {}
      BY <1>1, <1>2, <1>3, <2>1 DEF Typed, v
    <3> QED BY <3>1, FS_EmptySet DEF Recounted
  <2>2. CASE w # v
    <3>1. w \in Conversations /\ w \in Convs /\ shown'[w] = shown[w] /\ MessagesOf(w)' = MessagesOf(w)
      BY <1>2, <1>3, <2>2, <1>7 DEF Conversations, Typed
    <3>2. Recounted(w)
      BY <3>1, <1>2, <1>7 DEF Caps
    <3>3. CASE shown[w] = Cardinality(MessagesOf(w))
      BY <3>1, <3>3 DEF Recounted
    <3>4. CASE \E d \in Callers : call[d].conv = w /\ call[d].at \in {"recount", "show"}
      BY <1>0, <3>4 DEF Recounted
    <3> QED BY <3>2, <3>3, <3>4 DEF Recounted
  <2> QED BY <2>1, <2>2
<1>8. \A w \in Convs : Cardinality(MessagesOf(w))' <= MaxMessages
  BY <1>3 DEF Caps
<1> QED BY <1>4, <1>5, <1>6, <1>7, <1>8 DEF Caps

\* One message more, in the turn in which its writer saw there was room.
LEMMA WriteMessageCaps ==
    ASSUME Typed, Turns, Rows, Caps, NEW c \in Callers, WriteMessage(c)
    PROVE  Caps'
<1>0. /\ Sound(call[c]) /\ Owns(c) /\ HasRoom(c) /\ HasTurn(c)
      /\ call[c].op = "add" /\ call[c].at = "write" /\ shown' = shown /\ title' = title /\ faults' = faults
      /\ \A d \in Callers \ {c} : call'[d] = call[d] /\ Sound(call[d])
      /\ call'[c].at = "recount" /\ call'[c].op = "add" /\ call'[c].conv = call[c].conv
  BY DEF Typed, Rows, Caps, Turns, WriteMessage, At, To, Records
<1> SUFFICES ASSUME NEW v, v = call[c].conv, NEW m, m = call[c].msg PROVE Caps'
  OBVIOUS
<1> DEFINE new == [conv |-> v, bytes |-> call[c].bytes, tools |-> 0]
<1>1. /\ v \in Convs /\ m \in Msgs /\ message[m] = None
      /\ message' = [message EXCEPT ![m] = new]
  BY <1>0 DEF Sound, Owns, WriteMessage
<1>2. new.conv = v /\ new # None
  BY <1>0, <1>1, StoreAssumption DEF Sound, Records
<1> HIDE DEF new
<1>3. /\ MessagesOf(v)' = MessagesOf(v) \union {m} /\ m \notin MessagesOf(v)
      /\ \A w \in Convs \ {v} : MessagesOf(w)' = MessagesOf(w)
      /\ Conversations' = Conversations
  BY <1>0, <1>1, <1>2 DEF MessagesOf, Conversations, Typed
<1>4. /\ Cardinality(MessagesOf(v)') = Cardinality(MessagesOf(v)) + 1
      /\ Cardinality(MessagesOf(v)') <= MaxMessages
  <2>1. Cardinality(MessagesOf(v) \union {m}) = Cardinality(MessagesOf(v)) + 1
    BY <1>1, <1>3, CountsTyped, FS_AddElement
  <2>2. /\ Cardinality(MessagesOf(v)) \in Nat /\ Cardinality(MessagesOf(v)) < MaxMessages
        /\ MaxMessages \in Nat
    BY <1>0, <1>1, CountsTyped, StoreAssumption DEF HasRoom
  <2> QED BY <1>3, <2>1, <2>2
<1>5. ASSUME NEW d \in Callers PROVE HasRoom(d)'
  <2>1. CASE d = c
    BY <1>0, <2>1 DEF HasRoom
  <2>2. CASE d # c
    <3>1. HasRoom(d) /\ call'[d] = call[d] /\ Sound(call[d])
      BY <1>0, <2>2 DEF Caps
    <3>2. call[d].at \in {"reserve", "write", "show"} /\ call[d].op # "create" =>
            MessagesOf(call[d].conv)' = MessagesOf(call[d].conv)
      <4> SUFFICES ASSUME NEW w, w = call[d].conv, call[d].at \in {"reserve", "write", "show"},
                          call[d].op # "create"
                   PROVE  MessagesOf(w)' = MessagesOf(w)
        BY <3>1
      <4>1. w # v /\ w \in Convs
        BY <1>0, <2>2, <3>1, Apart DEF Sound, OnPath
      <4> QED BY <4>1, <1>3
    <3>3. call[d].at = "show" => call[d].op # "create"
      BY <3>1 DEF Sound, OnPath
    <3> QED BY <3>1, <3>2, <3>3, <1>3 DEF HasRoom
  <2> QED BY <2>1, <2>2
<1>6. ASSUME faults' = 0, NEW w \in Conversations' PROVE Recounted(w)'
  <2>1. CASE w = v
    BY <1>0, <2>1 DEF Recounted
  <2>2. CASE w # v
    <3>1. w \in Conversations /\ w \in Convs /\ MessagesOf(w)' = MessagesOf(w) /\ Recounted(w)
      BY <1>0, <1>3, <2>2, <1>6 DEF Conversations, Caps
    <3>2. CASE shown[w] = Cardinality(MessagesOf(w))
      BY <1>0, <3>1, <3>2 DEF Recounted
    <3>3. CASE \E d \in Callers : call[d].conv = w /\ call[d].at \in {"recount", "show"}
      BY <1>0, <3>3 DEF Recounted
    <3> QED BY <3>1, <3>2, <3>3 DEF Recounted
  <2> QED BY <2>1, <2>2
<1>7. \A w \in Convs : Cardinality(MessagesOf(w))' <= MaxMessages
  BY <1>3, <1>4 DEF Caps
<1> QED BY <1>0, <1>3, <1>5, <1>6, <1>7 DEF Caps

\* Rows fewer.
LEMMA EraseCaps ==
    ASSUME Typed, Turns, Rows, Caps, NEW c \in Callers, Erase(c)
    PROVE  Caps'
<1>0. /\ Sound(call[c]) /\ HasTurn(c)
      /\ call[c].at = "erase" /\ faults' = faults
      /\ \A d \in Callers \ {c} : call'[d] = call[d] /\ Sound(call[d])
      /\ call'[c].at = "release" /\ call'[c].op = call[c].op
  BY DEF Typed, Turns, Erase, At, Records
<1> SUFFICES ASSUME NEW v, v = call[c].conv PROVE Caps'
  OBVIOUS
<1>1. /\ call[c].op \in {"clear", "delete"} /\ v \in Convs
      /\ message' = [m \in Msgs |-> IF m \in MessagesOf(v) THEN None ELSE message[m]]
      /\ title' = [title EXCEPT ![v] = IF call[c].op = "delete" THEN None ELSE @]
      /\ shown' = [shown EXCEPT ![v] = 0]
  BY <1>0 DEF Erase, Sound, OnPath, Records, Ops
<1>3. /\ MessagesOf(v)' = {} /\ \A w \in Convs \ {v} : MessagesOf(w)' = MessagesOf(w)
      /\ Conversations' \subseteq Conversations
  BY <1>1 DEF MessagesOf, Conversations, Typed
<1>4. /\ Cardinality(MessagesOf(v)') = 0
      /\ Cardinality(Conversations') <= Cardinality(Conversations) /\ Cardinality(Conversations') \in Nat
  BY <1>3, CountsTyped, FS_EmptySet, FS_Subset, FS_CardinalityType
<1>5. ASSUME NEW d \in Callers PROVE HasRoom(d)'
  <2>1. CASE d = c
    BY <1>0, <1>1, <2>1 DEF HasRoom
  <2>2. CASE d # c
    <3>1. HasRoom(d) /\ call'[d] = call[d] /\ Sound(call[d])
      BY <1>0, <2>2 DEF Caps
    <3>2. call[d].at \in {"reserve", "write", "show"} /\ call[d].op # "create" =>
            MessagesOf(call[d].conv)' = MessagesOf(call[d].conv)
      <4> SUFFICES ASSUME NEW w, w = call[d].conv, call[d].at \in {"reserve", "write", "show"},
                          call[d].op # "create"
                   PROVE  MessagesOf(w)' = MessagesOf(w)
        BY <3>1
      <4>1. w # v /\ w \in Convs
        BY <1>0, <1>1, <2>2, <3>1, Apart DEF Sound, OnPath
      <4> QED BY <4>1, <1>3
    <3>3. call[d].at = "show" => call[d].op # "create"
      BY <3>1 DEF Sound, OnPath
    <3>4. call[d].op = "create" /\ call[d].at \in {"reserve", "write"} => Cardinality(Conversations)' < MaxConvs
      BY <3>1, <1>4, CountsTyped, StoreAssumption DEF HasRoom
    <3> QED BY <3>1, <3>2, <3>3, <3>4 DEF HasRoom
  <2> QED BY <2>1, <2>2
<1>6. ASSUME faults' = 0, NEW w \in Conversations' PROVE Recounted(w)'
  <2>1. CASE w = v
    BY <1>1, <1>4, <2>1 DEF Recounted, Typed
  <2>2. CASE w # v
    <3>1. /\ w \in Conversations /\ w \in Convs /\ MessagesOf(w)' = MessagesOf(w) /\ shown'[w] = shown[w]
          /\ Recounted(w)
      BY <1>0, <1>1, <1>3, <2>2, <1>6 DEF Conversations, Caps, Typed
    <3>2. CASE shown[w] = Cardinality(MessagesOf(w))
      BY <3>1, <3>2 DEF Recounted
    <3>3. CASE \E d \in Callers : call[d].conv = w /\ call[d].at \in {"recount", "show"}
      BY <1>0, <3>3 DEF Recounted
    <3> QED BY <3>1, <3>2, <3>3 DEF Recounted
  <2> QED BY <2>1, <2>2
<1>7. \A w \in Convs : Cardinality(MessagesOf(w))' <= MaxMessages
  BY <1>3, <1>4, StoreAssumption DEF Caps
<1>8. \A w \in Convs : shown'[w] <= Cardinality(Msgs)
  BY <1>1, CountsTyped DEF Caps, Typed
<1>9. Cardinality(Conversations)' <= MaxConvs
  BY <1>4, CountsTyped, StoreAssumption DEF Caps
<1> QED BY <1>5, <1>6, <1>7, <1>8, <1>9 DEF Caps

\* The caps hold whatever a call does in its turn.
LEMMA RunCaps ==
    ASSUME Typed, Turns, Rows, Caps, NEW c \in Callers, Run(c)
    PROVE  Caps'
<1>0. /\ Sound(call[c]) /\ call \in [Callers -> Records] /\ call[c] \in Records /\ Owns(c) /\ HasRoom(c)
      /\ Moves(c) /\ Sound(call'[c]) /\ faults \in Nat
      /\ call[c].op # "none" => call[c].conv \in Convs
  BY RunMoves, StoreAssumption DEF Typed, Rows, Caps, Moves, Sound
<1>1. CASE SeedTitles(c)
  <2>1. /\ call'[c] = [call[c] EXCEPT !.seed = TitlesBytes, !.unread = Conversations] /\ Untouched
        /\ call[c].at \in {"reserve", "fit"} /\ shown' = shown /\ faults' = faults
    BY <1>0, <1>1 DEF SeedTitles, Untouched, rows, Counting, At
  <2>2. call'[c].at = call[c].at /\ call'[c].op = call[c].op /\ call'[c].conv = call[c].conv
    BY <1>0, <2>1 DEF Records
  <2>3. SameCounts
    BY <2>1, UntouchedCounts
  <2>4. HasRoom(c)'
    BY <1>0, <2>1, <2>2, <2>3 DEF HasRoom, SameCounts, Sound, OnPath
  <2> QED BY <1>0, <2>1, <2>3, <2>4, SameCountsKeepCaps
<1>2. CASE SeedTexts(c)
  <2>1. PICK v \in call[c].unread :
          call' = [call EXCEPT ![c].seed = @ + TextBytes(v), ![c].unread = @ \ {v}]
    BY <1>2 DEF SeedTexts
  <2>2. /\ call[c].at \in {"reserve", "fit"} /\ Untouched /\ shown' = shown /\ faults' = faults
        /\ call'[c].at = call[c].at /\ call'[c].op = call[c].op /\ call'[c].conv = call[c].conv
    BY <1>0, <1>2, <2>1 DEF SeedTexts, Untouched, rows, Counting, At, Records
  <2>3. SameCounts
    BY <2>2, UntouchedCounts
  <2>4. HasRoom(c)'
    BY <1>0, <2>2, <2>3 DEF HasRoom, SameCounts, Sound, OnPath
  <2> QED BY <1>0, <2>2, <2>3, <2>4, SameCountsKeepCaps
<1>3. CASE Reserve(c)
  <2>1. Untouched /\ call[c].at = "reserve" /\ shown' = shown /\ faults' = faults
    BY <1>3 DEF Reserve, Untouched, rows, At
  <2>2. SameCounts
    BY <2>1, UntouchedCounts
  <2>3. HasRoom(c)'
    <3>1. CASE End(c)
      BY <1>0, <3>1, EndHasRoom DEF End
    <3>2. CASE To(c, "write")
      <4>1. /\ call'[c].at = "write" /\ call'[c].op = call[c].op /\ call'[c].conv = call[c].conv
        BY <1>0, <3>2 DEF To, Records
      <4>2. call'[c].op = "add" => MessagesOf(call[c].conv)' = MessagesOf(call[c].conv)
        BY <4>1, <2>1 DEF MessagesOf, Untouched
      <4> QED BY <1>0, <2>1, <2>2, <4>1, <4>2 DEF HasRoom, SameCounts
    <3> QED BY <1>3, <3>1, <3>2 DEF Reserve
  <2> QED BY <1>0, <2>1, <2>2, <2>3, SameCountsKeepCaps
<1>4. CASE Fit(c)
  <2>1. /\ Untouched /\ call[c].at = "fit" /\ call'[c].at = "rewrite" /\ shown' = shown /\ faults' = faults
    BY <1>0, <1>4 DEF Fit, Untouched, rows, At, Records
  <2>2. SameCounts
    BY <2>1, UntouchedCounts
  <2>3. HasRoom(c)'
    BY <2>1 DEF HasRoom
  <2> QED BY <1>0, <2>1, <2>2, <2>3, SameCountsKeepCaps
<1>5. CASE CountConversations(c)
  <2>1. Untouched /\ call[c].op = "create" /\ call[c].at = "turn" /\ shown' = shown /\ faults' = faults
    BY <1>5 DEF CountConversations, Untouched, rows, Starts, At
  <2>2. SameCounts
    BY <2>1, UntouchedCounts
  <2>3. HasRoom(c)'
    <3>1. CASE End(c)
      BY <1>0, <3>1, EndHasRoom DEF End
    <3>2. CASE ~End(c)
      <4>1. To(c, "reserve") /\ ~(Cardinality(Conversations) >= MaxConvs)
        BY <1>5, <3>2 DEF CountConversations
      <4>2. call'[c].at = "reserve" /\ call'[c].op = "create"
        BY <1>0, <2>1, <4>1 DEF To, Records
      <4>3. Cardinality(Conversations') < MaxConvs
        BY <2>2, <4>1, CountsTyped, StoreAssumption DEF SameCounts
      <4> QED BY <4>2, <4>3 DEF HasRoom
    <3> QED BY <3>1, <3>2
  <2> QED BY <1>0, <2>1, <2>2, <2>3, SameCountsKeepCaps
<1>6. CASE WriteConversation(c)
  BY <1>6, WriteConversationCaps
<1>7. CASE FindConversation(c)
  <2>1. Untouched /\ call[c].at = "turn" /\ shown' = shown /\ faults' = faults
    BY <1>7 DEF FindConversation, Untouched, rows, Starts, At
  <2>2. SameCounts
    BY <2>1, UntouchedCounts
  <2>3. HasRoom(c)'
    <3>1. call'[c].at \in {"idle", "count"}
      BY <1>0, <1>7 DEF FindConversation, End, To, Records, Idle
    <3> QED BY <3>1 DEF HasRoom
  <2> QED BY <1>0, <2>1, <2>2, <2>3, SameCountsKeepCaps
<1>8. CASE CountMessages(c)
  <2>1. /\ Untouched /\ call[c].op = "add" /\ call[c].at = "count" /\ call[c].conv \in Convs /\ faults' = faults
    BY <1>0, <1>8 DEF CountMessages, Untouched, At, Sound, OnPath, Records, Ops
  <2>2. SameCounts
    BY <2>1, UntouchedCounts
  <2>3. CASE Cardinality(MessagesOf(call[c].conv)) >= MaxMessages
    <3>1. /\ shown' = [shown EXCEPT ![call[c].conv] = Cardinality(MessagesOf(call[c].conv))]
          /\ call'[c] = Idle
      BY <1>0, <1>8, <2>3 DEF CountMessages, End
    <3>2. \A v \in Convs : shown'[v] = shown[v] \/ shown'[v] = Cardinality(MessagesOf(v))
      BY <2>1, <3>1 DEF Typed
    <3>3. HasRoom(c)'
      BY <3>1, EndHasRoom
    <3> QED BY <1>0, <2>1, <2>2, <3>2, <3>3, SameCountsKeepCaps
  <2>4. CASE ~(Cardinality(MessagesOf(call[c].conv)) >= MaxMessages)
    <3>1. shown' = shown /\ To(c, "reserve")
      BY <1>8, <2>4 DEF CountMessages
    <3>2. call'[c].at = "reserve" /\ call'[c].op = "add" /\ call'[c].conv = call[c].conv
      BY <1>0, <2>1, <3>1 DEF To, Records
    <3>3. Cardinality(MessagesOf(call[c].conv)) < MaxMessages
      BY <2>1, <2>4, CountsTyped, StoreAssumption
    <3>4. Cardinality(MessagesOf(call[c].conv))' < MaxMessages
      BY <2>1, <3>2, <3>3 DEF MessagesOf, Untouched
    <3>5. HasRoom(c)'
      BY <3>2, <3>4 DEF HasRoom
    <3> QED BY <1>0, <2>1, <2>2, <3>1, <3>5, SameCountsKeepCaps
  <2> QED BY <2>3, <2>4
<1>9. CASE WriteMessage(c)
  BY <1>9, WriteMessageCaps
<1>10. CASE Recount(c)
  <2>1. /\ Untouched /\ call[c].at = "recount" /\ call'[c].at = "show" /\ shown' = shown /\ faults' = faults
        /\ call'[c].conv = call[c].conv /\ call'[c].bytes = Cardinality(MessagesOf(call[c].conv))
    BY <1>0, <1>10 DEF Recount, Untouched, rows, At, Records
  <2>2. SameCounts
    BY <2>1, UntouchedCounts
  <2>3. HasRoom(c)'
    <3>1. Cardinality(MessagesOf(call[c].conv))' = Cardinality(MessagesOf(call[c].conv))
      BY <2>1 DEF MessagesOf, Untouched
    <3> QED BY <2>1, <3>1 DEF HasRoom
  <2> QED BY <1>0, <2>1, <2>2, <2>3, SameCountsKeepCaps
<1>11. CASE ShowCount(c)
  <2>1. /\ Untouched /\ call[c].at = "show" /\ faults' = faults /\ call'[c] = Idle
        /\ call[c].conv \in Conversations /\ call[c].conv \in Convs
        /\ call[c].bytes = Cardinality(MessagesOf(call[c].conv))
    BY <1>0, <1>11 DEF ShowCount, Untouched, At, Sound, OnPath, Records, Ops, Owns, End, HasRoom, Conversations
  <2>2. shown' = [shown EXCEPT ![call[c].conv] = Cardinality(MessagesOf(call[c].conv))]
    BY <1>11, <2>1 DEF ShowCount
  <2>3. SameCounts /\ HasRoom(c)'
    BY <2>1, UntouchedCounts, EndHasRoom
  <2>4. /\ shown'[call[c].conv] = Cardinality(MessagesOf(call[c].conv))
        /\ \A v \in Convs : shown'[v] = shown[v] \/ shown'[v] = Cardinality(MessagesOf(v))
    BY <2>1, <2>2 DEF Typed
  <2> QED BY <1>0, <2>1, <2>3, <2>4, SameCountsKeepCaps
<1>12. CASE FindMessage(c)
  <2>1. Untouched /\ call[c].at = "turn" /\ shown' = shown /\ faults' = faults
    BY <1>12 DEF FindMessage, Untouched, rows, Starts, At
  <2>2. SameCounts
    BY <2>1, UntouchedCounts
  <2>3. HasRoom(c)'
    <3>1. call'[c].at \in {"idle", "fit"}
      BY <1>0, <1>12 DEF FindMessage, End, Records, Idle
    <3> QED BY <3>1 DEF HasRoom
  <2> QED BY <1>0, <2>1, <2>2, <2>3, SameCountsKeepCaps
<1>13. CASE Rewrite(c)
  <2>1. /\ call[c].op = "update" /\ call[c].at = "rewrite" /\ shown' = shown /\ faults' = faults
        /\ call[c].msg \in Msgs /\ message[call[c].msg] # None /\ message[call[c].msg] \in Texts
        /\ title' = title /\ message' = [message EXCEPT ![call[c].msg].bytes = call[c].bytes]
        /\ call'[c].at = "recount"
    BY <1>0, <1>13 DEF Rewrite, At, Owns, Sound, To, Records, Typed
  <2>2. SameCounts
    <3>1. \A m \in Msgs : (message'[m] # None <=> message[m] # None)
                          /\ (message[m] # None => message'[m].conv = message[m].conv)
      BY <1>0, <2>1, StoreAssumption DEF Typed, Texts, Records
    <3> QED BY <2>1, <3>1 DEF SameCounts, Conversations, MessagesOf
  <2>3. HasRoom(c)'
    BY <2>1 DEF HasRoom
  <2> QED BY <1>0, <2>1, <2>2, <2>3, SameCountsKeepCaps
<1>14. CASE FindTitle(c)
  <2>1. Untouched /\ call[c].at = "turn" /\ call[c].op = "title" /\ shown' = shown /\ faults' = faults
    BY <1>14 DEF FindTitle, Untouched, rows, Starts, At
  <2>2. SameCounts
    BY <2>1, UntouchedCounts
  <2>3. HasRoom(c)'
    <3>1. call'[c].at = "idle" \/ (call'[c].op = "title" /\ call'[c].at = "reserve")
      BY <1>0, <1>14, <2>1 DEF FindTitle, End, Records, Idle
    <3> QED BY <3>1 DEF HasRoom
  <2> QED BY <1>0, <2>1, <2>2, <2>3, SameCountsKeepCaps
<1>15. CASE WriteTitle(c)
  <2>1. /\ call[c].op = "title" /\ call[c].at = "write" /\ shown' = shown /\ faults' = faults
        /\ message' = message /\ call[c].conv \in Conversations
        /\ title' = [title EXCEPT ![call[c].conv] = @ + call[c].bytes - call[c].freed]
        /\ call'[c].at = "release"
    BY <1>0, <1>15 DEF WriteTitle, At, Owns, To, Records
  <2>2. SameCounts
    <3>1. title'[call[c].conv] # None
      BY <1>0, <2>1, StoreAssumption DEF Typed, Owns, Conversations
    <3> QED BY <2>1, <3>1 DEF SameCounts, Conversations, MessagesOf, Typed
  <2>3. HasRoom(c)'
    BY <2>1 DEF HasRoom
  <2> QED BY <1>0, <2>1, <2>2, <2>3, SameCountsKeepCaps
<1>16. CASE FindTool(c)
  <2>1. Untouched /\ call[c].at = "turn" /\ shown' = shown /\ faults' = faults
    BY <1>16 DEF FindTool, Untouched, rows, Starts, At
  <2>2. SameCounts
    BY <2>1, UntouchedCounts
  <2>3. HasRoom(c)'
    <3>1. call'[c].at \in {"idle", "fit"}
      BY <1>0, <1>16 DEF FindTool, End, Records, Idle
    <3> QED BY <3>1 DEF HasRoom
  <2> QED BY <1>0, <2>1, <2>2, <2>3, SameCountsKeepCaps
<1>17. CASE WriteTool(c)
  <2> DEFINE n == message[call[c].msg].tools + call[c].bytes - call[c].freed
  <2>1. /\ call[c].op = "tool" /\ call[c].at = "rewrite" /\ shown' = shown /\ faults' = faults
        /\ call[c].msg \in Msgs /\ message[call[c].msg] # None /\ message[call[c].msg] \in Texts
        /\ title' = title /\ message' = [message EXCEPT ![call[c].msg].tools = n]
        /\ call'[c].at = "release"
    BY <1>0, <1>17 DEF WriteTool, At, Owns, Sound, To, Records, Typed
  <2> HIDE DEF n
  <2>2. SameCounts
    <3>1. message' \in [Msgs -> Texts \union {None}]
      BY <1>17, RunTypesRows DEF Run, RowTypes
    <3>2. \A m \in Msgs : (message'[m] # None <=> message[m] # None)
                          /\ (message[m] # None => message'[m].conv = message[m].conv)
      <4>1. message'[call[c].msg] = [message[call[c].msg] EXCEPT !.tools = n]
        BY <2>1 DEF Typed
      <4>2. message'[call[c].msg].conv = message[call[c].msg].conv
        BY <2>1, <4>1 DEF Texts
      <4>3. message'[call[c].msg] # None
        <5>1. message[call[c].msg].tools \in Nat /\ message[call[c].msg].tools >= call[c].freed
              /\ call[c].freed \in Nat /\ call[c].bytes \in Nat
          BY <1>0, <2>1 DEF Owns, Texts, Sound, Records
        <5>2. n \in Nat
          BY <5>1 DEF n
        <5> QED BY <2>1, <4>1, <5>2, StoreAssumption DEF Texts
      <4> QED BY <2>1, <4>2, <4>3 DEF Typed
    <3> QED BY <2>1, <3>2 DEF SameCounts, Conversations, MessagesOf
  <2>3. HasRoom(c)'
    BY <2>1 DEF HasRoom
  <2> QED BY <1>0, <2>1, <2>2, <2>3, SameCountsKeepCaps
<1>18. CASE FindOwner(c)
  <2>1. /\ Untouched /\ call[c].at = "turn" /\ shown' = shown /\ faults' = faults /\ call'[c].at = "erase"
    BY <1>0, <1>18 DEF FindOwner, Untouched, rows, Starts, At, Records
  <2>2. SameCounts
    BY <2>1, UntouchedCounts
  <2>3. HasRoom(c)'
    BY <2>1 DEF HasRoom
  <2> QED BY <1>0, <2>1, <2>2, <2>3, SameCountsKeepCaps
<1>19. CASE Erase(c)
  BY <1>19, EraseCaps
<1>20. CASE Release(c)
  <2>1. /\ Untouched /\ call[c].at = "release" /\ shown' = shown /\ faults' = faults /\ call'[c] = Idle
    BY <1>0, <1>20 DEF Release, Untouched, rows, At, End
  <2> QED BY <1>0, <2>1, UntouchedCounts, EndHasRoom, SameCountsKeepCaps
<1> QED BY <1>1, <1>2, <1>3, <1>4, <1>5, <1>6, <1>7, <1>8, <1>9, <1>10, <1>11, <1>12, <1>13, <1>14,
           <1>15, <1>16, <1>17, <1>18, <1>19, <1>20 DEF Run

-----------------------------------------------------------------------------
(* What is stored. *)

\* What a call has counted, and what it is to release, are naturals.
LEMMA AmountsTyped ==
    ASSUME NEW r, Sound(r)
    PROVE  /\ Owes(r) \in Nat /\ Grows(r) \in Nat /\ Frees(r) \in Nat
           /\ Grows(r) <= Owes(r)
BY LessTyped DEF Sound, Records, Owes, Grows, Frees, Less

\* Only the call that moves changes the amounts of the calls.
LEMMA CallSums ==
    ASSUME Typed, Typed', NEW c \in Callers, Others(c)
    PROVE  /\ Owed \in Nat /\ Owed' \in Nat /\ Owes(call[c]) <= Owed
           /\ Owed' + Owes(call[c]) = Owed + Owes(call'[c])
           /\ Growth \in Nat /\ Growth' \in Nat
           /\ Growth' + Grows(call[c]) = Growth + Grows(call'[c])
           /\ Freed \in Nat /\ Freed' \in Nat
           /\ Freed' + Frees(call[c]) = Freed + Frees(call'[c])
           /\ Growth <= Owed
<1> DEFINE o == [d \in Callers |-> Owes(call[d])]
           p == [d \in Callers |-> Owes(call'[d])]
           g == [d \in Callers |-> Grows(call[d])]
           h == [d \in Callers |-> Grows(call'[d])]
           f == [d \in Callers |-> Frees(call[d])]
           e == [d \in Callers |-> Frees(call'[d])]
<1>1. \A d \in Callers : /\ o[d] \in Nat /\ p[d] \in Nat /\ g[d] \in Nat /\ h[d] \in Nat
                         /\ f[d] \in Nat /\ e[d] \in Nat /\ g[d] <= o[d]
  BY AmountsTyped DEF Typed
<1>2. \A d \in Callers \ {c} : p[d] = o[d] /\ h[d] = g[d] /\ e[d] = f[d]
  BY DEF Others
<1>3. Owed = SumFunctionOnSet(o, Callers) /\ Owed' = SumFunctionOnSet(p, Callers)
  BY DEF Owed
<1>4. Growth = SumFunctionOnSet(g, Callers) /\ Growth' = SumFunctionOnSet(h, Callers)
  BY DEF Growth
<1>5. Freed = SumFunctionOnSet(f, Callers) /\ Freed' = SumFunctionOnSet(e, Callers)
  BY DEF Freed
<1>6. /\ o[c] = Owes(call[c]) /\ p[c] = Owes(call'[c])
      /\ g[c] = Grows(call[c]) /\ h[c] = Grows(call'[c])
      /\ f[c] = Frees(call[c]) /\ e[c] = Frees(call'[c])
  OBVIOUS
<1> HIDE DEF o, p, g, h, f, e
<1>7. Summable(o, Callers) /\ Summable(g, Callers) /\ Summable(f, Callers)
  BY <1>1, StoreAssumption DEF Summable
<1>8. /\ Summable(p, Callers)
      /\ SumFunctionOnSet(p, Callers) + o[c] = SumFunctionOnSet(o, Callers) + p[c]
  <2>1. p[c] \in Nat /\ \A d \in Callers \ {c} : p[d] = o[d]
    BY <1>1, <1>2
  <2> QED BY <1>7, <2>1, SumChange
<1>9. /\ Summable(h, Callers)
      /\ SumFunctionOnSet(h, Callers) + g[c] = SumFunctionOnSet(g, Callers) + h[c]
  <2>1. h[c] \in Nat /\ \A d \in Callers \ {c} : h[d] = g[d]
    BY <1>1, <1>2
  <2> QED BY <1>7, <2>1, SumChange
<1>10. /\ Summable(e, Callers)
       /\ SumFunctionOnSet(e, Callers) + f[c] = SumFunctionOnSet(f, Callers) + e[c]
  <2>1. e[c] \in Nat /\ \A d \in Callers \ {c} : e[d] = f[d]
    BY <1>1, <1>2
  <2> QED BY <1>7, <2>1, SumChange
<1>11. SumFunctionOnSet(g, Callers) <= SumFunctionOnSet(o, Callers)
  BY <1>1, <1>7, SumLess
<1>12. SumFunctionOnSet(o, Callers) >= o[c]
  <2>1. SumFunctionOnSet(o, Callers) = SumFunctionOnSet(o, Callers \ {c}) + o[c]
    BY <1>7, SumRemove
  <2>2. Summable(o, Callers \ {c})
    BY <1>7, FS_RemoveElement DEF Summable
  <2>3. SumFunctionOnSet(o, Callers \ {c}) \in Nat
    BY <2>2, SumType
  <2> QED BY <2>1, <2>3, <1>1
<1>13. /\ SumFunctionOnSet(o, Callers) \in Nat /\ SumFunctionOnSet(p, Callers) \in Nat
       /\ SumFunctionOnSet(g, Callers) \in Nat /\ SumFunctionOnSet(h, Callers) \in Nat
       /\ SumFunctionOnSet(f, Callers) \in Nat /\ SumFunctionOnSet(e, Callers) \in Nat
  BY <1>7, <1>8, <1>9, <1>10, SumType
<1> QED BY <1>3, <1>4, <1>5, <1>6, <1>8, <1>9, <1>10, <1>11, <1>12, <1>13

\* A title that changes changes what is stored by as much.
LEMMA TitleStored ==
    ASSUME Typed, Typed', NEW v \in Convs, message' = message,
           \A w \in Convs \ {v} : title'[w] = title[w]
    PROVE  StoredBytes' + TitleSize[v] = StoredBytes + TitleSize'[v] /\ TitleSize[v] \in Nat /\ TitleSize'[v] \in Nat
<1>1. Summable(TitleSize, Convs) /\ TitleSize'[v] \in Nat /\ TitleSize[v] \in Nat
  BY SumsTyped, StoreAssumption DEF Typed, TitleSize, Summable
<1>2. \A w \in Convs \ {v} : TitleSize'[w] = TitleSize[w]
  BY DEF TitleSize
<1>3. SumFunctionOnSet(TitleSize', Convs) + TitleSize[v] = SumFunctionOnSet(TitleSize, Convs) + TitleSize'[v]
  BY <1>1, <1>2, SumChange
<1>4. TitlesBytes = SumFunctionOnSet(TitleSize, Convs) /\ TitlesBytes' = SumFunctionOnSet(TitleSize', Convs)
  BY DEF TitlesBytes
<1>5. TextSize' = TextSize
  BY DEF TextSize
<1>6. /\ StoredBytes = TitlesBytes + SumFunctionOnSet(TextSize, Msgs)
      /\ StoredBytes' = TitlesBytes' + SumFunctionOnSet(TextSize, Msgs)
  BY <1>5 DEF StoredBytes
<1>7. TitlesBytes \in Nat /\ SumFunctionOnSet(TextSize, Msgs) \in Nat
  BY SumsTyped
<1>8. TitlesBytes' \in Nat
  <2>1. Summable(TitleSize', Convs)
    BY <1>1, <1>2, SumChange
  <2> QED BY <2>1, <1>4, SumType
<1> QED BY <1>1, <1>3, <1>4, <1>6, <1>7, <1>8

\* So does a text that changes.
LEMMA TextStored ==
    ASSUME Typed, Typed', NEW m \in Msgs, title' = title,
           \A x \in Msgs \ {m} : message'[x] = message[x]
    PROVE  StoredBytes' + TextSize[m] = StoredBytes + TextSize'[m] /\ TextSize[m] \in Nat /\ TextSize'[m] \in Nat
<1>1. Summable(TextSize, Msgs) /\ TextSize'[m] \in Nat /\ TextSize[m] \in Nat
  BY SumsTyped DEF Typed, TextSize, Texts, Summable
<1>2. \A x \in Msgs \ {m} : TextSize'[x] = TextSize[x]
  BY DEF TextSize
<1>3. /\ Summable(TextSize', Msgs)
      /\ SumFunctionOnSet(TextSize', Msgs) + TextSize[m] = SumFunctionOnSet(TextSize, Msgs) + TextSize'[m]
  BY <1>1, <1>2, SumChange
<1>4. TitlesBytes' = TitlesBytes
  BY DEF TitlesBytes, TitleSize
<1>5. /\ StoredBytes = TitlesBytes + SumFunctionOnSet(TextSize, Msgs)
      /\ StoredBytes' = TitlesBytes + SumFunctionOnSet(TextSize', Msgs)
  BY <1>4 DEF StoredBytes
<1>6. TitlesBytes \in Nat /\ SumFunctionOnSet(TextSize, Msgs) \in Nat /\ SumFunctionOnSet(TextSize', Msgs) \in Nat
  BY <1>3, SumsTyped, SumType
<1> QED BY <1>1, <1>3, <1>5, <1>6

\* The messages of the conversations V.
RowsOf(V) == {m \in Msgs : message[m] # None /\ message[m].conv \in V}

\* The texts of the conversations yet to read, of one read, and of all.
LEMMA TextsRead ==
    ASSUME Typed, NEW V \in SUBSET Convs
    PROVE  /\ TextsOf(V) \in Nat
           /\ \A v \in V : TextsOf(V) = TextsOf(V \ {v}) + TextBytes(v)
<1>1. \A W \in SUBSET Convs : TextsOf(W) = SumFunctionOnSet(TextSize, RowsOf(W)) /\ RowsOf(W) \in SUBSET Msgs
  BY DEF TextsOf, RowsOf
<1>2. \A M \in SUBSET Msgs : Summable(TextSize, M) /\ SumFunctionOnSet(TextSize, M) \in Nat
  BY SumsTyped
<1>3. ASSUME NEW v \in V PROVE TextsOf(V) = TextsOf(V \ {v}) + TextBytes(v)
  <2>1. /\ RowsOf(V) = RowsOf(V \ {v}) \union MessagesOf(v) /\ RowsOf(V \ {v}) \intersect MessagesOf(v) = {}
        /\ MessagesOf(v) \in SUBSET Msgs /\ RowsOf(V \ {v}) \in SUBSET Msgs
    BY DEF RowsOf, MessagesOf
  <2>2. SumFunctionOnSet(TextSize, RowsOf(V)) =
          SumFunctionOnSet(TextSize, RowsOf(V \ {v})) + SumFunctionOnSet(TextSize, MessagesOf(v))
    BY <1>2, <2>1, SumSplit
  <2> QED BY <1>1, <2>2 DEF TextBytes
<1> QED BY <1>1, <1>2, <1>3

\* All texts belong to conversations that are there.
LEMMA AllTexts ==
    ASSUME Typed, Rows
    PROVE  TitlesBytes + TextsOf(Conversations) = StoredBytes /\ TextsOf({}) = 0
<1> DEFINE R == RowsOf(Conversations)
<1>1. R \in SUBSET Msgs /\ \A m \in Msgs \ R : TextSize[m] = 0
  BY DEF RowsOf, TextSize, Rows, Conversations, Typed, Texts
<1>2. Summable(TextSize, R) /\ Summable(TextSize, Msgs \ R) /\ SumFunctionOnSet(TextSize, R) \in Nat
  BY <1>1, SumsTyped
<1>3. SumFunctionOnSet(TextSize, Msgs \ R) = 0
  BY <1>1, <1>2, SumZero
<1> HIDE DEF R
<1>4. R \union (Msgs \ R) = Msgs /\ R \intersect (Msgs \ R) = {}
  BY <1>1
<1>5. SumFunctionOnSet(TextSize, Msgs) = SumFunctionOnSet(TextSize, R) + SumFunctionOnSet(TextSize, Msgs \ R)
  <2>1. SumFunctionOnSet(TextSize, R \union (Msgs \ R)) =
          SumFunctionOnSet(TextSize, R) + SumFunctionOnSet(TextSize, Msgs \ R)
    BY <1>2, <1>4, SumSplit
  <2> QED BY <2>1, <1>4
<1>6. TextsOf(Conversations) = SumFunctionOnSet(TextSize, R)
  BY DEF TextsOf, RowsOf, R
<1>7. TextsOf({}) = 0
  <2>1. RowsOf({}) = {}
    BY DEF RowsOf
  <2> QED BY <2>1, SumEmpty DEF TextsOf, RowsOf
<1> QED BY <1>2, <1>3, <1>5, <1>6, <1>7 DEF StoredBytes

\* What a transaction removes is the texts of the conversation and, if it goes, its title.
LEMMA EraseStored ==
    ASSUME Typed, Typed', NEW v \in Convs, NEW whole \in BOOLEAN,
           message' = [m \in Msgs |-> IF m \in MessagesOf(v) THEN None ELSE message[m]],
           title' = [title EXCEPT ![v] = IF whole THEN None ELSE @]
    PROVE  /\ StoredBytes' + TextBytes(v) + (IF whole /\ v \in Conversations THEN title[v] ELSE 0) = StoredBytes
           /\ \A V \in SUBSET Convs : /\ TextsOf(V)' \in Nat /\ TextsOf(V)' <= TextsOf(V)
                                      /\ TextsOf(V)' + TextBytes(v) >= TextsOf(V)
<1> DEFINE M == MessagesOf(v)
<1>1. M \in SUBSET Msgs /\ \A m \in M : TextSize'[m] = 0
  BY DEF MessagesOf, TextSize
<1>2. \A m \in Msgs \ M : TextSize'[m] = TextSize[m]
  BY DEF TextSize
<1>3. \A V \in SUBSET Convs : RowsOf(V)' = RowsOf(V) \ M /\ RowsOf(V) \in SUBSET Msgs
  BY DEF RowsOf
<1>4. \A X \in SUBSET Msgs : Summable(TextSize, X) /\ SumFunctionOnSet(TextSize, X) \in Nat
  BY SumsTyped
<1>5. \A X \in SUBSET Msgs : Summable(TextSize', X) /\ SumFunctionOnSet(TextSize', X) \in Nat
  <2>1. \A m \in Msgs : TextSize'[m] \in Nat
    BY DEF Typed, TextSize, Texts
  <2>2. \A X \in SUBSET Msgs : Summable(TextSize', X)
    BY <1>4, <2>1 DEF Summable
  <2> QED BY <2>2, SumType
<1>6. TextBytes(v) = SumFunctionOnSet(TextSize, M)
  BY DEF TextBytes
<1>7. \A V \in SUBSET Convs : /\ TextsOf(V) = SumFunctionOnSet(TextSize, RowsOf(V))
                              /\ TextsOf(V)' = SumFunctionOnSet(TextSize', RowsOf(V)')
  BY DEF TextsOf, RowsOf
<1> HIDE DEF M
<1>8. ASSUME NEW X \in SUBSET Msgs
      PROVE  /\ SumFunctionOnSet(TextSize, X) = SumFunctionOnSet(TextSize', X \ M) + SumFunctionOnSet(TextSize, X \intersect M)
             /\ SumFunctionOnSet(TextSize, X \intersect M) <= SumFunctionOnSet(TextSize, M)
             /\ SumFunctionOnSet(TextSize, X \intersect M) \in Nat
  <2> DEFINE A == X \ M
             B == X \intersect M
  <2>1. X = A \union B /\ A \intersect B = {} /\ A \in SUBSET Msgs /\ B \in SUBSET Msgs
    OBVIOUS
  <2>2. B \subseteq M /\ \A m \in B : TextSize[m] \in Nat /\ TextSize[m] <= TextSize[m]
    BY <1>1, <1>4 DEF Summable
  <2>3. \A m \in A : TextSize'[m] = TextSize[m]
    BY <1>2
  <2> HIDE DEF A, B
  <2>4. SumFunctionOnSet(TextSize, X) = SumFunctionOnSet(TextSize, A) + SumFunctionOnSet(TextSize, B)
    BY <1>4, <2>1, SumSplit
  <2>5. SumFunctionOnSet(TextSize', A) = SumFunctionOnSet(TextSize, A)
    BY <1>4, <2>1, <2>3, SumSame
  <2>6. SumFunctionOnSet(TextSize, B) <= SumFunctionOnSet(TextSize, M)
    BY <1>1, <1>4, <2>2, SumLess
  <2> QED BY <1>4, <2>1, <2>4, <2>5, <2>6 DEF A, B
<1>9. ASSUME NEW V \in SUBSET Convs
      PROVE  /\ TextsOf(V)' \in Nat /\ TextsOf(V)' <= TextsOf(V)
             /\ TextsOf(V)' + TextBytes(v) >= TextsOf(V)
  <2>1. RowsOf(V) \in SUBSET Msgs /\ RowsOf(V) \ M \in SUBSET Msgs
    BY <1>3
  <2>2. /\ TextsOf(V) = SumFunctionOnSet(TextSize', RowsOf(V) \ M) + SumFunctionOnSet(TextSize, RowsOf(V) \intersect M)
        /\ SumFunctionOnSet(TextSize, RowsOf(V) \intersect M) <= TextBytes(v)
        /\ SumFunctionOnSet(TextSize, RowsOf(V) \intersect M) \in Nat
    BY <1>6, <1>7, <1>8, <2>1
  <2>3. TextsOf(V)' = SumFunctionOnSet(TextSize', RowsOf(V) \ M) /\ SumFunctionOnSet(TextSize', RowsOf(V) \ M) \in Nat
    BY <1>3, <1>5, <1>7, <2>1
  <2>4. TextBytes(v) \in Nat
    BY SumsTyped
  <2> QED BY <2>2, <2>3, <2>4
<1>10. SumFunctionOnSet(TextSize, Msgs) = SumFunctionOnSet(TextSize', Msgs) + TextBytes(v)
  <2>1. SumFunctionOnSet(TextSize, Msgs) = SumFunctionOnSet(TextSize', Msgs \ M) + SumFunctionOnSet(TextSize, M)
    <3>1. Msgs \intersect M = M /\ Msgs \in SUBSET Msgs
      BY <1>1
    <3> QED BY <3>1, <1>8
  <2>2. SumFunctionOnSet(TextSize', M) = 0
    BY <1>1, <1>5, SumZero
  <2>3. SumFunctionOnSet(TextSize', Msgs) = SumFunctionOnSet(TextSize', Msgs \ M) + SumFunctionOnSet(TextSize', M)
    <3> DEFINE A == Msgs \ M
    <3>1. Msgs = A \union M /\ A \intersect M = {} /\ A \in SUBSET Msgs /\ M \in SUBSET Msgs
      BY <1>1
    <3> HIDE DEF A
    <3>2. SumFunctionOnSet(TextSize', A \union M) = SumFunctionOnSet(TextSize', A) + SumFunctionOnSet(TextSize', M)
      BY <1>5, <3>1, SumSplit
    <3> QED BY <3>1, <3>2 DEF A
  <2>4. SumFunctionOnSet(TextSize', Msgs \ M) \in Nat
    BY <1>5
  <2> QED BY <2>1, <2>2, <2>3, <2>4, <1>6
<1>11. TitlesBytes' + (IF whole /\ v \in Conversations THEN title[v] ELSE 0) = TitlesBytes
  <2>1. Summable(TitleSize, Convs) /\ TitleSize'[v] \in Nat /\ TitleSize[v] \in Nat
    BY SumsTyped, StoreAssumption DEF Typed, TitleSize, Summable
  <2>2. \A w \in Convs \ {v} : TitleSize'[w] = TitleSize[w]
    BY DEF TitleSize, Typed
  <2>3. /\ Summable(TitleSize', Convs)
        /\ SumFunctionOnSet(TitleSize', Convs) + TitleSize[v] = SumFunctionOnSet(TitleSize, Convs) + TitleSize'[v]
    BY <2>1, <2>2, SumChange
  <2>4. TitlesBytes = SumFunctionOnSet(TitleSize, Convs) /\ TitlesBytes' = SumFunctionOnSet(TitleSize', Convs)
    BY DEF TitlesBytes
  <2>5. TitleSize'[v] + (IF whole /\ v \in Conversations THEN title[v] ELSE 0) = TitleSize[v]
    BY <2>1 DEF TitleSize, Typed, Conversations
  <2>6. TitlesBytes \in Nat /\ TitlesBytes' \in Nat
    BY <2>1, <2>3, <2>4, SumType
  <2>7. (IF whole /\ v \in Conversations THEN title[v] ELSE 0) \in Nat
    BY DEF Typed, Conversations
  <2> QED BY <2>1, <2>3, <2>4, <2>5, <2>6, <2>7
<1>12. /\ StoredBytes = TitlesBytes + SumFunctionOnSet(TextSize, Msgs)
       /\ StoredBytes' = TitlesBytes' + SumFunctionOnSet(TextSize', Msgs)
  BY DEF StoredBytes
<1>13. /\ TitlesBytes \in Nat /\ TitlesBytes' \in Int /\ TextBytes(v) \in Nat
       /\ SumFunctionOnSet(TextSize', Msgs) \in Nat
  <2>1. TitlesBytes' \in Nat
    <3>1. Summable(TitleSize', Convs)
      BY SumsTyped, StoreAssumption DEF Typed, TitleSize, Summable
    <3> QED BY <3>1, SumType DEF TitlesBytes
  <2> QED BY <2>1, <1>5, SumsTyped
<1>14. (IF whole /\ v \in Conversations THEN title[v] ELSE 0) \in Nat
  BY DEF Typed, Conversations
<1> DEFINE gone == IF whole /\ v \in Conversations THEN title[v] ELSE 0
<1>15. TitlesBytes' + gone = TitlesBytes /\ gone \in Nat
  BY <1>11, <1>14
<1> HIDE DEF gone
<1>16. StoredBytes' + TextBytes(v) + gone = StoredBytes
  <2> DEFINE s == StoredBytes
             z == StoredBytes'
             t == TitlesBytes
             y == TitlesBytes'
             n == TextBytes(v)
             a == SumFunctionOnSet(TextSize, Msgs)
             b == SumFunctionOnSet(TextSize', Msgs)
  <2>1. a = b + n /\ y + gone = t /\ s = t + a /\ z = y + b
    BY <1>10, <1>12, <1>15
  <2>2. t \in Nat /\ y \in Int /\ n \in Nat /\ b \in Nat /\ gone \in Nat
    BY <1>13, <1>15
  <2> HIDE DEF s, z, t, y, n, a, b
  <2>3. z + n + gone = s
    BY <2>1, <2>2
  <2> QED BY <2>3 DEF s, z, n
<1> QED BY <1>9, <1>16 DEF gone

-----------------------------------------------------------------------------
(* The budget is kept. *)

\* What is stored is a number of bytes.
LEMMA StoredTyped == Typed => StoredBytes \in Nat
BY SumsTyped

\* So it is in the next state.
LEMMA StoredTypedNext ==
    ASSUME Typed'
    PROVE  StoredBytes' \in Nat
<1>1. (Typed => StoredBytes \in Nat)'
  BY StoredTyped, PTL
<1> QED BY <1>1

\* So is the share of the limit that failed calls may leave counted, which only faults change.
LEMMA LeftoverTyped ==
    ASSUME Typed
    PROVE  /\ Leftover \in Nat /\ Limit \in Nat
           /\ faults' = faults => Leftover' = Leftover
           /\ faults' = faults + 1 => Leftover' = Leftover + Limit
<1>1. faults \in Nat /\ Limit \in Nat
  BY StoreAssumption DEF Typed
<1>2. faults * Limit \in Nat /\ (faults + 1) * Limit = faults * Limit + Limit
  BY <1>1
<1> QED BY <1>1, <1>2 DEF Leftover

\* While nothing is counted, nothing is owed.
LEMMA NothingOwed ==
    ASSUME Typed, Unseeded, used = None
    PROVE  Owed = 0
<1> DEFINE o == [d \in Callers |-> Owes(call[d])]
<1>1. \A d \in Callers : o[d] = 0
  BY DEF Unseeded, Owes
<1>2. Summable(o, Callers)
  BY <1>1, StoreAssumption DEF Summable
<1> HIDE DEF o
<1>3. SumFunctionOnSet(o, Callers) = 0
  BY <1>1, <1>2, SumZero
<1> QED BY <1>3 DEF Owed, o

\* The counter a call has covers the rows and what others have counted.
LEMMA CounterCovers ==
    ASSUME Typed, Rows, Budget, NEW c \in Callers, Counting(c), CounterReady(c),
           Growth <= Owed, Freed \in Nat
    PROVE  /\ Counter(c) \in Nat /\ Counter(c) >= StoredBytes + Owed
           /\ Counter(c) <= Limit + Freed + Leftover
<1>1. Counter(c) \in Nat /\ StoredBytes \in Nat /\ Leftover \in Nat /\ Limit \in Nat
  BY CounterTyped, SumsTyped, LeftoverTyped
<1>2. CASE used # None
  BY <1>1, <1>2 DEF Budget, Counted, Counter
<1>3. CASE used = None
  <2>1. Owed = 0
    BY <1>3, NothingOwed DEF Budget
  <2>2. call[c].unread = {} /\ call[c].seed # None /\ Counter(c) = call[c].seed
    BY <1>3 DEF CounterReady, Counter
  <2>3. TextsOf(call[c].unread) = 0
    BY <2>2, AllTexts
  <2>4. /\ call[c].seed + TextsOf(call[c].unread) >= StoredBytes
        /\ call[c].seed + TextsOf(call[c].unread) <= Limit
    BY <1>3, <2>2 DEF Budget, Unseeded
  <2> QED BY <1>1, <2>1, <2>2, <2>3, <2>4
<1> QED BY <1>2, <1>3

\* Rows that do not change take as many bytes.
LEMMA UntouchedStored ==
    ASSUME Untouched
    PROVE  StoredBytes' = StoredBytes /\ \A V : TextsOf(V)' = TextsOf(V)
BY DEF Untouched, StoredBytes, TitlesBytes, TitleSize, TextsOf, TextSize

\* What a call must not have read or hold while nothing is counted.
Waits(c) ==
    /\ call[c].at \notin {"write", "rewrite", "recount", "show"}
    /\ call[c].at = "release" => call[c].freed = 0
    /\ call[c].at = "erase" => call[c].freed = None
    /\ Counting(c) /\ call[c].seed # None =>
        /\ call[c].seed + TextsOf(call[c].unread) >= StoredBytes
        /\ call[c].seed + TextsOf(call[c].unread) <= Limit

\* A caller without a call owes nothing and needs nothing of the counter.
LEMMA IdleWaits ==
    ASSUME NEW c \in Callers, call'[c] = Idle
    PROVE  Waits(c)' /\ Owes(call'[c]) = 0 /\ Grows(call'[c]) = 0 /\ Frees(call'[c]) = 0
           /\ call'[c].freed = 0
BY DEF Waits, Idle, Counting, At, Owes, Grows, Frees

\* The other calls still wait as they should after a step that writes no row.
LEMMA UnseededKept ==
    ASSUME Unseeded, NEW c \in Callers, Others(c),
           used' = None => used = None /\ Untouched /\ Waits(c)'
    PROVE  Unseeded'
<1> SUFFICES ASSUME used' = None, NEW d \in Callers PROVE Waits(d)'
  BY DEF Unseeded, Waits
<1>1. used = None /\ Untouched /\ Waits(c)'
  OBVIOUS
<1>2. CASE d = c
  BY <1>1, <1>2
<1>3. CASE d # c
  <2>1. call'[d] = call[d] /\ StoredBytes' = StoredBytes /\ Waits(d)
    BY <1>1, <1>3, UntouchedStored DEF Others, Unseeded, Waits
  <2>2. TextsOf(call[d].unread)' = TextsOf(call[d].unread)
    BY <2>1, <1>1 DEF TextsOf, TextSize, Untouched
  <2> QED BY <2>1, <2>2 DEF Waits, Counting, At
<1> QED BY <1>2, <1>3

\* A step that changes neither the rows nor what is counted keeps the budget.
LEMMA CalmKeepsBudget ==
    ASSUME Typed, Typed', Budget, NEW c \in Callers, Others(c), Untouched, used' = used, faults' = faults,
           call[c].at \notin {"write", "rewrite", "recount", "release"},
           call'[c].at \notin {"write", "rewrite", "recount", "release"},
           call'[c].freed # None => call'[c].freed <= Limit,
           used = None => Waits(c)'
    PROVE  Budget'
<1>1. /\ Owes(call[c]) = 0 /\ Owes(call'[c]) = 0 /\ Grows(call[c]) = 0 /\ Grows(call'[c]) = 0
      /\ Frees(call[c]) = 0 /\ Frees(call'[c]) = 0
  BY DEF Owes, Grows, Frees
<1>2. Owed' = Owed /\ Growth' = Growth /\ Freed' = Freed
  BY <1>1, CallSums
<1>3. StoredBytes' = StoredBytes /\ Leftover' = Leftover
  BY UntouchedStored, LeftoverTyped
<1>4. Unseeded'
  BY UnseededKept DEF Budget
<1>5. \A d \in Callers : call'[d].freed # None => call'[d].freed <= Limit
  BY DEF Budget, Others
<1> QED BY <1>2, <1>3, <1>4, <1>5 DEF Budget, Counted

\* Counted and checked at once: what is let in fits beside all that was.
LEMMA ReserveBudget ==
    ASSUME Typed, Typed', Rows, Budget, NEW c \in Callers, Others(c), Reserve(c)
    PROVE  Budget'
<1> DEFINE b == call[c].bytes
           n == Counter(c)
<1>0. /\ call[c].at = "reserve" /\ Untouched /\ faults' = faults /\ CounterReady(c) /\ Counting(c)
      /\ Sound(call[c]) /\ call[c] \in Records /\ call \in [Callers -> Records]
  BY DEF Reserve, Untouched, rows, At, Counting, Typed
<1>1. Owes(call[c]) = 0 /\ Grows(call[c]) = 0 /\ Frees(call[c]) = 0
  BY <1>0 DEF Owes, Grows, Frees
<1>2. /\ Owed \in Nat /\ Growth \in Nat /\ Freed \in Nat /\ Growth <= Owed
      /\ Owed' = Owed + Owes(call'[c]) /\ Growth' = Growth + Grows(call'[c])
      /\ Freed' = Freed + Frees(call'[c])
  BY <1>1, CallSums
<1>3. /\ n \in Nat /\ b \in Nat /\ n >= StoredBytes + Owed /\ n <= Limit + Freed + Leftover
      /\ Leftover \in Nat /\ Limit \in Nat /\ StoredBytes \in Nat
      /\ StoredBytes' = StoredBytes /\ Leftover' = Leftover
  BY <1>0, <1>2, CounterCovers, SumsTyped, LeftoverTyped, UntouchedStored DEF Records
<1>4. used' # None
  BY <1>3, StoreAssumption DEF Reserve
<1>5. Unseeded'
  BY <1>4, UnseededKept DEF Budget
<1>6. CASE n + b > Limit
  <2>1. used' = n /\ call'[c] = Idle
    BY <1>0, <1>6 DEF Reserve, End
  <2>2. Owes(call'[c]) = 0 /\ Grows(call'[c]) = 0 /\ Frees(call'[c]) = 0 /\ call'[c].freed = 0
    BY <2>1, IdleWaits
  <2>3. Owed' = Owed /\ Growth' = Growth /\ Freed' = Freed
    BY <1>2, <2>2
  <2>4. \A d \in Callers : call'[d].freed # None => call'[d].freed <= Limit
    BY <1>3, <2>2 DEF Budget, Others
  <2>5. StoredBytes' + Growth' <= Limit
    BY <1>3, <2>3 DEF Budget
  <2>6. Counted'
    <3> HIDE DEF n
    <3> QED BY <1>3, <2>1, <2>3 DEF Counted
  <2> QED BY <1>5, <2>4, <2>5, <2>6 DEF Budget
<1>7. CASE ~(n + b > Limit)
  <2>1. used' = n + b /\ call'[c].at = "write" /\ call'[c].bytes = b /\ call'[c].freed = call[c].freed
    BY <1>0, <1>7 DEF Reserve, To, Records
  <2>2. Owes(call'[c]) = b /\ Grows(call'[c]) = b /\ Frees(call'[c]) = 0
    BY <2>1 DEF Owes, Grows, Frees
  <2>3. Owed' = Owed + b /\ Growth' = Growth + b /\ Freed' = Freed
    BY <1>2, <2>2
  <2>4. \A d \in Callers : call'[d].freed # None => call'[d].freed <= Limit
    BY <2>1 DEF Budget, Others
  <2> HIDE DEF n, b
  <2>5. StoredBytes' + Growth' <= Limit
    BY <1>2, <1>3, <1>7, <2>3
  <2>6. Counted'
    BY <1>2, <1>3, <1>7, <2>1, <2>3 DEF Counted
  <2> QED BY <1>5, <2>4, <2>5, <2>6 DEF Budget
<1> QED BY <1>6, <1>7

\* Cut to the room left and to what it replaces, a text does not make the rows grow past the limit.
LEMMA FitBudget ==
    ASSUME Typed, Typed', Rows, Budget, NEW c \in Callers, Others(c), Fit(c)
    PROVE  Budget'
<1> DEFINE k == Counter(c)
           f == call[c].freed
           n == Least(call[c].bytes, Less(Limit, k) + f)
<1>0. /\ call[c].at = "fit" /\ Untouched /\ faults' = faults /\ CounterReady(c) /\ Counting(c)
      /\ Sound(call[c]) /\ call[c] \in Records /\ call \in [Callers -> Records]
      /\ used' = k + n /\ call'[c].at = "rewrite" /\ call'[c].bytes = n /\ call'[c].freed = f
  BY DEF Fit, Untouched, rows, At, Counting, Typed, Records
<1>1. Owes(call[c]) = 0 /\ Grows(call[c]) = 0 /\ Frees(call[c]) = 0
  BY <1>0 DEF Owes, Grows, Frees
<1>2. /\ Owes(call'[c]) = n /\ Grows(call'[c]) = Less(n, f) /\ Frees(call'[c]) = f
  BY <1>0 DEF Owes, Grows, Frees
<1>3. /\ Owed \in Nat /\ Growth \in Nat /\ Freed \in Nat /\ Growth <= Owed
      /\ Owed' = Owed + n /\ Growth' = Growth + Less(n, f) /\ Freed' = Freed + f
  BY <1>1, <1>2, CallSums
<1>4. /\ k \in Nat /\ k >= StoredBytes + Owed /\ k <= Limit + Freed + Leftover
      /\ Leftover \in Nat /\ Limit \in Nat /\ StoredBytes \in Nat
      /\ StoredBytes' = StoredBytes /\ Leftover' = Leftover
  BY <1>0, <1>3, CounterCovers, SumsTyped, LeftoverTyped, UntouchedStored
<1>5. call[c].bytes \in Nat /\ f \in Nat
  BY <1>0 DEF Sound, Records
<1>6. \A d \in Callers : call'[d].freed # None => call'[d].freed <= Limit
  BY <1>0 DEF Budget, Others
<1> HIDE DEF k, f
<1>7. /\ n \in Nat /\ Less(n, f) \in Nat
      /\ k >= Limit => n <= f /\ Less(n, f) = 0
      /\ k < Limit => n + k <= Limit + f /\ Less(n, f) + k <= Limit
  BY <1>4, <1>5 DEF Less, Least
<1> HIDE DEF n
<1>8. used' # None
  BY <1>0, <1>4, <1>7, StoreAssumption
<1>9. Unseeded'
  BY <1>8, UnseededKept DEF Budget
<1>10. StoredBytes' + Growth' <= Limit
  BY <1>3, <1>4, <1>7 DEF Budget
<1>11. Counted'
  BY <1>0, <1>3, <1>4, <1>5, <1>7 DEF Counted
<1> QED BY <1>6, <1>9, <1>10, <1>11 DEF Budget

\* A write stores what was counted for it, in place of what is released after it.
LEMMA WriteBudget ==
    ASSUME Typed, Typed', Budget, NEW c \in Callers, Others(c),
           used' = used, faults' = faults, call[c].at \in {"write", "rewrite"},
           NEW b \in Nat, b = call[c].bytes, NEW f \in Nat, f = call[c].freed,
           StoredBytes' + f = StoredBytes + b,
           \/ call'[c] = Idle /\ f = 0
           \/ call'[c].at \in {"recount", "release"} /\ call'[c].freed = f
    PROVE  Budget'
<1>1. /\ Owes(call[c]) = b /\ Owes(call'[c]) = f /\ Grows(call[c]) \in Nat /\ Grows(call[c]) >= b - f
      /\ Grows(call'[c]) = 0 /\ Frees(call'[c]) = f /\ Frees(call[c]) <= f /\ Frees(call[c]) \in Nat
  BY DEF Owes, Grows, Frees, Less, Idle
<1>2. /\ Owed \in Nat /\ Growth \in Nat /\ Freed \in Nat
      /\ Owed' + b = Owed + f /\ Growth' + Grows(call[c]) = Growth /\ Freed' + Frees(call[c]) = Freed + f
      /\ Owed' \in Nat /\ Growth' \in Nat /\ Freed' \in Nat
  BY <1>1, CallSums
<1>3. /\ used # None /\ used \in Nat /\ StoredBytes \in Nat /\ StoredBytes' \in Nat
      /\ Leftover' = Leftover /\ Leftover \in Nat /\ Limit \in Nat
  <2>1. StoredBytes' \in Nat
    BY StoredTypedNext
  <2> QED BY <2>1, SumsTyped, LeftoverTyped DEF Budget, Unseeded, Typed
<1>4. \A d \in Callers : call'[d].freed # None => call'[d].freed <= Limit
  BY <1>3 DEF Budget, Others, Idle
<1>5. StoredBytes' + Growth' <= Limit
  <2>1. StoredBytes + Growth <= Limit
    BY DEF Budget
  <2>2. \A s, z, g, h, n, l \in Nat :
            s + g <= l /\ z + f = s + b /\ h + n = g /\ n >= b - f => z + h <= l
    OBVIOUS
  <2> QED BY <1>1, <1>2, <1>3, <2>1, <2>2, Zenon
<1>6. Counted'
  <2>1. used >= StoredBytes + Owed /\ used <= Limit + Freed + Leftover
    BY <1>3 DEF Budget, Counted
  <2>2. used >= StoredBytes' + Owed'
    <3>1. \A u, s, z, o, w \in Nat : u >= s + o /\ z + f = s + b /\ w + b = o + f => u >= z + w
      OBVIOUS
    <3> QED BY <1>2, <1>3, <2>1, <3>1, Zenon
  <2>3. used <= Limit + Freed' + Leftover
    <3>1. \A u, l, g, h, k, o \in Nat :
              u <= l + g + k /\ h + o = g + f /\ o <= f => u <= l + h + k
      OBVIOUS
    <3> QED BY <1>1, <1>2, <1>3, <2>1, <3>1, Zenon
  <2> QED BY <2>2, <2>3, <1>3 DEF Counted
<1>7. Unseeded'
  BY <1>3 DEF Unseeded
<1> QED BY <1>4, <1>5, <1>6, <1>7 DEF Budget

\* What is released was counted.
LEMMA ReleaseBudget ==
    ASSUME Typed, Typed', Budget, NEW c \in Callers, Others(c), Untouched,
           faults' = faults \/ faults' = faults + 1,
           call[c].at \in {"recount", "release"}, used' = Released(c),
           call'[c].at \in {"show", "idle"}, call'[c].freed = 0,
           call[c].at = "release" => call'[c].at = "idle"
    PROVE  Budget'
<1> DEFINE f == call[c].freed
<1>1. Sound(call[c]) /\ f \in Nat
  BY DEF Typed, Sound, Records
<1>2. /\ Owes(call[c]) = f /\ Grows(call[c]) = 0 /\ Frees(call[c]) = f
      /\ Owes(call'[c]) = 0 /\ Grows(call'[c]) = 0 /\ Frees(call'[c]) = 0
  BY DEF Owes, Grows, Frees
<1>3. /\ Owed \in Nat /\ Growth \in Nat /\ Freed \in Nat /\ f <= Owed
      /\ Owed' + f = Owed /\ Growth' = Growth /\ Freed' + f = Freed
      /\ Owed' \in Nat /\ Freed' \in Nat
  BY <1>2, CallSums
<1>4. /\ StoredBytes \in Nat /\ StoredBytes' = StoredBytes
      /\ Leftover \in Nat /\ Leftover' \in Nat /\ Leftover' >= Leftover /\ Limit \in Nat
  <2>1. Leftover \in Nat /\ Limit \in Nat /\ (Leftover' = Leftover \/ Leftover' = Leftover + Limit)
    BY LeftoverTyped
  <2> QED BY <2>1, SumsTyped, UntouchedStored
<1>5. \A d \in Callers : call'[d].freed # None => call'[d].freed <= Limit
  BY <1>4 DEF Budget, Others
<1> HIDE DEF f
<1>6. StoredBytes' + Growth' <= Limit
  BY <1>3, <1>4 DEF Budget
<1>7. CASE used = None
  <2>1. used' = None /\ call[c].at = "release"
    BY <1>7 DEF Released, Budget, Unseeded
  <2>2. Waits(c)'
    BY <2>1 DEF Waits, Counting, At
  <2>3. Unseeded'
    BY <1>7, <2>2, UnseededKept DEF Budget
  <2> QED BY <1>5, <1>6, <2>1, <2>3 DEF Budget, Counted
<1>8. CASE used # None
  <2>1. used \in Nat /\ used >= StoredBytes + Owed /\ used <= Limit + Freed + Leftover
    BY <1>8 DEF Typed, Budget, Counted
  <2>2. used' = used - f /\ used' \in Nat
    <3>1. used >= f
      <4>1. used >= Owed
        BY <1>3, <1>4, <2>1
      <4> QED BY <1>1, <1>3, <2>1, <4>1
    <3>2. used' = Less(used, f)
      BY <1>8 DEF Released, f
    <3> QED BY <1>1, <2>1, <3>1, <3>2 DEF Less, f
  <2>3. used' # None
    BY <2>2, StoreAssumption
  <2>4. Unseeded'
    BY <2>3 DEF Unseeded
  <2>5. used' >= StoredBytes' + Owed'
    BY <1>1, <1>3, <1>4, <2>1, <2>2 DEF f
  <2>6. used' <= Limit + Freed' + Leftover'
    <3>1. used' <= Limit + Freed' + Leftover
      BY <1>1, <1>3, <1>4, <2>1, <2>2 DEF f
    <3> QED BY <1>3, <1>4, <2>2, <3>1
  <2> QED BY <1>5, <1>6, <2>4, <2>5, <2>6 DEF Budget, Counted
<1> QED BY <1>7, <1>8

\* What a transaction removes stays counted until it is released, if it was counted before.
LEMMA EraseBudget ==
    ASSUME Typed, Typed', Budget, NEW c \in Callers, Others(c), Erase(c)
    PROVE  Budget'
<1>0. /\ Sound(call[c]) /\ call[c].at = "erase" /\ call[c].conv \in Convs /\ call[c].freed \in {0, None}
      /\ call \in [Callers -> Records] /\ used' = used /\ faults' = faults
  BY DEF Typed, Erase, At, Sound, OnPath
<1> SUFFICES ASSUME NEW v \in Convs, v = call[c].conv,
                    NEW whole \in BOOLEAN, whole = (call[c].op = "delete") PROVE Budget'
  BY <1>0
<1> DEFINE t == IF whole /\ v \in Conversations THEN title[v] ELSE 0
           n == TextBytes(v) + t
           f == IF call[c].freed = None THEN 0 ELSE n
<1>1. /\ message' = [m \in Msgs |-> IF m \in MessagesOf(v) THEN None ELSE message[m]]
      /\ title' = [title EXCEPT ![v] = IF whole THEN None ELSE @]
      /\ call'[c].at = "release" /\ call'[c].freed = f
  BY <1>0 DEF Erase, Records
<1>2. /\ StoredBytes' + TextBytes(v) + t = StoredBytes
      /\ \A V \in SUBSET Convs : /\ TextsOf(V)' \in Nat /\ TextsOf(V)' <= TextsOf(V)
                                 /\ TextsOf(V)' + TextBytes(v) >= TextsOf(V)
  BY <1>1, EraseStored
<1>3. /\ Owes(call[c]) = 0 /\ Grows(call[c]) = 0 /\ Frees(call[c]) = 0
      /\ Owes(call'[c]) = f /\ Grows(call'[c]) = 0 /\ Frees(call'[c]) = f
  BY <1>0, <1>1 DEF Owes, Grows, Frees
<1>4. /\ Owed \in Nat /\ Growth \in Nat /\ Freed \in Nat
      /\ Owed' = Owed + f /\ Growth' = Growth /\ Freed' = Freed + f
  BY <1>3, CallSums
<1>5. /\ StoredBytes \in Nat /\ StoredBytes' \in Nat /\ TextBytes(v) \in Nat /\ t \in Nat
      /\ Leftover \in Nat /\ Leftover' = Leftover /\ Limit \in Nat
  <2>1. StoredBytes' \in Nat
    BY StoredTypedNext
  <2>2. t \in Nat
    BY DEF Typed, Conversations
  <2> QED BY <1>0, <2>1, <2>2, SumsTyped, LeftoverTyped
<1> HIDE DEF t
<1>6. n \in Nat /\ f \in Nat /\ f <= n /\ StoredBytes' + n = StoredBytes
  BY <1>2, <1>5
<1>7. StoredBytes' + Growth' <= Limit
  BY <1>4, <1>5, <1>6 DEF Budget
<1> HIDE DEF n, f
<1>8. n <= Limit
  <2>1. \A s, z, g, k, l \in Nat : s + g <= l /\ z + k = s => k <= l
    OBVIOUS
  <2>2. StoredBytes + Growth <= Limit
    BY DEF Budget
  <2> QED BY <1>4, <1>5, <1>6, <2>1, <2>2, Zenon
<1>9. \A d \in Callers : call'[d].freed # None => call'[d].freed <= Limit
  BY <1>1, <1>5, <1>6, <1>8 DEF Budget, Others
<1>10. Counted'
  <2> SUFFICES ASSUME used # None PROVE Counted'
    BY <1>0 DEF Counted
  <2>1. used \in Nat /\ used >= StoredBytes + Owed /\ used <= Limit + Freed + Leftover
    BY DEF Typed, Budget, Counted
  <2>2. used >= StoredBytes' + Owed'
    <3>1. \A u, s, z, o, k, l \in Nat : u >= s + o /\ z + k = s /\ l <= k => u >= z + (o + l)
      OBVIOUS
    <3>2. used >= StoredBytes' + (Owed + f)
      BY <1>4, <1>5, <1>6, <2>1, <3>1, Zenon
    <3> QED BY <1>4, <3>2
  <2>3. used <= Limit + Freed' + Leftover
    <3>1. Freed' >= Freed /\ Freed' \in Nat
      BY <1>4, <1>6
    <3> QED BY <1>4, <1>5, <2>1, <3>1
  <2> QED BY <1>0, <1>5, <2>2, <2>3 DEF Counted
<1>11. Unseeded'
  <2> SUFFICES ASSUME used' = None, NEW d \in Callers PROVE Waits(d)'
    BY DEF Unseeded, Waits
  <2>1. used = None
    BY <1>0
  <2>2. CASE d = c
    <3>1. call[c].freed = None
      BY <1>0, <2>1 DEF Budget, Unseeded
    <3> QED BY <1>1, <2>2, <3>1 DEF Waits, Counting, At, f
  <2>3. CASE d # c
    <3>1. call'[d] = call[d] /\ Waits(d) /\ call[d].unread \in SUBSET Convs /\ call[d].seed \in Nat \union {None}
      BY <2>1, <2>3 DEF Others, Budget, Unseeded, Waits, Typed, Records
    <3> SUFFICES ASSUME NEW V \in SUBSET Convs, V = call[d].unread PROVE Waits(d)'
      BY <3>1
    <3>2. /\ TextsOf(V)' \in Nat /\ TextsOf(V)' <= TextsOf(V) /\ TextsOf(V)' + TextBytes(v) >= TextsOf(V)
      BY <1>2
    <3>3. TextsOf(V) \in Nat
      BY TextsRead
    <3>4. Counting(d) /\ call[d].seed # None =>
             /\ call[d].seed + TextsOf(V) >= StoredBytes
             /\ call[d].seed + TextsOf(V) <= Limit
      BY <3>1 DEF Waits
    <3>5. Counting(d) /\ call[d].seed # None =>
             /\ call[d].seed + TextsOf(V)' >= StoredBytes'
             /\ call[d].seed + TextsOf(V)' <= Limit
      <4> SUFFICES ASSUME Counting(d), call[d].seed # None, NEW s \in Nat, s = call[d].seed
                   PROVE  s + TextsOf(V)' >= StoredBytes' /\ s + TextsOf(V)' <= Limit
        BY <3>1
      <4>1. s + TextsOf(V) >= StoredBytes /\ s + TextsOf(V) <= Limit
        BY <3>4
      <4> QED BY <4>1, <3>2, <3>3, <1>2, <1>5
    <3> QED BY <3>1, <3>5 DEF Waits, Counting, At
  <2> QED BY <2>2, <2>3
<1> QED BY <1>7, <1>9, <1>10, <1>11 DEF Budget

\* What a call that fails counted is left counted, at most the limit for each fault.
LEMMA FailBudget ==
    ASSUME Typed, Typed', Budget, NEW c \in Callers, Fail(c)
    PROVE  Budget'
<1>0. /\ Sound(call[c]) /\ call'[c] = Idle /\ Others(c) /\ Untouched /\ faults' = faults + 1
      /\ call[c].at \notin {"idle", "release"}
  BY DEF Typed, Fail, Asking, End, Others, Untouched, rows
<1>1. CASE call[c].at = "recount"
  <2>1. used' = Released(c)
    BY <1>1 DEF Fail, At
  <2> QED BY <1>0, <1>1, <2>1, ReleaseBudget DEF Idle
<1>2. CASE call[c].at # "recount"
  <2>1. used' = used
    BY <1>2 DEF Fail, At
  <2>2. Waits(c)' /\ Owes(call'[c]) = 0 /\ Grows(call'[c]) = 0 /\ Frees(call'[c]) = 0 /\ call'[c].freed = 0
    BY <1>0, IdleWaits
  <2>3. Owes(call[c]) \in Nat /\ Grows(call[c]) \in Nat /\ Frees(call[c]) \in Nat /\ Frees(call[c]) <= Limit
    <3>1. Frees(call[c]) <= Limit
      BY <1>0, <1>2, StoreAssumption DEF Budget, Frees, Sound
    <3> QED BY <1>0, <3>1, AmountsTyped
  <2>4. /\ Owed \in Nat /\ Growth \in Nat /\ Freed \in Nat
        /\ Owed' + Owes(call[c]) = Owed /\ Growth' + Grows(call[c]) = Growth /\ Freed' + Frees(call[c]) = Freed
        /\ Owed' \in Nat /\ Growth' \in Nat /\ Freed' \in Nat
    BY <1>0, <2>2, CallSums
  <2>5. /\ StoredBytes \in Nat /\ StoredBytes' = StoredBytes
        /\ Leftover \in Nat /\ Leftover' = Leftover + Limit /\ Limit \in Nat
    BY <1>0, SumsTyped, UntouchedStored, LeftoverTyped
  <2>6. \A d \in Callers : call'[d].freed # None => call'[d].freed <= Limit
    BY <1>0, <2>2, <2>5 DEF Budget, Others
  <2>7. StoredBytes' + Growth' <= Limit
    BY <2>3, <2>4, <2>5 DEF Budget
  <2>8. Unseeded'
    BY <1>0, <2>1, <2>2, UnseededKept DEF Budget
  <2>9. Counted'
    <3> SUFFICES ASSUME used # None PROVE Counted'
      BY <2>1 DEF Counted
    <3>1. used \in Nat /\ used >= StoredBytes + Owed /\ used <= Limit + Freed + Leftover
      BY DEF Typed, Budget, Counted
    <3>2. \A u, s, o, p, a \in Nat : u >= s + o /\ p + a = o => u >= s + p
      OBVIOUS
    <3>3. \A u, k, l, f, g, b \in Nat : u <= k + f + l /\ g + b = f /\ b <= k => u <= k + g + (l + k)
      OBVIOUS
    <3>4. used >= StoredBytes + Owed'
      BY <2>3, <2>4, <2>5, <3>1, <3>2, Zenon
    <3>5. used <= Limit + Freed' + (Leftover + Limit)
      BY <2>3, <2>4, <2>5, <3>1, <3>3, Zenon
    <3> QED BY <2>1, <2>5, <3>4, <3>5 DEF Counted
  <2> QED BY <2>6, <2>7, <2>8, <2>9 DEF Budget
<1> QED BY <1>1, <1>2

\* What a row takes is stored.
LEMMA StoredParts ==
    ASSUME Typed
    PROVE  /\ \A v \in Convs : title[v] # None => title[v] <= StoredBytes
           /\ \A m \in Msgs : message[m] # None => /\ message[m].bytes <= StoredBytes
                                                   /\ message[m].tools <= StoredBytes
<1>1. ASSUME NEW v \in Convs, title[v] # None PROVE title[v] <= StoredBytes
  <2>1. TitlesBytes = SumFunctionOnSet(TitleSize, Convs \ {v}) + TitleSize[v]
    BY SumsTyped, SumRemove DEF TitlesBytes
  <2>2. Summable(TitleSize, Convs \ {v})
    BY SumsTyped, FS_RemoveElement DEF Summable
  <2>3. SumFunctionOnSet(TitleSize, Convs \ {v}) \in Nat
    BY <2>2, SumType
  <2>4. TitleSize[v] = title[v] /\ title[v] \in Nat
    BY <1>1 DEF TitleSize, Typed
  <2> QED BY <2>1, <2>3, <2>4, SumsTyped
<1>2. ASSUME NEW m \in Msgs, message[m] # None
      PROVE  message[m].bytes <= StoredBytes /\ message[m].tools <= StoredBytes
  <2>1. SumFunctionOnSet(TextSize, Msgs) = SumFunctionOnSet(TextSize, Msgs \ {m}) + TextSize[m]
    BY SumsTyped, SumRemove
  <2>2. SumFunctionOnSet(TextSize, Msgs \ {m}) \in Nat /\ TitlesBytes \in Nat
    BY SumsTyped
  <2>3. TextSize[m] = message[m].bytes + message[m].tools /\ message[m].bytes \in Nat /\ message[m].tools \in Nat
    BY <1>2 DEF TextSize, Typed, Texts
  <2>4. StoredBytes = TitlesBytes + SumFunctionOnSet(TextSize, Msgs)
    BY DEF StoredBytes
  <2> QED BY <2>1, <2>2, <2>3, <2>4
<1> QED BY <1>1, <1>2

\* A call that has read part of the rows for the seed may go on waiting.
LEMMA SeedWaits ==
    ASSUME NEW c \in Callers, Untouched, call'[c].at \in {"reserve", "fit"},
           NEW s, NEW V, call'[c].seed = s, call'[c].unread = V,
           s + TextsOf(V) >= StoredBytes, s + TextsOf(V) <= Limit
    PROVE  Waits(c)'
<1>1. StoredBytes' = StoredBytes
  BY UntouchedStored
<1>2. TextsOf(call[c].unread)' = TextsOf(V)
  BY DEF TextsOf, TextSize, Untouched
<1> QED BY <1>1, <1>2 DEF Waits

\* The budget holds whatever a call does in its turn.
LEMMA RunBudget ==
    ASSUME Typed, Turns, Rows, Budget, NEW c \in Callers, Run(c), Typed'
    PROVE  Budget'
<1>0. /\ Sound(call[c]) /\ call \in [Callers -> Records] /\ call[c] \in Records /\ Owns(c)
      /\ Moves(c) /\ Others(c) /\ Sound(call'[c])
      /\ call[c].op # "none" => call[c].conv \in Convs
  BY RunMoves DEF Typed, Rows, Moves, Sound
<1>21. StoredBytes \in Nat /\ StoredBytes <= Limit /\ Limit \in Nat
  <2>1. StoredBytes \in Nat /\ Growth \in Nat /\ Limit \in Nat
    BY <1>0, CallSums, SumsTyped, LeftoverTyped
  <2> QED BY <2>1 DEF Budget
<1>22. /\ call[c].at \notin {"write", "rewrite", "recount", "release"}
       /\ Untouched /\ used' = used /\ faults' = faults /\ End(c)
       => Budget'
  <2> SUFFICES ASSUME call[c].at \notin {"write", "rewrite", "recount", "release"},
                      Untouched, used' = used, faults' = faults, End(c)
               PROVE  Budget'
    OBVIOUS
  <2>1. call'[c] = Idle
    BY <1>0 DEF End
  <2>2. Waits(c)' /\ call'[c].freed = 0 /\ call'[c].at = "idle"
    BY <2>1, IdleWaits DEF Idle
  <2> QED BY <1>0, <1>21, <2>2, CalmKeepsBudget
<1>23. /\ call[c].at \in {"turn", "count"} /\ call'[c].at \in {"count", "reserve", "fit"}
       /\ call'[c].seed = call[c].seed /\ call'[c].freed <= Limit
       /\ Untouched /\ used' = used /\ faults' = faults
       => Budget'
  <2> SUFFICES ASSUME call[c].at \in {"turn", "count"}, call'[c].at \in {"count", "reserve", "fit"},
                      call'[c].seed = call[c].seed, call'[c].freed <= Limit,
                      Untouched, used' = used, faults' = faults
               PROVE  Budget'
    OBVIOUS
  <2>1. call'[c].seed = None
    BY <1>0 DEF Sound
  <2>2. Waits(c)'
    BY <2>1 DEF Waits
  <2> QED BY <1>0, <2>2, CalmKeepsBudget
<1>24. /\ call[c].at \in {"reserve", "fit"} /\ call'[c].at = call[c].at /\ call'[c].freed = call[c].freed
       /\ Untouched /\ used' = used /\ faults' = faults
       /\ used = None => Waits(c)'
       => Budget'
  <2> SUFFICES ASSUME call[c].at \in {"reserve", "fit"}, call'[c].at = call[c].at, call'[c].freed = call[c].freed,
                      Untouched, used' = used, faults' = faults, used = None => Waits(c)'
               PROVE  Budget'
    OBVIOUS
  <2>1. call'[c].freed # None => call'[c].freed <= Limit
    BY DEF Budget
  <2> QED BY <1>0, <2>1, CalmKeepsBudget
<1>1. CASE SeedTitles(c)
  <2>1. /\ call'[c] = [call[c] EXCEPT !.seed = TitlesBytes, !.unread = Conversations] /\ Untouched
        /\ call[c].at \in {"reserve", "fit"} /\ used' = used /\ faults' = faults
    BY <1>0, <1>1 DEF SeedTitles, Untouched, rows, Counting, At
  <2>2. /\ call'[c].at = call[c].at /\ call'[c].freed = call[c].freed
        /\ call'[c].seed = TitlesBytes /\ call'[c].unread = Conversations
    BY <1>0, <2>1 DEF Records
  <2>3. TitlesBytes + TextsOf(Conversations) >= StoredBytes /\ TitlesBytes + TextsOf(Conversations) <= Limit
    BY <1>21, AllTexts
  <2>4. Waits(c)'
    BY <2>1, <2>2, <2>3, SeedWaits
  <2> QED BY <1>24, <2>1, <2>2, <2>4
<1>2. CASE SeedTexts(c)
  <2>1. PICK v \in call[c].unread :
          call' = [call EXCEPT ![c].seed = @ + TextBytes(v), ![c].unread = @ \ {v}]
    BY <1>2 DEF SeedTexts
  <2> SUFFICES ASSUME NEW V \in SUBSET Convs, V = call[c].unread, NEW s \in Nat, s = call[c].seed
               PROVE  Budget'
    BY <1>0, <2>1 DEF Records, Sound
  <2>2. /\ call[c].at \in {"reserve", "fit"} /\ Untouched /\ used' = used /\ faults' = faults
        /\ call'[c].at = call[c].at /\ call'[c].freed = call[c].freed
        /\ call'[c].seed = s + TextBytes(v) /\ call'[c].unread = V \ {v}
    BY <1>0, <1>2, <2>1 DEF SeedTexts, Untouched, rows, Counting, At, Records
  <2>3. used = None => Waits(c)'
    <3> SUFFICES ASSUME used = None PROVE Waits(c)'
      OBVIOUS
    <3>1. s + TextsOf(V) >= StoredBytes /\ s + TextsOf(V) <= Limit
      BY <2>2, StoreAssumption DEF Budget, Unseeded, Counting, At
    <3>2. TextsOf(V) \in Nat /\ TextsOf(V) = TextsOf(V \ {v}) + TextBytes(v)
      BY <2>1, TextsRead
    <3>3. TextsOf(V \ {v}) \in Nat
      <4>1. V \ {v} \in SUBSET Convs
        OBVIOUS
      <4> QED BY <4>1, TextsRead
    <3>4. TextBytes(v) \in Nat
      BY <2>1, SumsTyped
    <3>5. /\ s + TextBytes(v) + TextsOf(V \ {v}) >= StoredBytes
          /\ s + TextBytes(v) + TextsOf(V \ {v}) <= Limit
      BY <3>1, <3>2, <3>3, <3>4
    <3> QED BY <2>2, <3>5, SeedWaits
  <2> QED BY <1>24, <2>2, <2>3
<1>3. CASE Reserve(c)
  BY <1>0, <1>3, ReserveBudget
<1>4. CASE Fit(c)
  BY <1>0, <1>4, FitBudget
<1>5. CASE CountConversations(c)
  <2>1. call[c].at = "turn" /\ Untouched /\ used' = used /\ faults' = faults /\ call[c].freed = 0
    BY <1>0, <1>5 DEF CountConversations, Starts, At, Untouched, rows, Sound
  <2>2. CASE End(c)
    BY <1>22, <2>1, <2>2
  <2>3. CASE To(c, "reserve")
    <3>1. call'[c].at = "reserve" /\ call'[c].seed = call[c].seed /\ call'[c].freed = 0
      BY <1>0, <2>1, <2>3 DEF To, Records
    <3> QED BY <1>21, <1>23, <2>1, <3>1
  <2> QED BY <1>5, <2>2, <2>3 DEF CountConversations
<1>6. CASE WriteConversation(c)
  <2> SUFFICES ASSUME NEW v \in Convs, v = call[c].conv, NEW b \in Nat, b = call[c].bytes PROVE Budget'
    BY <1>0, <1>6 DEF WriteConversation, Records
  <2>1. /\ call[c].op = "create" /\ call[c].at = "write" /\ call[c].freed = 0 /\ call'[c] = Idle
        /\ title[v] = None /\ used' = used /\ faults' = faults /\ message' = message
        /\ title' = [title EXCEPT ![v] = b]
    BY <1>0, <1>6 DEF WriteConversation, At, Sound, End, Owns
  <2>2. TitleSize[v] = 0 /\ TitleSize'[v] = b
    BY <2>1, StoreAssumption DEF TitleSize, Typed
  <2>3. \A w \in Convs \ {v} : title'[w] = title[w]
    BY <2>1 DEF Typed
  <2>4. StoredBytes' + 0 = StoredBytes + b
    BY <2>1, <2>2, <2>3, TitleStored
  <2>5. 0 \in Nat
    OBVIOUS
  <2> QED BY <1>0, <2>1, <2>4, <2>5, WriteBudget
<1>7. CASE FindConversation(c)
  <2>1. call[c].at = "turn" /\ Untouched /\ used' = used /\ faults' = faults /\ call[c].freed = 0
    BY <1>0, <1>7 DEF FindConversation, Starts, At, Untouched, rows, Sound
  <2>2. CASE End(c)
    BY <1>22, <2>1, <2>2
  <2>3. CASE To(c, "count")
    <3>1. call'[c].at = "count" /\ call'[c].seed = call[c].seed /\ call'[c].freed = 0
      BY <1>0, <2>1, <2>3 DEF To, Records
    <3> QED BY <1>21, <1>23, <2>1, <3>1
  <2> QED BY <1>7, <2>2, <2>3 DEF FindConversation
<1>8. CASE CountMessages(c)
  <2>1. call[c].at = "count" /\ Untouched /\ used' = used /\ faults' = faults /\ call[c].freed = 0
    BY <1>0, <1>8 DEF CountMessages, At, Untouched, Sound
  <2>2. CASE End(c)
    BY <1>22, <2>1, <2>2
  <2>3. CASE To(c, "reserve")
    <3>1. call'[c].at = "reserve" /\ call'[c].seed = call[c].seed /\ call'[c].freed = 0
      BY <1>0, <2>1, <2>3 DEF To, Records
    <3> QED BY <1>21, <1>23, <2>1, <3>1
  <2> QED BY <1>8, <2>2, <2>3 DEF CountMessages
<1>9. CASE WriteMessage(c)
  <2> SUFFICES ASSUME NEW m \in Msgs, m = call[c].msg, NEW b \in Nat, b = call[c].bytes PROVE Budget'
    BY <1>0, <1>9 DEF WriteMessage, Records, Sound
  <2> DEFINE new == [conv |-> call[c].conv, bytes |-> b, tools |-> 0]
  <2>1. /\ call[c].op = "add" /\ call[c].at = "write" /\ call[c].freed = 0
        /\ call'[c].at = "recount" /\ call'[c].freed = 0
        /\ message[m] = None /\ used' = used /\ faults' = faults /\ title' = title
        /\ message' = [message EXCEPT ![m] = new]
    BY <1>0, <1>9 DEF WriteMessage, At, Sound, To, Owns, Records
  <2>2. TextSize[m] = 0 /\ TextSize'[m] = b
    <3>1. message'[m] = new /\ new # None
      BY <1>0, <2>1, StoreAssumption DEF Typed
    <3> QED BY <2>1, <3>1 DEF TextSize
  <2>3. \A x \in Msgs \ {m} : message'[x] = message[x]
    BY <2>1 DEF Typed
  <2>4. StoredBytes' + 0 = StoredBytes + b
    BY <2>1, <2>2, <2>3, TextStored
  <2>5. 0 \in Nat
    OBVIOUS
  <2> QED BY <1>0, <2>1, <2>4, <2>5, WriteBudget
<1>10. CASE Recount(c)
  <2>1. /\ call[c].at = "recount" /\ Untouched /\ faults' = faults /\ used' = Released(c)
        /\ call'[c].at = "show" /\ call'[c].freed = 0
    BY <1>0, <1>10 DEF Recount, At, Untouched, rows, Records
  <2> QED BY <1>0, <2>1, ReleaseBudget
<1>11. CASE ShowCount(c)
  <2>1. call[c].at = "show" /\ Untouched /\ used' = used /\ faults' = faults /\ End(c)
    BY <1>0, <1>11 DEF ShowCount, At, Untouched
  <2> QED BY <1>22, <2>1
<1>12. CASE FindMessage(c)
  <2>1. call[c].at = "turn" /\ Untouched /\ used' = used /\ faults' = faults /\ call[c].msg \in Msgs
    BY <1>0, <1>12 DEF FindMessage, Starts, At, Untouched, rows, Sound
  <2>2. CASE End(c)
    BY <1>22, <2>1, <2>2
  <2>3. CASE ~End(c)
    <3>1. /\ message[call[c].msg] # None
          /\ call'[c].at = "fit" /\ call'[c].seed = call[c].seed /\ call'[c].freed = message[call[c].msg].bytes
      BY <1>0, <1>12, <2>3 DEF FindMessage, Records
    <3>2. message[call[c].msg].bytes <= StoredBytes /\ message[call[c].msg].bytes \in Nat
      BY <2>1, <3>1, StoredParts DEF Typed, Texts
    <3>3. call'[c].freed <= Limit
      BY <1>21, <3>1, <3>2
    <3> QED BY <1>23, <2>1, <3>1, <3>3
  <2> QED BY <2>2, <2>3
<1>13. CASE Rewrite(c)
  <2> SUFFICES ASSUME NEW m \in Msgs, m = call[c].msg, NEW b \in Nat, b = call[c].bytes,
                      NEW f \in Nat, f = call[c].freed, NEW t \in Nat, t = message[m].tools
               PROVE  Budget'
    BY <1>0, <1>13 DEF Rewrite, At, Records, Sound, Owns, Typed, Texts
  <2>1. /\ call[c].op = "update" /\ call[c].at = "rewrite"
        /\ message[m] # None /\ message[m].bytes = f /\ message[m] \in Texts
    BY <1>0, <1>13 DEF Rewrite, At, Owns, Typed
  <2>2. /\ call'[c].at = "recount" /\ call'[c].freed = f /\ used' = used /\ faults' = faults /\ title' = title
        /\ message' = [message EXCEPT ![m].bytes = b]
    BY <1>0, <1>13, <2>1 DEF Rewrite, To, Records
  <2>3. TextSize[m] = f + t /\ TextSize'[m] = b + t
    <3>1. message'[m] = [message[m] EXCEPT !.bytes = b]
      BY <2>2 DEF Typed
    <3>2. message'[m] \in Texts
      BY <2>1, <3>1 DEF Texts
    <3>3. message'[m] # None /\ message'[m].bytes = b /\ message'[m].tools = t
      BY <2>1, <3>1, <3>2, StoreAssumption DEF Texts
    <3> QED BY <2>1, <3>3 DEF TextSize
  <2>4. \A x \in Msgs \ {m} : message'[x] = message[x]
    BY <2>2 DEF Typed
  <2>5. StoredBytes' + (f + t) = StoredBytes + (b + t)
    BY <2>2, <2>3, <2>4, TextStored
  <2>6. StoredBytes' + f = StoredBytes + b
    BY <2>5, <1>21, StoredTypedNext
  <2> QED BY <1>0, <2>1, <2>2, <2>6, WriteBudget
<1>14. CASE FindTitle(c)
  <2>1. call[c].at = "turn" /\ Untouched /\ used' = used /\ faults' = faults
    BY <1>0, <1>14 DEF FindTitle, Starts, At, Untouched, rows
  <2>2. CASE End(c)
    BY <1>22, <2>1, <2>2
  <2>3. CASE ~End(c)
    <3>1. call[c].conv \in Conversations
      BY <1>14, <2>3 DEF FindTitle
    <3> SUFFICES ASSUME NEW t \in Nat, t = title[call[c].conv], NEW b \in Nat, b = call[c].bytes PROVE Budget'
      BY <1>0, <3>1 DEF Typed, Conversations, Records
    <3>2. call'[c].at = "reserve" /\ call'[c].seed = call[c].seed /\ call'[c].freed = Less(t, b)
      BY <1>0, <1>14, <2>3 DEF FindTitle, Records
    <3>3. t <= StoredBytes /\ Less(t, b) <= t /\ Less(t, b) \in Nat
      BY <3>1, StoredParts DEF Conversations, Less
    <3>4. call'[c].freed <= Limit
      BY <1>21, <3>2, <3>3
    <3> QED BY <1>23, <2>1, <3>2, <3>4
  <2> QED BY <2>2, <2>3
<1>15. CASE WriteTitle(c)
  <2> SUFFICES ASSUME NEW v \in Convs, v = call[c].conv, NEW b \in Nat, b = call[c].bytes,
                      NEW f \in Nat, f = call[c].freed, NEW t \in Nat, t = title[v]
               PROVE  Budget'
    BY <1>0, <1>15 DEF WriteTitle, At, Records, Sound, Owns, Typed, Conversations
  <2>1. call[c].op = "title" /\ call[c].at = "write" /\ v \in Conversations /\ t >= f
    BY <1>0, <1>15 DEF WriteTitle, At, Owns
  <2>2. /\ call'[c].at = "release" /\ call'[c].freed = f /\ used' = used /\ faults' = faults
        /\ message' = message /\ title' = [title EXCEPT ![v] = t + b - f]
    BY <1>0, <1>15, <2>1 DEF WriteTitle, To, Records
  <2>3. TitleSize[v] = t /\ TitleSize'[v] = t + b - f
    <3>1. t + b - f \in Nat
      BY <2>1
    <3> QED BY <2>1, <2>2, <3>1, StoreAssumption DEF TitleSize, Typed, Conversations
  <2>4. \A w \in Convs \ {v} : title'[w] = title[w]
    BY <2>2 DEF Typed
  <2>5. StoredBytes' + t = StoredBytes + (t + b - f)
    BY <2>2, <2>3, <2>4, TitleStored
  <2>6. StoredBytes' + f = StoredBytes + b
    BY <2>5, <1>21, StoredTypedNext
  <2> QED BY <1>0, <2>1, <2>2, <2>6, WriteBudget
<1>16. CASE FindTool(c)
  <2>1. call[c].at = "turn" /\ Untouched /\ used' = used /\ faults' = faults /\ call[c].msg \in Msgs
    BY <1>0, <1>16 DEF FindTool, Starts, At, Untouched, rows, Sound
  <2>2. CASE End(c)
    BY <1>22, <2>1, <2>2
  <2>3. CASE ~End(c)
    <3>1. /\ message[call[c].msg] # None
          /\ \E n \in 0..message[call[c].msg].tools : call' = [call EXCEPT ![c].at = "fit", ![c].freed = n]
      BY <1>16, <2>3 DEF FindTool
    <3>2. PICK n \in 0..message[call[c].msg].tools : call' = [call EXCEPT ![c].at = "fit", ![c].freed = n]
      BY <3>1
    <3>3. call'[c].at = "fit" /\ call'[c].seed = call[c].seed /\ call'[c].freed = n
      BY <1>0, <3>2 DEF Records
    <3>4. message[call[c].msg].tools <= StoredBytes /\ message[call[c].msg].tools \in Nat
      BY <2>1, <3>1, StoredParts DEF Typed, Texts
    <3>5. call'[c].freed <= Limit
      BY <1>21, <3>2, <3>3, <3>4
    <3> QED BY <1>23, <2>1, <3>3, <3>5
  <2> QED BY <2>2, <2>3
<1>17. CASE WriteTool(c)
  <2> SUFFICES ASSUME NEW m \in Msgs, m = call[c].msg, NEW b \in Nat, b = call[c].bytes,
                      NEW f \in Nat, f = call[c].freed, NEW t \in Nat, t = message[m].tools,
                      NEW k \in Nat, k = message[m].bytes
               PROVE  Budget'
    BY <1>0, <1>17 DEF WriteTool, At, Records, Sound, Owns, Typed, Texts
  <2>1. /\ call[c].op = "tool" /\ call[c].at = "rewrite"
        /\ message[m] # None /\ t >= f /\ message[m] \in Texts
    BY <1>0, <1>17 DEF WriteTool, At, Owns, Typed
  <2>2. /\ call'[c].at = "release" /\ call'[c].freed = f /\ used' = used /\ faults' = faults /\ title' = title
        /\ message' = [message EXCEPT ![m].tools = t + b - f]
    BY <1>0, <1>17, <2>1 DEF WriteTool, To, Records
  <2>3. TextSize[m] = k + t /\ TextSize'[m] = k + (t + b - f)
    <3>0. t + b - f \in Nat
      BY <2>1
    <3>1. message'[m] = [message[m] EXCEPT !.tools = t + b - f]
      BY <2>2 DEF Typed
    <3>2. message'[m] \in Texts
      BY <2>1, <3>0, <3>1 DEF Texts
    <3>3. message'[m] # None /\ message'[m].bytes = k /\ message'[m].tools = t + b - f
      BY <2>1, <3>1, <3>2, StoreAssumption DEF Texts
    <3> QED BY <2>1, <3>3 DEF TextSize
  <2>4. \A x \in Msgs \ {m} : message'[x] = message[x]
    BY <2>2 DEF Typed
  <2>5. StoredBytes' + (k + t) = StoredBytes + (k + (t + b - f))
    BY <2>2, <2>3, <2>4, TextStored
  <2>6. StoredBytes' + f = StoredBytes + b
    <3>1. \A x, y \in Nat : x + (k + t) = y + (k + (t + b - f)) => x + f = y + b
      OBVIOUS
    <3> QED BY <1>21, <2>5, <3>1, StoredTypedNext, Zenon
  <2> QED BY <1>0, <2>1, <2>2, <2>6, WriteBudget
<1>18. CASE FindOwner(c)
  <2>1. call[c].at = "turn" /\ Untouched /\ used' = used /\ faults' = faults
    BY <1>0, <1>18 DEF FindOwner, Starts, At, Untouched, rows
  <2>2. /\ call'[c].at = "erase" /\ call'[c].freed \in {0, None}
        /\ used = None => call'[c].freed = None
    BY <1>0, <1>18 DEF FindOwner, Records
  <2>3. used = None => Waits(c)'
    BY <2>2 DEF Waits, Counting, At
  <2> QED BY <1>0, <1>21, <2>1, <2>2, <2>3, CalmKeepsBudget
<1>19. CASE Erase(c)
  BY <1>0, <1>19, EraseBudget
<1>20. CASE Release(c)
  <2>1. /\ call[c].at = "release" /\ Untouched /\ faults' = faults /\ used' = Released(c)
        /\ call'[c].at = "idle" /\ call'[c].freed = 0
    BY <1>0, <1>20 DEF Release, At, Untouched, rows, End, Idle
  <2> QED BY <1>0, <2>1, ReleaseBudget
<1> QED BY <1>1, <1>2, <1>3, <1>4, <1>5, <1>6, <1>7, <1>8, <1>9, <1>10, <1>11, <1>12, <1>13, <1>14,
           <1>15, <1>16, <1>17, <1>18, <1>19, <1>20 DEF Run

-----------------------------------------------------------------------------
(* Every step keeps the invariant. *)

\* A call that asks for a turn changes nothing else.
LEMMA AskKeepsInv ==
    ASSUME StoreInv, NEW c \in Callers,
           AskCreate(c) \/ AskAdd(c) \/ AskErase(c) \/ AskUpdate(c) \/ AskTitle(c) \/ AskTool(c)
    PROVE  StoreInv'
<1>1. Moves(c) /\ Joins(c) /\ Typed /\ Turns /\ Rows /\ Budget /\ Caps
  BY AskCreateMoves, AskAddMoves, AskEraseMoves, AskUpdateMoves, AskTitleMoves, AskToolMoves DEF StoreInv
<1>2. /\ Untouched /\ shown' = shown /\ used' = used /\ faults' = faults
      /\ call[c].at = "idle" /\ call'[c].at = "turn" /\ call'[c].freed = 0
  <2>1. Untouched /\ shown' = shown /\ used' = used /\ faults' = faults
    BY DEF AskCreate, AskAdd, AskErase, AskUpdate, AskTitle, AskTool, Ask, rows, Untouched
  <2>2. call[c].at = "idle" /\ call'[c].at = "turn" /\ call'[c].freed = 0
    BY <1>1 DEF Moves, Joins, At, Sound
  <2> QED BY <2>1, <2>2
<1>3. RowTypes'
  BY <1>1, <1>2 DEF Typed, RowTypes, Untouched
<1>4. Typed' /\ Turns'
  BY <1>1, <1>3, MovesKeepTypes
<1>5. Rows'
  BY <1>1, AskKeepsRows
<1>6. Budget'
  <2>1. Waits(c)'
    BY <1>2 DEF Waits, Counting, At
  <2>2. Others(c) /\ call'[c].freed <= Limit
    BY <1>1, <1>2, StoreAssumption DEF Moves
  <2> QED BY <1>1, <1>2, <1>4, <2>1, <2>2, CalmKeepsBudget
<1>7. Caps'
  <2>1. HasRoom(c)'
    BY <1>2 DEF HasRoom
  <2>2. SameCounts
    BY <1>2, UntouchedCounts
  <2>3. faults' >= faults
    BY <1>1, <1>2, StoreAssumption DEF Typed
  <2> QED BY <1>1, <1>2, <2>1, <2>2, <2>3, SameCountsKeepCaps
<1> QED BY <1>4, <1>5, <1>6, <1>7 DEF StoreInv

\* So does a caller that is dropped while it waits.
LEMMA LeaveKeepsInv ==
    ASSUME StoreInv, NEW c \in Callers, Leave(c)
    PROVE  StoreInv'
<1>1. Moves(c) /\ Quits(c) /\ Typed /\ Turns /\ Rows /\ Budget /\ Caps
  BY LeaveMoves DEF StoreInv
<1>2. /\ Untouched /\ shown' = shown /\ used' = used /\ faults' = faults
      /\ call[c].at = "turn" /\ call'[c] = Idle
  BY <1>1 DEF Leave, rows, Untouched, At, End, Typed
<1>3. RowTypes'
  BY <1>1, <1>2 DEF Typed, RowTypes, Untouched
<1>4. Typed' /\ Turns'
  BY <1>1, <1>3, MovesKeepTypes
<1>5. Rows'
  BY <1>1, <1>2, QuitsOwn
<1>6. Budget'
  <2>1. Waits(c)' /\ call'[c].freed = 0 /\ call'[c].at = "idle"
    BY <1>2, IdleWaits DEF Idle
  <2>2. Others(c) /\ call'[c].freed <= Limit
    BY <1>1, <2>1, StoreAssumption DEF Moves
  <2> QED BY <1>1, <1>2, <1>4, <2>1, <2>2, CalmKeepsBudget
<1>7. Caps'
  <2>1. HasRoom(c)'
    BY <1>2, EndHasRoom
  <2>2. SameCounts
    BY <1>2, UntouchedCounts
  <2>3. faults' >= faults
    BY <1>1, <1>2, StoreAssumption DEF Typed
  <2> QED BY <1>1, <1>2, <2>1, <2>2, <2>3, SameCountsKeepCaps
<1> QED BY <1>4, <1>5, <1>6, <1>7 DEF StoreInv

\* A step of a call in its turn keeps the invariant.
LEMMA RunKeepsInv ==
    ASSUME StoreInv, NEW c \in Callers, Run(c)
    PROVE  StoreInv'
<1>1. Moves(c) /\ Typed /\ Turns /\ Rows /\ Budget /\ Caps
  BY RunMoves DEF StoreInv
<1>2. RowTypes'
  BY <1>1, RunTypesRows
<1>3. Typed' /\ Turns'
  BY <1>1, <1>2, MovesKeepTypes
<1>4. Rows' /\ Budget' /\ Caps'
  BY <1>1, <1>3, RunRows, RunBudget, RunCaps
<1> QED BY <1>3, <1>4 DEF StoreInv

\* A call that fails ends, and leaves its count, counted bytes and rows as the caps and the budget allow.
LEMMA FailKeepsInv ==
    ASSUME StoreInv, NEW c \in Callers, Fail(c)
    PROVE  StoreInv'
<1>1. Moves(c) /\ Quits(c) /\ Typed /\ Turns /\ Rows /\ Budget /\ Caps
  BY FailMoves DEF StoreInv
<1>2. Untouched /\ shown' = shown /\ faults' = faults + 1 /\ call'[c] = Idle
  BY <1>1 DEF Fail, rows, Untouched, End, Typed
<1>3. RowTypes'
  BY <1>1, FailTypesRows
<1>4. Typed' /\ Turns'
  BY <1>1, <1>3, MovesKeepTypes
<1>5. Rows'
  BY <1>1, <1>2, QuitsOwn
<1>6. Budget'
  BY <1>1, <1>4, FailBudget
<1>7. Caps'
  <2>1. HasRoom(c)'
    BY <1>2, EndHasRoom
  <2>2. SameCounts
    BY <1>2, UntouchedCounts
  <2>3. faults' > faults /\ faults' >= faults
    BY <1>1, <1>2, StoreAssumption DEF Typed
  <2> QED BY <1>1, <1>2, <2>1, <2>2, <2>3, SameCountsKeepCaps
<1> QED BY <1>4, <1>5, <1>6, <1>7 DEF StoreInv

\* Where no call is under way, no turn is taken and nothing counted, the calls are as they should be.
LEMMA AllIdle ==
    ASSUME turn = [k \in Keys |-> <<>>], call = [c \in Callers |-> Idle], used = None
    PROVE  /\ call \in [Callers -> Records] /\ \A c \in Callers : Sound(call[c]) /\ Owns(c) /\ HasRoom(c)
           /\ Turns /\ Unseeded /\ Counted /\ Growth = 0
           /\ \A c \in Callers : call[c].freed = 0
<1>1. /\ call \in [Callers -> Records] /\ \A c \in Callers : call[c] = Idle /\ Sound(call[c])
  BY IdleSound
<1>2. \A c \in Callers : call[c].at = "idle" /\ call[c].op = "none" /\ call[c].freed = 0
  BY <1>1 DEF Idle
<1>3. Turns
  <2>1. /\ <<>> \in Seq(Callers) /\ Len(<<>>) = 0 /\ IsQueue(<<>>, Callers)
        /\ \A c \in Callers : c \notin ToSet(<<>>)
    <3>1. <<>> \in Seq(Callers) /\ Len(<<>>) = 0 /\ DOMAIN <<>> = {}
      OBVIOUS
    <3>2. IsQueue(<<>>, Callers)
      BY <3>1 DEF IsQueue, IsInjective
    <3>3. ToSet(<<>>) = {}
      BY <3>1 DEF ToSet
    <3> QED BY <3>1, <3>2, <3>3
  <2>2. \A k \in Keys : turn[k] = <<>>
    OBVIOUS
  <2>3. turn \in [Keys -> Seq(Callers)]
    BY <2>1
  <2> QED BY <1>2, <2>1, <2>2, <2>3 DEF Turns, At
<1>4. \A c \in Callers : Owns(c) /\ HasRoom(c)
  BY <1>2 DEF Owns, HasRoom
<1>5. Unseeded /\ Counted
  BY <1>2 DEF Unseeded, Counted, Counting, At
<1>6. Growth = 0
  <2> DEFINE g == [d \in Callers |-> Grows(call[d])]
  <2>1. \A d \in Callers : g[d] = 0
    BY <1>2 DEF Grows
  <2>2. Summable(g, Callers)
    BY <2>1, StoreAssumption DEF Summable
  <2> HIDE DEF g
  <2>3. SumFunctionOnSet(g, Callers) = 0
    BY <2>1, <2>2, SumZero
  <2> QED BY <2>3 DEF Growth, g
<1> QED BY <1>1, <1>2, <1>3, <1>4, <1>5, <1>6

\* A restart forgets the calls, the turns and the counter.
LEMMA RestartKeepsInv ==
    ASSUME StoreInv, Restart
    PROVE  StoreInv'
<1>1. Typed /\ Turns /\ Rows /\ Budget /\ Caps
  BY DEF StoreInv
<1>2. /\ Untouched /\ shown' = shown /\ faults' = faults + 1 /\ faults' \in 0..MaxFaults
      /\ used' = None /\ turn' = [k \in Keys |-> <<>>] /\ call' = [c \in Callers |-> Idle]
      /\ faults \in Nat
  BY <1>1, StoreAssumption DEF Restart, rows, Untouched, Typed
<1>3. (turn = [k \in Keys |-> <<>>] /\ call = [c \in Callers |-> Idle] /\ used = None =>
          /\ call \in [Callers -> Records] /\ \A c \in Callers : Sound(call[c]) /\ Owns(c) /\ HasRoom(c)
          /\ Turns /\ Unseeded /\ Counted /\ Growth = 0
          /\ \A c \in Callers : call[c].freed = 0)'
  BY AllIdle, PTL
<1>4. /\ call' \in [Callers -> Records] /\ \A c \in Callers : Sound(call'[c]) /\ Owns(c)' /\ HasRoom(c)'
      /\ Turns' /\ Unseeded' /\ Counted' /\ Growth' = 0
      /\ \A c \in Callers : call'[c].freed = 0
  BY <1>2, <1>3
<1>5. Typed'
  BY <1>1, <1>2, <1>4 DEF Typed, Untouched
<1>6. Rows'
  BY <1>1, <1>2, <1>4 DEF Rows, Untouched
<1>7. Budget'
  <2>1. StoredBytes \in Nat /\ Growth \in Nat /\ Limit \in Nat
    <3>1. \A c \in Callers : Grows(call[c]) \in Nat
      BY <1>1, AmountsTyped DEF Typed
    <3>2. Summable([c \in Callers |-> Grows(call[c])], Callers)
      BY <3>1, StoreAssumption DEF Summable
    <3> QED BY <1>1, <3>2, SumsTyped, SumType, StoreAssumption DEF Growth
  <2>2. StoredBytes' = StoredBytes
    BY <1>2, UntouchedStored
  <2>3. StoredBytes' + Growth' <= Limit
    BY <1>1, <1>4, <2>1, <2>2 DEF Budget
  <2> QED BY <1>4, <2>1, <2>3 DEF Budget
<1>8. Caps'
  <2>1. SameCounts
    BY <1>2, UntouchedCounts
  <2> QED BY <1>1, <1>2, <1>4, <2>1 DEF Caps, SameCounts
<1> QED BY <1>4, <1>5, <1>6, <1>7, <1>8 DEF StoreInv

\* An empty store satisfies it.
LEMMA InitStoreInv == Init => StoreInv
<1> SUFFICES ASSUME Init PROVE StoreInv
  OBVIOUS
<1>1. /\ call \in [Callers -> Records] /\ \A c \in Callers : Sound(call[c]) /\ Owns(c) /\ HasRoom(c)
      /\ Turns /\ Unseeded /\ Counted /\ Growth = 0
      /\ \A c \in Callers : call[c].freed = 0
  BY AllIdle DEF Init
<1>2. Typed
  BY <1>1, StoreAssumption DEF Init, Typed
<1>3. Rows
  BY <1>1 DEF Init, Rows
<1>4. Budget
  <2>1. \A v \in Convs : TitleSize[v] = 0
    BY DEF Init, TitleSize
  <2>2. \A m \in Msgs : TextSize[m] = 0
    BY DEF Init, TextSize
  <2>3. SumFunctionOnSet(TitleSize, Convs) = 0 /\ SumFunctionOnSet(TextSize, Msgs) = 0
    BY <1>2, <2>1, <2>2, SumsTyped, SumZero
  <2>4. StoredBytes = 0
    BY <2>3 DEF StoredBytes, TitlesBytes
  <2> QED BY <1>1, <2>4, StoreAssumption DEF Budget
<1>5. Caps
  <2>1. Conversations = {} /\ \A v \in Convs : MessagesOf(v) = {}
    BY DEF Init, Conversations, MessagesOf
  <2>2. Cardinality({}) = 0
    BY FS_EmptySet
  <2>3. \A v \in Convs : shown[v] = 0
    BY DEF Init
  <2> QED BY <1>1, <2>1, <2>2, <2>3, CountsTyped, StoreAssumption DEF Caps
<1> QED BY <1>1, <1>2, <1>3, <1>4, <1>5 DEF StoreInv

\* Every step keeps the invariant: each call's step, a restart, and none.
LEMMA NextStoreInv == StoreInv /\ [Next]_vars => StoreInv'
<1> SUFFICES ASSUME StoreInv, [Next]_vars PROVE StoreInv'
  OBVIOUS
<1>1. CASE UNCHANGED vars
  <2>1. /\ title' = title /\ message' = message /\ shown' = shown /\ used' = used /\ turn' = turn
        /\ call' = call /\ faults' = faults
    BY <1>1 DEF vars
  <2>2. Typed'
    BY <2>1 DEF StoreInv, Typed
  <2>3. Turns'
    BY <2>1 DEF StoreInv, Turns, HasTurn, Key, At
  <2>4. Rows'
    BY <2>1 DEF StoreInv, Rows, Owns, Conversations, MessagesOf
  <2>5. Budget'
    BY <2>1 DEF StoreInv, Budget, Counted, Unseeded, StoredBytes, TitlesBytes, TitleSize, TextSize, TextsOf, Growth,
       Owed, Freed, Leftover, Counting, At
  <2>6. Caps'
    BY <2>1 DEF StoreInv, Caps, HasRoom, Recounted, Conversations, MessagesOf
  <2> QED BY <2>2, <2>3, <2>4, <2>5, <2>6 DEF StoreInv
<1>2. CASE Next
  BY <1>2, AskKeepsInv, LeaveKeepsInv, RunKeepsInv, FailKeepsInv, RestartKeepsInv DEF Next
<1> QED BY <1>1, <1>2

-----------------------------------------------------------------------------
(* The theorems. *)

\* The invariant holds in every reachable state, for every number of calls, conversations, messages and faults.
THEOREM StoreInductive == Spec => []StoreInv
BY InitStoreInv, NextStoreInv, PTL DEF Spec

\* What is counted is bounded: by the limit, what the calls under way are to release, and the limit
\* again for each fault.
LEMMA CountedBound ==
    ASSUME StoreInv, used # None
    PROVE  used \in Bytes
<1>1. Typed /\ Budget /\ Limit \in Nat /\ Cardinality(Callers) \in Nat /\ MaxFaults \in Nat
  BY StoreAssumption, CountsTyped DEF StoreInv
<1> DEFINE f == [d \in Callers |-> Frees(call[d])]
<1>2. \A d \in Callers : f[d] \in Nat /\ f[d] <= Limit
  <2> SUFFICES ASSUME NEW d \in Callers PROVE Frees(call[d]) \in Nat /\ Frees(call[d]) <= Limit
    OBVIOUS
  <2>1. Sound(call[d]) /\ (call[d].freed # None => call[d].freed <= Limit)
    BY <1>1 DEF Typed, Budget
  <2>2. Frees(call[d]) \in Nat
    BY <2>1, AmountsTyped
  <2>3. Frees(call[d]) <= Limit
    BY <1>1, <2>1 DEF Frees, Sound
  <2> QED BY <2>2, <2>3
<1>3. Summable(f, Callers)
  BY <1>2, StoreAssumption DEF Summable
<1>4. Freed = SumFunctionOnSet(f, Callers)
  BY DEF Freed
<1> HIDE DEF f
<1>5. Freed \in Nat /\ Freed <= Cardinality(Callers) * Limit
  BY <1>1, <1>2, <1>3, <1>4, SumBound, SumType
<1>6. Leftover \in Nat /\ Leftover <= MaxFaults * Limit
  <2>1. faults \in Nat /\ faults <= MaxFaults
    BY <1>1 DEF Typed
  <2>2. \A n, m, l \in Nat : n <= m => n * l \in Nat /\ n * l <= m * l
    OBVIOUS
  <2> QED BY <1>1, <2>1, <2>2 DEF Leftover
<1>7. used \in Nat /\ used <= Limit + Freed + Leftover
  BY <1>1 DEF Typed, Budget, Counted
<1>8. Cardinality(Callers) * Limit \in Nat /\ MaxFaults * Limit \in Nat
  BY <1>1
<1> QED BY <1>1, <1>5, <1>6, <1>7, <1>8 DEF Bytes

\* Types and turns: whatever calls do, drop or fail at, a call that changes rows holds its turn and is
\* the first in it, a call is in no other queue and in none twice, and the rows and the counter keep to
\* their bounds.
THEOREM StoreTypeCorrect == Spec => []TypeOK
<1>1. StoreInv => TypeOK
  <2> SUFFICES ASSUME StoreInv PROVE TypeOK
    OBVIOUS
  <2>1. Typed /\ Turns /\ Rows /\ Budget /\ Caps
    BY DEF StoreInv
  <2>2. StoredBytes \in Nat /\ StoredBytes <= Limit /\ Limit \in Nat
    <3>1. \A c \in Callers : Grows(call[c]) \in Nat
      BY <2>1, AmountsTyped DEF Typed
    <3>2. Summable([c \in Callers |-> Grows(call[c])], Callers)
      BY <3>1, StoreAssumption DEF Summable
    <3>3. Growth \in Nat /\ StoredBytes \in Nat
      BY <2>1, <3>2, SumsTyped, SumType DEF Growth
    <3> QED BY <2>1, <3>3, StoreAssumption DEF Budget
  <2>3. message \in [Msgs -> [conv : Convs, bytes : 0..Limit, tools : 0..Limit] \union {None}]
    <3>1. \A m \in Msgs : message[m] \in [conv : Convs, bytes : 0..Limit, tools : 0..Limit] \union {None}
      <4> SUFFICES ASSUME NEW m \in Msgs, message[m] # None
                   PROVE  message[m] \in [conv : Convs, bytes : 0..Limit, tools : 0..Limit]
        OBVIOUS
      <4>1. message[m] \in Texts
        BY <2>1 DEF Typed
      <4>2. message[m].bytes <= StoredBytes /\ message[m].tools <= StoredBytes
        BY <2>1, StoredParts
      <4>3. message[m].bytes \in 0..Limit /\ message[m].tools \in 0..Limit
        BY <2>2, <4>1, <4>2 DEF Texts
      <4> QED BY <4>1, <4>3 DEF Texts
    <3> QED BY <2>1, <3>1 DEF Typed
  <2>4. shown \in [Convs -> 0..Cardinality(Msgs)]
    BY <2>1, CountsTyped DEF Typed, Caps
  <2>5. used \in Bytes \union {None}
    BY CountedBound
  <2>6. \A c \in Callers :
          /\ call[c].op \in {"none", "create", "add", "update", "title", "tool", "clear", "delete"}
          /\ call[c].at \in Steps
          /\ call[c].conv \in Convs \union {None} /\ call[c].msg \in Msgs \union {None}
          /\ call[c].unread \subseteq Convs /\ call[c].seed \in Nat \union {None}
    BY <2>1 DEF Typed, Records, Ops
  <2>7. \A k \in Keys : IsInjective(turn[k])
    <3> SUFFICES ASSUME NEW k \in Keys PROVE IsInjective(turn[k])
      OBVIOUS
    <3>1. IsQueue(turn[k], Callers)
      BY <2>1 DEF Turns
    <3> QED BY <3>1 DEF IsQueue, IsInjective
  <2> QED BY <2>1, <2>3, <2>4, <2>5, <2>6, <2>7 DEF TypeOK, Typed, Turns, Rows
<1> QED BY <1>1, StoreInductive, PTL

\* A session never stores more than session_db_bytes, and the counter never says less than what is
\* stored and what calls are about to store.
THEOREM StoreKeepsBudget == Spec => []BudgetKept
<1>1. StoreInv => BudgetKept
  <2> SUFFICES ASSUME StoreInv PROVE BudgetKept
    OBVIOUS
  <2>1. Typed /\ Budget
    BY DEF StoreInv
  <2> DEFINE o == [c \in Callers |-> Owes(call[c])]
             g == [c \in Callers |-> Grows(call[c])]
             p == [c \in Callers |-> Promised(c)]
  <2>2. \A c \in Callers : o[c] \in Nat /\ g[c] \in Nat /\ p[c] \in Nat /\ p[c] <= o[c]
    <3> SUFFICES ASSUME NEW c \in Callers
                 PROVE  Owes(call[c]) \in Nat /\ Grows(call[c]) \in Nat /\ Promised(c) \in Nat /\ Promised(c) <= Owes(call[c])
      OBVIOUS
    <3>1. Sound(call[c])
      BY <2>1 DEF Typed
    <3>2. Owes(call[c]) \in Nat /\ Grows(call[c]) \in Nat
      BY <3>1, AmountsTyped
    <3>3. Promised(c) \in Nat /\ Promised(c) <= Owes(call[c])
      BY <3>1, <3>2 DEF Promised, Owes, At, Sound, Records
    <3> QED BY <3>2, <3>3
  <2>3. Owed = SumFunctionOnSet(o, Callers) /\ Growth = SumFunctionOnSet(g, Callers)
    BY DEF Owed, Growth
  <2> HIDE DEF o, g, p
  <2>4. Summable(o, Callers) /\ Summable(g, Callers)
    BY <2>2, StoreAssumption DEF Summable
  <2>5. Summable(p, Callers) /\ SumFunctionOnSet(p, Callers) <= Owed
    BY <2>2, <2>3, <2>4, SumLess
  <2>6. Owed \in Nat /\ Growth \in Nat /\ SumFunctionOnSet(p, Callers) \in Nat /\ StoredBytes \in Nat /\ Limit \in Nat
    BY <2>1, <2>3, <2>4, <2>5, SumType, SumsTyped, StoreAssumption
  <2>7. StoredBytes <= Limit
    BY <2>1, <2>6 DEF Budget
  <2>8. used # None => used >= StoredBytes + SumFunctionOnSet(p, Callers)
    <3> SUFFICES ASSUME used # None PROVE used >= StoredBytes + SumFunctionOnSet(p, Callers)
      OBVIOUS
    <3>1. used \in Nat /\ used >= StoredBytes + Owed
      BY <2>1 DEF Typed, Budget, Counted
    <3> QED BY <2>5, <2>6, <3>1
  <2> QED BY <2>7, <2>8 DEF BudgetKept, p
<1> QED BY <1>1, StoreInductive, PTL

\* No number of calls together passes conversations_per_session or messages_per_conversation, no message
\* outlives its conversation, and where nothing failed a message_count at rest is right.
THEOREM StoreKeepsCaps == Spec => []CapsKept
<1>1. StoreInv => CapsKept
  <2> SUFFICES ASSUME StoreInv PROVE CapsKept
    OBVIOUS
  <2>1. Typed /\ Turns /\ Rows /\ Caps
    BY DEF StoreInv
  <2>2. \A v \in Convs \ Conversations : MessagesOf(v) = {}
    BY <2>1 DEF Rows, Conversations, MessagesOf
  <2>3. ASSUME faults = 0, NEW v \in Conversations, turn[v] = <<>>
        PROVE  shown[v] = Cardinality(MessagesOf(v))
    <3>1. Recounted(v) /\ v \in Keys /\ v \in Convs
      BY <2>1, <2>3 DEF Caps, Conversations, Keys
    <3>2. ASSUME NEW c \in Callers, call[c].conv = v, call[c].at \in {"recount", "show"} PROVE FALSE
      <4>1. Sound(call[c]) /\ call[c].op # "create" /\ ~At(c, "idle")
        BY <2>1, <3>2 DEF Typed, Sound, OnPath, At
      <4>2. Key(c) = v
        BY <3>2, <4>1 DEF Key
      <4>3. HasTurn(c)
        BY <2>1, <3>2 DEF Turns
      <4> QED BY <2>3, <4>2, <4>3 DEF HasTurn
    <3> QED BY <3>1, <3>2 DEF Recounted
  <2> QED BY <2>1, <2>2, <2>3 DEF CapsKept, Caps
<1> QED BY <1>1, StoreInductive, PTL
=============================================================================
