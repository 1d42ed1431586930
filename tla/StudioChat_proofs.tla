--------------------------- MODULE StudioChat_proofs ---------------------------
(***************************************************************************)
(* For any conversations, texts, slots and bounds: the variables keep their*)
(* types, the conversations and their messages add up, a quiet page shows  *)
(* what is stored, and no text submitted alone is lost until another       *)
(* submission begins.                                                      *)
(***************************************************************************)
EXTENDS StudioChat, FiniteSetTheorems, TLAPS

\* What a request carries, by what it is for and how far it is.
Fits(r) ==
    /\ r.op \notin {"none", "create"} => r.conv \in Convs
    /\ r.op = "create" =>
          /\ r.pc \in {"asked", "ok", "failed"}
          /\ r.pc = "ok" => r.conv \in Convs
    /\ r.op \in {"send", "edit"} => r.text \in Texts
    /\ r.op \in {"edit", "regenerate"} => r.id \in Ids
    /\ r.op = "regenerate" /\ r.pc = "thinking" => r.text \in Texts
    /\ r.op = "send" /\ r.pc \in {"thinking", "stored", "ok", "undone"} => r.id \in 1..begun

\* The inductive invariant of the server.  A send that is thinking has a
\* turn of its own, which is not stored.
ServerInv ==
    /\ conv \in [Convs -> ConvType]
    /\ turn \in [Ids -> TurnType]
    /\ begun \in 0..MaxTurns
    /\ call \in [Slots -> CallType]
    /\ \A s \in Slots : Fits(call[s])
    /\ \A s \in Slots : Thought(s, "send") => turn[call[s].id] = NoTurn
    /\ \A s, r \in Slots :
          Thought(s, "send") /\ Thought(r, "send") /\ call[s].id = call[r].id => s = r
    /\ \A i \in Ids : turn[i] # NoTurn =>
          /\ IsOpen(turn[i].conv)
          /\ turn[i].said \in Texts /\ turn[i].reply \in Texts
          /\ i <= begun
    /\ \A c \in Convs : conv[c].count = 2 * Cardinality(TurnsOf(c))

\* What the page waits for is what it asked the server for.
Awaited(s) ==
    /\ pend[s].pc \in {"reading", "creating", "posting"} => s \in Sends /\ pend[s].text \in Texts
    /\ pend[s].pc = "creating" => call[s].op = "create"
    /\ pend[s].pc = "posting" =>
          call[s].op = "send" /\ call[s].conv = pend[s].conv /\ call[s].text = pend[s].text
    /\ pend[s].pc \in {"posting", "waiting", "leaving"} => pend[s].conv \in Convs

PageInv ==
    /\ url \in {"chat", "new"}
    /\ active \in Convs \cup {None}
    /\ url = "new" => active = None
    /\ draft \in Texts \cup {None}
    /\ detail \in [Convs -> DetailType \cup {None}]
    /\ fetch \in [Convs -> FetchType]
    /\ pend \in [Slots -> PendType]
    /\ missed \subseteq Convs
    /\ due \subseteq Texts
    /\ \A s \in Slots : Awaited(s)

IInv == ServerInv /\ PageInv

-----------------------------------------------------------------------------
(* The server *)

LEMMA Constants ==
    /\ None \notin Convs /\ None \notin Texts
    /\ Sends \subseteq Slots
    /\ Slots = Sends \cup {"edit", "regenerate", "delete"}
    /\ Sends \cap {"edit", "regenerate", "delete"} = {}
    /\ MaxTurns \in Nat
    /\ Drafts \subseteq Texts /\ Edits \subseteq Texts
  BY ChatAssumption, PageAssumption

LEMMA TurnsAreFinite ==
    ASSUME NEW c
    PROVE  /\ IsFiniteSet(TurnsOf(c))
           /\ Cardinality(TurnsOf(c)) \in Nat
<1>1. IsFiniteSet(Ids)
  BY Constants, FS_Interval DEF Ids
<1>2. TurnsOf(c) \subseteq Ids
  BY DEF TurnsOf
<1> QED
  BY <1>1, <1>2, FS_Subset, FS_CardinalityType

LEMMA InitIInv == Init => IInv
<1> SUFFICES ASSUME Init PROVE IInv
  OBVIOUS
<1>1. \A c \in Convs : TurnsOf(c) = {}
  BY Constants DEF Init, ServerInit, TurnsOf, NoTurn
<1>2. \A c \in Convs : conv[c].count = 2 * Cardinality(TurnsOf(c))
  BY <1>1, FS_EmptySet DEF Init, ServerInit, NoConv
<1>3. ServerInv
  BY <1>2, Constants DEF Init, ServerInit, ServerInv, ConvType, TurnType, CallType, Over,
     Fits, Thought, NoConv, NoTurn, NoCall
<1>4. PageInv
  BY Constants DEF Init, ServerInit, PageInv, Awaited, FetchType, PendType, NoFetch, NoPend
<1> QED
  BY <1>3, <1>4 DEF IInv

\* A request that is changed, but not to think about a message to send,
\* leaves the server as it is.
LEMMA CallChanges ==
    ASSUME ServerInv, NEW s \in Slots,
           call' \in [Slots -> CallType], \A q \in Slots : q # s => call'[q] = call[q],
           Fits(call[s])', ~Thought(s, "send")', UNCHANGED <<conv, turn, begun>>
    PROVE  ServerInv'
<1>1. \A q \in Slots : Fits(call[q])'
  BY DEF ServerInv, Fits
<1>2. \A q \in Slots : Thought(q, "send")' => Thought(q, "send") /\ call'[q] = call[q]
  BY DEF ServerInv, Thought
<1>3. \A c \in Convs : TurnsOf(c)' = TurnsOf(c)
  BY DEF TurnsOf
<1>4. \A c : IsOpen(c)' <=> IsOpen(c)
  BY DEF IsOpen
<1> QED
  BY <1>1, <1>2, <1>3, <1>4 DEF ServerInv

LEMMA CallParts ==
    ASSUME ServerInv, NEW s \in Slots
    PROVE  /\ call \in [Slots -> CallType]
           /\ call[s] = [op |-> call[s].op, pc |-> call[s].pc, conv |-> call[s].conv,
                         id |-> call[s].id, text |-> call[s].text]
           /\ call[s].op \in {"none", "create", "send", "edit", "regenerate", "delete"}
           /\ call[s].pc \in {"idle", "asked", "thinking", "stored"} \cup Over
           /\ call[s].conv \in Convs \cup {None}
           /\ call[s].id \in Ids \cup {None}
           /\ call[s].text \in Texts \cup {None}
           /\ Fits(call[s])
  BY DEF ServerInv, CallType

LEMMA AnswerParts ==
    ASSUME ServerInv, NEW s \in Slots, NEW how \in {"thinking", "stored"} \cup Over, Answer(s, how)
    PROVE  /\ call' \in [Slots -> CallType]
           /\ \A q \in Slots : q # s => call'[q] = call[q]
           /\ call'[s].pc = how
           /\ call'[s].op = call[s].op
           /\ call'[s].conv = call[s].conv
           /\ call'[s].id = call[s].id
           /\ call'[s].text = call[s].text
  BY CallParts DEF Answer, CallType

LEMMA AnswerKeeps ==
    ASSUME ServerInv, NEW s \in Slots, NEW how \in {"thinking", "stored"} \cup Over, Answer(s, how),
           UNCHANGED <<conv, turn, begun>>,
           how = "thinking" => call[s].op = "delete",
           how # "failed" => call[s].op # "create",
           how \in {"stored", "ok", "undone"} /\ call[s].op = "send" => call[s].pc = "stored"
    PROVE  ServerInv'
<1>1. Fits(call[s])'
  BY CallParts, AnswerParts DEF Fits, Over
<1>2. ~Thought(s, "send")'
  BY AnswerParts, CallParts DEF Thought, Over
<1> QED
  BY <1>1, <1>2, AnswerParts, CallChanges

LEMMA CreateKeeps ==
    ASSUME ServerInv, NEW s \in Slots, Create(s)
    PROVE  ServerInv'
<1>1. PICK c \in Convs :
        /\ conv[c].state = "absent"
        /\ conv' = [conv EXCEPT ![c] = [state |-> "open", count |-> 0]]
        /\ Becomes(s, "ok", c, None, None)
  BY DEF Create
<1>2. /\ Asked(s, "create") /\ UNCHANGED <<turn, begun>>
  BY DEF Create
<1>3. /\ call' \in [Slots -> CallType]
      /\ \A q \in Slots : q # s => call'[q] = call[q]
      /\ call'[s] = [op |-> call[s].op, pc |-> "ok", conv |-> c, id |-> None, text |-> None]
  BY <1>1, CallParts DEF Becomes, CallType, Over
<1>4. call[s].op = "create"
  BY <1>2 DEF Asked
<1>5. \A q \in Slots : Fits(call[q])'
  BY <1>2, <1>3, <1>4 DEF ServerInv, Fits
<1>6. \A q \in Slots : Thought(q, "send")' => Thought(q, "send") /\ call'[q] = call[q]
  BY <1>3, <1>4 DEF Thought
<1>7. \A d \in Convs : TurnsOf(d)' = TurnsOf(d)
  BY <1>2 DEF TurnsOf
<1>8. \A d : IsOpen(d) => IsOpen(d)'
  BY <1>1 DEF IsOpen, ServerInv
<1>9. conv' \in [Convs -> ConvType]
  BY <1>1 DEF ServerInv, ConvType
<1>10. TurnsOf(c) = {}
  <2> SUFFICES ASSUME NEW i \in Ids, turn[i].conv = c PROVE FALSE
    BY DEF TurnsOf
  <2>1. turn[i] # NoTurn
    BY Constants DEF NoTurn
  <2> QED
    BY <1>1, <2>1 DEF ServerInv, IsOpen
<1>11. \A d \in Convs : conv'[d].count = 2 * Cardinality(TurnsOf(d))
  <2> TAKE d \in Convs
  <2>1. CASE d = c
    <3>1. conv'[d].count = 0
      BY <1>1, <2>1 DEF ServerInv
    <3>2. Cardinality(TurnsOf(d)) = 0
      BY <1>10, <2>1, FS_EmptySet
    <3> QED
      BY <3>1, <3>2
  <2>2. CASE d # c
    BY <1>1, <2>2 DEF ServerInv
  <2> QED
    BY <2>1, <2>2
<1> QED
  BY <1>2, <1>3, <1>5, <1>6, <1>7, <1>8, <1>9, <1>11 DEF ServerInv

LEMMA ResolveSendKeeps ==
    ASSUME ServerInv, NEW s \in Slots, ResolveSend(s)
    PROVE  ServerInv'
<1>1. /\ call[s].op = "send" /\ begun < MaxTurns /\ begun' = begun + 1
      /\ UNCHANGED <<conv, turn>>
      /\ Becomes(s, "thinking", call[s].conv, begun + 1, call[s].text)
  BY DEF ResolveSend, Asked
<1>2. begun \in Nat /\ begun + 1 \in Ids /\ begun' \in 0..MaxTurns
  BY <1>1, Constants DEF ServerInv, Ids
<1>3. /\ call' \in [Slots -> CallType]
      /\ \A q \in Slots : q # s => call'[q] = call[q]
      /\ call'[s] = [op |-> "send", pc |-> "thinking", conv |-> call[s].conv,
                     id |-> begun + 1, text |-> call[s].text]
  BY <1>1, <1>2, CallParts DEF Becomes, CallType
<1>4. \A q \in Slots : Fits(call[q])'
  <2> TAKE q \in Slots
  <2>1. CASE q = s
    <3>1. call[s].conv \in Convs /\ call[s].text \in Texts
      BY <1>1, CallParts DEF Fits
    <3>2. begun + 1 \in 1..begun'
      BY <1>1, <1>2
    <3> QED
      BY <1>3, <2>1, <3>1, <3>2 DEF Fits
  <2>2. CASE q # s
    <3>1. call'[q] = call[q] /\ Fits(call[q])
      BY <1>3, <2>2 DEF ServerInv
    <3> QED
      BY <1>1, <1>2, <3>1 DEF Fits
  <2> QED
    BY <2>1, <2>2
<1>5. turn[begun + 1] = NoTurn
  BY <1>2 DEF ServerInv
<1>6. \A q \in Slots : q # s /\ Thought(q, "send")' =>
        Thought(q, "send") /\ call'[q] = call[q] /\ call[q].id \in 1..begun
  BY <1>3, CallParts DEF Thought, Fits
<1>7. \A q \in Slots : Thought(q, "send")' => turn'[call'[q].id] = NoTurn
  BY <1>1, <1>3, <1>5, <1>6 DEF ServerInv
<1>8. \A q, r \in Slots :
        Thought(q, "send")' /\ Thought(r, "send")' /\ call'[q].id = call'[r].id => q = r
  <2> SUFFICES ASSUME NEW q \in Slots, NEW r \in Slots, Thought(q, "send")', Thought(r, "send")',
                      call'[q].id = call'[r].id, q # r
               PROVE  FALSE
    OBVIOUS
  <2>1. CASE q = s
    BY <1>2, <1>3, <1>6, <2>1
  <2>2. CASE r = s
    BY <1>2, <1>3, <1>6, <2>2
  <2>3. CASE q # s /\ r # s
    BY <1>6, <2>3 DEF ServerInv
  <2> QED
    BY <2>1, <2>2, <2>3
<1>9. \A d \in Convs : TurnsOf(d)' = TurnsOf(d)
  BY <1>1 DEF TurnsOf
<1>10. \A d : IsOpen(d)' <=> IsOpen(d)
  BY <1>1 DEF IsOpen
<1>11. \A i \in Ids : i <= begun => i <= begun'
  BY <1>1, <1>2 DEF Ids
<1> QED
  BY <1>1, <1>2, <1>3, <1>4, <1>7, <1>8, <1>9, <1>10, <1>11 DEF ServerInv

LEMMA ResolveTurnKeeps ==
    ASSUME ServerInv, NEW s \in Slots, ResolveTurn(s)
    PROVE  ServerInv'
<1> DEFINE t == IF call[s].op = "edit" THEN call[s].text ELSE turn[call[s].id].said
<1>1. /\ call[s].op \in {"edit", "regenerate"}
      /\ UNCHANGED <<conv, turn, begun>>
      /\ IsOpen(call[s].conv)
      /\ IsLatest(call[s].conv, call[s].id)
      /\ Becomes(s, "thinking", call[s].conv, call[s].id, t)
  BY DEF ResolveTurn, Asked
<1>2. call[s].id \in Ids /\ turn[call[s].id] # NoTurn
  BY <1>1, Constants DEF IsLatest, TurnsOf, IsOpen, NoTurn
<1>3. t \in Texts
  BY <1>1, <1>2, CallParts DEF ServerInv, Fits
<1> HIDE DEF t
<1>4. /\ call' \in [Slots -> CallType]
      /\ \A q \in Slots : q # s => call'[q] = call[q]
      /\ call'[s] = [op |-> call[s].op, pc |-> "thinking", conv |-> call[s].conv,
                     id |-> call[s].id, text |-> t]
  BY <1>1, <1>3, CallParts DEF Becomes, CallType
<1>5. Fits(call[s])'
  <2>1. call[s].conv \in Convs
    BY <1>1, CallParts DEF Fits
  <2> QED
    BY <1>1, <1>2, <1>3, <1>4, <2>1 DEF Fits
<1>6. ~Thought(s, "send")'
  BY <1>1, <1>4 DEF Thought
<1> QED
  BY <1>1, <1>4, <1>5, <1>6, CallChanges

LEMMA StoreSendKeeps ==
    ASSUME ServerInv, NEW s \in Slots, StoreSend(s)
    PROVE  ServerInv'
<1> DEFINE i == call[s].id
           c == call[s].conv
           x == [conv |-> c, said |-> call[s].text, reply |-> call[s].text, version |-> 0]
<1>1. /\ Thought(s, "send") /\ IsOpen(c)
      /\ conv' = [conv EXCEPT ![c].count = @ + 2]
      /\ turn' = [turn EXCEPT ![i] = x]
      /\ Answer(s, "stored")
      /\ begun' = begun
  BY DEF StoreSend
<1>2. /\ call[s].op = "send" /\ call[s].pc = "thinking" /\ c \in Convs /\ i \in Ids /\ i <= begun
      /\ call[s].text \in Texts /\ turn[i] = NoTurn
  BY <1>1, CallParts, Constants DEF ServerInv, Fits, Thought, IsOpen, Ids
<1>3. x \in TurnType /\ x.conv = c /\ x.said \in Texts /\ x.reply \in Texts
  BY <1>2 DEF TurnType
<1> HIDE DEF i, c, x
<1>4. turn' \in [Ids -> TurnType] /\ turn'[i] = x /\ \A j \in Ids : j # i => turn'[j] = turn[j]
  BY <1>1, <1>2, <1>3 DEF ServerInv
<1>5. /\ conv' \in [Convs -> ConvType]
      /\ conv'[c].state = conv[c].state /\ conv'[c].count = conv[c].count + 2
      /\ \A d \in Convs : d # c => conv'[d] = conv[d]
  BY <1>1, <1>2 DEF ServerInv, ConvType
<1>6. \A q \in Slots : Fits(call[q])'
  <2> TAKE q \in Slots
  <2>1. CASE q = s
    <3>1. /\ call'[s].op = "send" /\ call'[s].conv = c /\ call'[s].id = i
          /\ call'[s].text = call[s].text /\ begun' = begun
      BY <1>1, <1>2, AnswerParts DEF i, c
    <3>2. i \in 1..begun
      BY <1>2 DEF Ids
    <3> QED
      BY <1>2, <2>1, <3>1, <3>2 DEF Fits
  <2>2. CASE q # s
    <3>1. call'[q] = call[q] /\ begun' = begun
      BY <1>1, <2>2, AnswerParts
    <3>2. Fits(call[q])
      BY CallParts
    <3> QED
      BY <3>1, <3>2 DEF Fits
  <2> QED
    BY <2>1, <2>2
<1>7. \A q \in Slots : Thought(q, "send")' => q # s /\ Thought(q, "send") /\ call'[q] = call[q]
  BY <1>1, AnswerParts DEF Thought
<1>8. \A q \in Slots : Thought(q, "send")' => turn'[call'[q].id] = NoTurn
  <2> SUFFICES ASSUME NEW q \in Slots, Thought(q, "send")'
               PROVE  turn'[call'[q].id] = NoTurn
    OBVIOUS
  <2>1. call[q].id # i
    BY <1>1, <1>7 DEF ServerInv, i
  <2>2. call[q].id \in Ids
    BY <1>7, CallParts, Constants DEF Fits, Thought, Ids, ServerInv
  <2> QED
    BY <1>4, <1>7, <2>1, <2>2 DEF ServerInv
<1>9. \A d : IsOpen(d) => IsOpen(d)'
  BY <1>5 DEF IsOpen
<1>10. \A j \in Ids : (turn[j] # NoTurn =>
          /\ IsOpen(turn[j].conv)
          /\ turn[j].said \in Texts /\ turn[j].reply \in Texts
          /\ j <= begun)'
  <2> TAKE j \in Ids
  <2>1. CASE j = i
    BY <1>1, <1>2, <1>3, <1>4, <1>5, <2>1 DEF IsOpen
  <2>2. CASE j # i
    BY <1>1, <1>4, <1>5, <2>2 DEF ServerInv, IsOpen
  <2> QED
    BY <2>1, <2>2
<1>11. \A d \in Convs : conv'[d].count = 2 * Cardinality(TurnsOf(d)')
  <2> TAKE d \in Convs
  <2>1. CASE d = c
    <3>1. i \notin TurnsOf(d)
      BY <1>2, Constants DEF TurnsOf, NoTurn
    <3>2. TurnsOf(d)' = TurnsOf(d) \cup {i}
      BY <1>2, <1>3, <1>4, <2>1 DEF TurnsOf
    <3>3. Cardinality(TurnsOf(d)') = Cardinality(TurnsOf(d)) + 1
      BY <3>1, <3>2, TurnsAreFinite, FS_AddElement
    <3>4. conv[d].count = 2 * Cardinality(TurnsOf(d))
      BY DEF ServerInv
    <3>5. conv'[d].count = conv[d].count + 2
      BY <1>5, <2>1
    <3>6. Cardinality(TurnsOf(d)) \in Nat
      BY TurnsAreFinite
    <3> QED
      BY <3>3, <3>4, <3>5, <3>6
  <2>2. CASE d # c
    <3>1. TurnsOf(d)' = TurnsOf(d)
      BY <1>2, <1>3, <1>4, <2>2, Constants DEF TurnsOf, NoTurn
    <3> QED
      BY <1>5, <2>2, <3>1 DEF ServerInv
  <2> QED
    BY <2>1, <2>2
<1>12. call' \in [Slots -> CallType]
  BY <1>1, AnswerParts
<1>13. begun' \in 0..MaxTurns
  BY <1>1 DEF ServerInv
<1>14. \A q, r \in Slots :
        Thought(q, "send")' /\ Thought(r, "send")' /\ call'[q].id = call'[r].id => q = r
  BY <1>7 DEF ServerInv
<1> QED
  BY <1>4, <1>5, <1>6, <1>8, <1>10, <1>11, <1>12, <1>13, <1>14 DEF ServerInv

LEMMA StoreTurnKeeps ==
    ASSUME ServerInv, NEW s \in Slots, StoreTurn(s)
    PROVE  ServerInv'
<1> DEFINE i == call[s].id
           x == [conv |-> turn[i].conv,
                 said |-> IF call[s].op = "edit" THEN call[s].text ELSE turn[i].said,
                 reply |-> call[s].text,
                 version |-> turn[i].version + 1]
<1>1. /\ call[s].pc = "thinking" /\ call[s].op \in {"edit", "regenerate"}
      /\ turn[i] # NoTurn
      /\ turn' = [turn EXCEPT ![i] = x]
      /\ Answer(s, "stored")
      /\ UNCHANGED <<conv, begun>>
  BY DEF StoreTurn, Thought
<1>2. i \in Ids /\ call[s].text \in Texts
  BY <1>1, CallParts DEF Fits
<1>3. /\ x \in TurnType /\ x.conv = turn[i].conv /\ x.said \in Texts /\ x.reply \in Texts
      /\ IsOpen(turn[i].conv) /\ turn[i].conv \in Convs /\ i <= begun
  BY <1>1, <1>2 DEF ServerInv, TurnType, IsOpen
<1> HIDE DEF i, x
<1>4. turn' \in [Ids -> TurnType] /\ turn'[i] = x /\ \A j \in Ids : j # i => turn'[j] = turn[j]
  BY <1>1, <1>2, <1>3 DEF ServerInv
<1>5. \A q \in Slots : q # s => call'[q] = call[q]
  BY <1>1, AnswerParts
<1>6. Fits(call[s])'
  BY <1>1, <1>2, AnswerParts, CallParts DEF Fits, i
<1>7. \A q \in Slots : Fits(call[q])'
  <2> TAKE q \in Slots
  <2>1. CASE q = s
    BY <1>6, <2>1
  <2>2. CASE q # s
    <3>1. call'[q] = call[q] /\ Fits(call[q])
      BY <1>5, <2>2 DEF ServerInv
    <3> QED
      BY <1>1, <3>1 DEF Fits
  <2> QED
    BY <2>1, <2>2
<1>8. \A q \in Slots : Thought(q, "send")' => q # s /\ Thought(q, "send") /\ call'[q] = call[q]
  BY <1>1, <1>5, AnswerParts DEF Thought
<1>9. \A q \in Slots : Thought(q, "send")' => turn'[call'[q].id] = NoTurn
  <2> SUFFICES ASSUME NEW q \in Slots, Thought(q, "send")'
               PROVE  turn'[call'[q].id] = NoTurn
    OBVIOUS
  <2>1. call[q].id # i
    BY <1>1, <1>8 DEF ServerInv
  <2>2. call[q].id \in Ids
    BY <1>8, CallParts, Constants DEF Fits, Thought, Ids, ServerInv
  <2> QED
    BY <1>4, <1>8, <2>1, <2>2 DEF ServerInv
<1>10. \A j \in Ids : (turn[j] # NoTurn =>
          /\ IsOpen(turn[j].conv)
          /\ turn[j].said \in Texts /\ turn[j].reply \in Texts
          /\ j <= begun)'
  <2> TAKE j \in Ids
  <2>1. CASE j = i
    BY <1>1, <1>3, <1>4, <2>1 DEF IsOpen
  <2>2. CASE j # i
    BY <1>1, <1>4, <2>2 DEF ServerInv, IsOpen
  <2> QED
    BY <2>1, <2>2
<1>11. \A d \in Convs : TurnsOf(d)' = TurnsOf(d)
  BY <1>2, <1>3, <1>4 DEF TurnsOf
<1>12. /\ call' \in [Slots -> CallType]
  BY <1>1, AnswerParts
<1>13. \A q, r \in Slots :
        Thought(q, "send")' /\ Thought(r, "send")' /\ call'[q].id = call'[r].id => q = r
  BY <1>8 DEF ServerInv
<1> QED
  BY <1>1, <1>4, <1>7, <1>9, <1>10, <1>11, <1>12, <1>13 DEF ServerInv

LEMMA StoreDeleteKeeps ==
    ASSUME ServerInv, NEW s \in Slots, StoreDelete(s)
    PROVE  ServerInv'
<1> DEFINE c == call[s].conv
<1>1. /\ call[s].pc = "thinking" /\ call[s].op = "delete"
      /\ conv' = [conv EXCEPT ![c] = [state |-> "deleted", count |-> 0]]
      /\ turn' = [i \in Ids |-> IF turn[i].conv = c THEN NoTurn ELSE turn[i]]
      /\ Answer(s, "ok")
      /\ begun' = begun
  BY DEF StoreDelete, Thought
<1>2. c \in Convs
  BY <1>1, CallParts DEF Fits
<1> HIDE DEF c
<1>3. NoTurn \in TurnType
  BY DEF NoTurn, TurnType
<1>4. /\ turn' \in [Ids -> TurnType]
      /\ \A i \in Ids : turn'[i] = IF turn[i].conv = c THEN NoTurn ELSE turn[i]
  BY <1>1, <1>3 DEF ServerInv
<1>5. /\ conv' \in [Convs -> ConvType]
      /\ conv'[c].count = 0 /\ \A d \in Convs : d # c => conv'[d] = conv[d]
  BY <1>1, <1>2 DEF ServerInv, ConvType
<1>6. \A q \in Slots : q # s => call'[q] = call[q]
  BY <1>1, AnswerParts DEF Over
<1>7. Fits(call[s])'
  BY <1>1, AnswerParts, CallParts DEF Fits, Over
<1>8. \A q \in Slots : Fits(call[q])'
  <2> TAKE q \in Slots
  <2>1. CASE q = s
    BY <1>7, <2>1
  <2>2. CASE q # s
    <3>1. call'[q] = call[q] /\ Fits(call[q])
      BY <1>6, <2>2 DEF ServerInv
    <3> QED
      BY <1>1, <3>1 DEF Fits
  <2> QED
    BY <2>1, <2>2
<1>9. \A q \in Slots : Thought(q, "send")' => q # s /\ Thought(q, "send") /\ call'[q] = call[q]
  BY <1>1, <1>6, AnswerParts DEF Thought, Over
<1>10. \A q \in Slots : Thought(q, "send")' => turn'[call'[q].id] = NoTurn
  <2> SUFFICES ASSUME NEW q \in Slots, Thought(q, "send")'
               PROVE  turn'[call'[q].id] = NoTurn
    OBVIOUS
  <2>1. call[q].id \in Ids
    BY <1>9, CallParts, Constants DEF Fits, Thought, Ids, ServerInv
  <2> QED
    BY <1>4, <1>9, <2>1 DEF ServerInv
<1>11. \A j \in Ids : (turn[j] # NoTurn =>
          /\ IsOpen(turn[j].conv)
          /\ turn[j].said \in Texts /\ turn[j].reply \in Texts
          /\ j <= begun)'
  <2> TAKE j \in Ids
  <2>1. CASE turn[j].conv = c
    BY <1>4, <2>1
  <2>2. CASE turn[j].conv # c
    BY <1>1, <1>4, <1>5, <2>2 DEF ServerInv, IsOpen
  <2> QED
    BY <2>1, <2>2
<1>12. \A d \in Convs : conv'[d].count = 2 * Cardinality(TurnsOf(d)')
  <2> TAKE d \in Convs
  <2>1. CASE d = c
    <3>1. TurnsOf(d)' = {}
      BY <1>4, <2>1, Constants DEF TurnsOf, NoTurn
    <3>2. Cardinality(TurnsOf(d)') = 0
      BY <3>1, FS_EmptySet
    <3> QED
      BY <1>5, <2>1, <3>2
  <2>2. CASE d # c
    <3>1. TurnsOf(d)' = TurnsOf(d)
      BY <1>4, <2>2, Constants DEF TurnsOf, NoTurn
    <3> QED
      BY <1>5, <2>2, <3>1 DEF ServerInv
  <2> QED
    BY <2>1, <2>2
<1>13. call' \in [Slots -> CallType]
  BY <1>1, AnswerParts DEF Over
<1>14. begun' \in 0..MaxTurns
  BY <1>1 DEF ServerInv
<1>15. \A q, r \in Slots :
        Thought(q, "send")' /\ Thought(r, "send")' /\ call'[q].id = call'[r].id => q = r
  BY <1>9 DEF ServerInv
<1> QED
  BY <1>4, <1>5, <1>8, <1>10, <1>11, <1>12, <1>13, <1>14, <1>15 DEF ServerInv

LEMMA AnswersKeep ==
    ASSUME ServerInv, NEW s \in Slots,
           ResolveDelete(s) \/ Refuse(s) \/ StoreFinds(s) \/ Reread(s) \/ Fail(s)
    PROVE  ServerInv'
<1>1. CASE ResolveDelete(s)
  BY <1>1, AnswerKeeps DEF ResolveDelete, Asked
<1>2. CASE Refuse(s)
  BY <1>2, AnswerKeeps DEF Refuse, Over
<1>3. CASE StoreFinds(s)
  BY <1>3, AnswerKeeps DEF StoreFinds, Over
<1>4. CASE Reread(s)
  <2>1. call[s].op # "create" /\ call[s].pc = "stored"
    BY <1>4, CallParts DEF Fits, Reread
  <2>2. Answer(s, "ok") \/ Answer(s, "undone")
    BY <1>4 DEF Reread
  <2> QED
    BY <1>4, <2>1, <2>2, AnswerKeeps DEF Reread, Over
<1>5. CASE Fail(s)
  <2>1. CASE Answer(s, "failed")
    BY <1>5, <2>1, AnswerKeeps DEF Fail, Over
  <2>2. CASE call[s].pc = "stored" /\ Answer(s, "undone")
    <3>1. call[s].op # "create"
      BY <2>2, CallParts DEF Fits
    <3> QED
      BY <1>5, <2>2, <3>1, AnswerKeeps DEF Fail, Over
  <2> QED
    BY <1>5, <2>1, <2>2 DEF Fail
<1> QED
  BY <1>1, <1>2, <1>3, <1>4, <1>5

\* A step of the server keeps what a request is for, and what a message to
\* send says and where.
LEMMA ServerSteps ==
    ASSUME ServerInv, ServerNext
    PROVE  /\ ServerInv'
           /\ \A q \in Slots : call'[q].op = call[q].op
           /\ \A q \in Slots : call[q].op = "send" =>
                 call'[q].conv = call[q].conv /\ call'[q].text = call[q].text
<1>1. PICK s \in Slots :
        \/ Create(s) \/ ResolveSend(s) \/ ResolveTurn(s) \/ ResolveDelete(s) \/ Refuse(s)
        \/ StoreSend(s) \/ StoreTurn(s) \/ StoreDelete(s) \/ StoreFinds(s)
        \/ Reread(s) \/ Fail(s)
  BY DEF ServerNext
<1>2. ServerInv'
  BY <1>1, CreateKeeps, ResolveSendKeeps, ResolveTurnKeeps, StoreSendKeeps, StoreTurnKeeps,
     StoreDeleteKeeps, AnswersKeep
<1>3. call \in [Slots -> CallType]
  BY DEF ServerInv
<1>4. CASE \/ ResolveDelete(s) \/ Refuse(s) \/ StoreSend(s) \/ StoreTurn(s) \/ StoreDelete(s)
           \/ StoreFinds(s) \/ Reread(s) \/ Fail(s)
  <2>1. PICK how \in {"thinking", "stored"} \cup Over : Answer(s, how)
    BY <1>4 DEF ResolveDelete, Refuse, StoreSend, StoreTurn, StoreDelete, StoreFinds, Reread, Fail, Over
  <2>2. \A q \in Slots : q # s => call'[q] = call[q]
    BY <2>1, AnswerParts
  <2>3. call'[s].op = call[s].op /\ call'[s].conv = call[s].conv /\ call'[s].text = call[s].text
    BY <2>1, AnswerParts
  <2> QED
    BY <1>2, <2>2, <2>3
<1>5. CASE Create(s)
  BY <1>2, <1>3, <1>5 DEF Create, Becomes, Asked
<1>6. CASE ResolveSend(s)
  BY <1>2, <1>3, <1>6 DEF ResolveSend, Becomes, Asked
<1>7. CASE ResolveTurn(s)
  BY <1>2, <1>3, <1>7 DEF ResolveTurn, Becomes, Asked
<1> QED
  BY <1>1, <1>4, <1>5, <1>6, <1>7

-----------------------------------------------------------------------------
(* The page *)

LEMMA SameServer ==
    ASSUME ServerInv, UNCHANGED serverVars
    PROVE  ServerInv'
  BY DEF ServerInv, serverVars, Fits, Thought, TurnsOf, IsOpen

LEMMA SameWaits ==
    ASSUME PageInv, UNCHANGED <<serverVars, pend>>
    PROVE  pend' \in [Slots -> PendType] /\ \A s \in Slots : Awaited(s)'
  BY DEF PageInv, serverVars, Awaited

LEMMA FetchKinds == Asking \in FetchType /\ NoFetch \in FetchType
  BY DEF Asking, NoFetch, FetchType

LEMMA DetailParts ==
    ASSUME PageInv, NEW c \in Convs, HasData(c)
    PROVE  detail[c].turns \subseteq ShownType /\ detail[c].ghosts \subseteq Sends
  BY DEF PageInv, HasData, DetailType

LEMMA WithdrawnType ==
    ASSUME PageInv, NEW c \in Convs, NEW s \in Sends
    PROVE  Withdrawn(c, s) \in DetailType
<1>1. CASE HasData(c)
  <2>1. detail[c] \in DetailType
    BY <1>1 DEF PageInv, HasData
  <2> QED
    BY <1>1, <2>1 DEF Withdrawn, DetailType
<1>2. CASE ~HasData(c)
  BY <1>2 DEF Withdrawn, DetailType
<1> QED
  BY <1>1, <1>2

LEMMA ExpectedType ==
    ASSUME PageInv, NEW c \in Convs, NEW s \in Sends
    PROVE  Expected(c, s) \in DetailType
<1>1. CASE HasData(c)
  <2>1. detail[c] \in DetailType
    BY <1>1 DEF PageInv, HasData
  <2> QED
    BY <1>1, <2>1 DEF Expected, DetailType
<1>2. CASE ~HasData(c)
  BY <1>2 DEF Expected, DetailType
<1> QED
  BY <1>1, <1>2

LEMMA AnsweredType ==
    ASSUME PageInv, NEW c \in Convs, NEW s \in Sends, NEW r \in ShownType
    PROVE  Answered(c, r, s) \in DetailType
  BY DetailParts DEF Answered, DetailType

LEMMA MissingType ==
    ASSUME PageInv, NEW C \in SUBSET Convs, Missing(C)
    PROVE  missed' \subseteq Convs
  BY DEF PageInv, Missing

LEMMA StoredType ==
    ASSUME ServerInv, NEW c \in Convs
    PROVE  Stored(c) \subseteq ShownType
<1> SUFFICES ASSUME NEW i \in TurnsOf(c) PROVE ShownAs(i) \in ShownType
  BY DEF Stored
<1>1. i \in Ids /\ turn[i] \in TurnType /\ turn[i] # NoTurn
  BY Constants DEF TurnsOf, ServerInv, NoTurn
<1> QED
  BY <1>1 DEF ServerInv, ShownAs, ShownType, TurnType

\* Moving, typing and fetching.
LEMMA ViewSteps ==
    ASSUME IInv,
           \/ Type \/ VisitNew
           \/ \E c \in Convs :
                Visit(c) \/ EnterFirst(c) \/ Refetch(c) \/ FetchAnswer(c) \/ FetchLand(c) \/ FetchFails(c)
    PROVE  IInv'
<1>1. UNCHANGED <<serverVars, pend>>
  BY DEF Type, VisitNew, Visit, EnterFirst, Refetch, FetchAnswer, FetchLand, FetchFails
<1>2. ServerInv'
  BY <1>1, SameServer DEF IInv
<1>3. pend' \in [Slots -> PendType] /\ \A s \in Slots : Awaited(s)'
  BY <1>1, SameWaits DEF IInv
<1>4. CASE Type
  BY <1>2, <1>3, <1>4, Constants DEF IInv, PageInv, Type, view, cache
<1>5. CASE VisitNew
  BY <1>2, <1>3, <1>5 DEF IInv, PageInv, VisitNew, cache
<1>6. ASSUME NEW c \in Convs, Visit(c) \/ EnterFirst(c)
      PROVE  IInv'
  <2>1. fetch' \in [Convs -> FetchType]
    BY <1>6, FetchKinds DEF IInv, PageInv, Visit, EnterFirst, Shown
  <2>2. missed' \subseteq Convs
    BY <1>6, MissingType DEF IInv, Visit, EnterFirst
  <2> QED
    BY <1>2, <1>3, <1>6, <2>1, <2>2 DEF IInv, PageInv, Visit, EnterFirst
<1>7. ASSUME NEW c \in Convs, Refetch(c)
      PROVE  IInv'
  <2>1. fetch' \in [Convs -> FetchType]
    BY <1>7, FetchKinds DEF IInv, PageInv, Refetch
  <2>2. missed' \subseteq Convs
    BY <1>7, MissingType DEF IInv, Refetch
  <2> QED
    BY <1>2, <1>3, <1>7, <2>1, <2>2 DEF IInv, PageInv, Refetch, view
<1>8. ASSUME NEW c \in Convs, FetchAnswer(c)
      PROVE  IInv'
  <2>1. [pc |-> "answered", turns |-> Stored(c)] \in FetchType
    BY StoredType DEF IInv, FetchType
  <2>2. fetch' \in [Convs -> FetchType]
    BY <1>8, <2>1 DEF IInv, PageInv, FetchAnswer
  <2> QED
    BY <1>2, <1>3, <1>8, <2>2 DEF IInv, PageInv, FetchAnswer, view
<1>9. ASSUME NEW c \in Convs, FetchLand(c)
      PROVE  IInv'
  <2>1. fetch[c].turns \subseteq ShownType
    BY DEF IInv, PageInv, FetchType
  <2>2. [turns |-> fetch[c].turns, ghosts |-> {}] \in DetailType
    BY <2>1 DEF DetailType
  <2>3. detail' \in [Convs -> DetailType \cup {None}]
    BY <1>9, <2>2 DEF IInv, PageInv, FetchLand
  <2>4. fetch' \in [Convs -> FetchType]
    BY <1>9, FetchKinds DEF IInv, PageInv, FetchLand
  <2> QED
    BY <1>2, <1>3, <1>9, <2>3, <2>4 DEF IInv, PageInv, FetchLand, view
<1>10. ASSUME NEW c \in Convs, FetchFails(c)
       PROVE  IInv'
  <2>1. fetch' \in [Convs -> FetchType]
    BY <1>10, FetchKinds DEF IInv, PageInv, FetchFails
  <2> QED
    BY <1>2, <1>3, <1>10, <2>1 DEF IInv, PageInv, FetchFails, view
<1> QED
  BY <1>4, <1>5, <1>6, <1>7, <1>8, <1>9, <1>10

LEMMA PendParts ==
    ASSUME PageInv, NEW s \in Slots
    PROVE  /\ pend \in [Slots -> PendType]
           /\ pend[s] = [pc |-> pend[s].pc, conv |-> pend[s].conv, text |-> pend[s].text]
           /\ pend[s].pc \in {"idle", "reading", "creating", "posting", "waiting", "leaving"}
           /\ pend[s].conv \in Convs \cup {None}
           /\ pend[s].text \in Texts \cup {None}
           /\ Awaited(s)
  BY DEF PageInv, PendType

\* The slots other than s are waited for as before.
LEMMA OthersWait ==
    ASSUME PageInv, NEW s \in Slots,
           \A q \in Slots : q # s => pend'[q] = pend[q] /\ call'[q] = call[q],
           Awaited(s)'
    PROVE  \A q \in Slots : Awaited(q)'
  BY DEF PageInv, Awaited

LEMMA SubmitKeeps ==
    ASSUME IInv, NEW s \in Sends, Submit(s)
    PROVE  IInv'
<1>1. PICK c \in Known : pend' = [pend EXCEPT ![s] = [pc |-> "reading", conv |-> c, text |-> draft]]
  BY DEF Submit
<1>2. c \in Convs \cup {None} /\ draft \in Texts /\ s \in Slots
  BY Constants DEF Known, Submit, IInv, PageInv
<1>3. [pc |-> "reading", conv |-> c, text |-> draft] \in PendType
  BY <1>2 DEF PendType
<1>4. pend' \in [Slots -> PendType]
  BY <1>1, <1>2, <1>3 DEF IInv, PageInv
<1>5. Awaited(s)'
  BY <1>1, <1>2, PendParts DEF IInv, Awaited
<1>6. \A q \in Slots : q # s => pend'[q] = pend[q] /\ call'[q] = call[q]
  BY <1>1, <1>2, PendParts DEF Submit, serverVars, IInv
<1>7. \A q \in Slots : Awaited(q)'
  BY <1>2, <1>5, <1>6, OthersWait DEF IInv
<1>8. ServerInv'
  BY SameServer DEF IInv, Submit
<1> QED
  BY <1>2, <1>4, <1>7, <1>8 DEF IInv, PageInv, Submit, view, cache

\* A request is over, and no longer waited for.
LEMMA OverKeeps ==
    ASSUME IInv, NEW s \in Slots, pend' = [pend EXCEPT ![s] = NoPend],
           call' = [call EXCEPT ![s] = NoCall], UNCHANGED <<conv, turn, begun>>
    PROVE  /\ ServerInv'
           /\ pend' \in [Slots -> PendType]
           /\ \A q \in Slots : Awaited(q)'
<1>1. call \in [Slots -> CallType] /\ NoCall \in CallType
  BY DEF IInv, ServerInv, NoCall, CallType
<1>2. /\ call' \in [Slots -> CallType] /\ call'[s] = NoCall
      /\ \A q \in Slots : q # s => call'[q] = call[q]
  BY <1>1
<1>3. Fits(call[s])' /\ ~Thought(s, "send")'
  BY <1>2 DEF Fits, Thought, NoCall
<1>4. pend \in [Slots -> PendType] /\ NoPend \in PendType
  BY DEF IInv, PageInv, NoPend, PendType
<1>5. /\ pend' \in [Slots -> PendType] /\ pend'[s] = NoPend
      /\ \A q \in Slots : q # s => pend'[q] = pend[q]
  BY <1>4
<1>6. Awaited(s)'
  BY <1>5 DEF Awaited, NoPend
<1>7. ServerInv'
  BY <1>2, <1>3, CallChanges DEF IInv
<1> QED
  BY <1>2, <1>5, <1>6, <1>7, OthersWait DEF IInv

LEMMA PostKeeps ==
    ASSUME IInv, NEW s \in Sends, NEW c \in Convs, Post(s, c), pend[s].pc \in {"reading", "creating"},
           active' \in Convs \cup {None}, url' \in {"chat", "new"}, url' = "new" => active' = None
    PROVE  IInv'
<1>1. s \in Slots /\ pend[s].text \in Texts
  BY Constants, PendParts DEF IInv, Awaited
<1> DEFINE r == [op |-> "send", pc |-> "asked", conv |-> c, id |-> None, text |-> pend[s].text]
           w == [pc |-> "posting", conv |-> c, text |-> pend[s].text]
<1>2. r \in CallType /\ w \in PendType
  BY <1>1 DEF CallType, PendType
<1>3. call' = [call EXCEPT ![s] = r] /\ pend' = [pend EXCEPT ![s] = w]
  BY DEF Post, Request
<1>4. /\ call' \in [Slots -> CallType] /\ call'[s] = r
      /\ \A q \in Slots : q # s => call'[q] = call[q]
  BY <1>1, <1>2, <1>3 DEF IInv, ServerInv
<1>5. /\ pend' \in [Slots -> PendType] /\ pend'[s] = w
      /\ \A q \in Slots : q # s => pend'[q] = pend[q]
  BY <1>1, <1>2, <1>3 DEF IInv, PageInv
<1>6. Fits(call[s])' /\ ~Thought(s, "send")'
  BY <1>1, <1>4 DEF Fits, Thought
<1>7. ServerInv'
  BY <1>1, <1>4, <1>6, CallChanges DEF IInv, Post
<1>8. Awaited(s)'
  BY <1>1, <1>4, <1>5 DEF Awaited
<1>9. \A q \in Slots : Awaited(q)'
  BY <1>1, <1>4, <1>5, <1>8, OthersWait DEF IInv
<1>10. detail' \in [Convs -> DetailType \cup {None}]
  BY ExpectedType DEF IInv, PageInv, Post
<1> QED
  BY <1>5, <1>7, <1>9, <1>10 DEF IInv, PageInv, Post

LEMMA ProceedKeeps ==
    ASSUME IInv, NEW s \in Sends, Proceed(s) \/ Created(s)
    PROVE  IInv'
<1>1. s \in Slots
  BY Constants
<1>2. CASE Proceed(s)
  <2>1. PICK c \in Convs : c = pend[s].conv
    BY <1>1, <1>2, PendParts DEF IInv, Proceed
  <2> QED
    BY <1>2, <2>1, PostKeeps DEF IInv, PageInv, Proceed, Waits, view
<1>3. CASE Created(s)
  <2>1. call[s].op = "create" /\ call[s].pc = "ok"
    BY <1>1, <1>3, PendParts DEF IInv, Awaited, Created, Waits, Succeeded
  <2>2. PICK c \in Convs : c = call[s].conv
    BY <1>1, <2>1, CallParts DEF IInv, Fits
  <2> QED
    BY <1>3, <2>2, PostKeeps DEF Created, Waits
<1> QED
  BY <1>2, <1>3

LEMMA ProceedNewKeeps ==
    ASSUME IInv, NEW s \in Sends, ProceedNew(s)
    PROVE  IInv'
<1> DEFINE r == [op |-> "create", pc |-> "asked", conv |-> None, id |-> None, text |-> None]
<1>1. s \in Slots /\ pend[s].text \in Texts /\ r \in CallType
  BY Constants, PendParts DEF IInv, Awaited, ProceedNew, Waits, CallType
<1>2. call' = [call EXCEPT ![s] = r] /\ pend' = [pend EXCEPT ![s].pc = "creating"]
  BY DEF ProceedNew, Request
<1>3. /\ call' \in [Slots -> CallType] /\ call'[s] = r
      /\ \A q \in Slots : q # s => call'[q] = call[q]
  BY <1>1, <1>2 DEF IInv, ServerInv
<1>4. /\ pend' \in [Slots -> PendType] /\ pend'[s].pc = "creating" /\ pend'[s].text = pend[s].text
      /\ \A q \in Slots : q # s => pend'[q] = pend[q]
  BY <1>1, <1>2 DEF IInv, PageInv, PendType
<1>5. Fits(call[s])' /\ ~Thought(s, "send")'
  BY <1>3 DEF Fits, Thought
<1>6. ServerInv'
  BY <1>1, <1>3, <1>5, CallChanges DEF IInv, ProceedNew
<1>7. Awaited(s)'
  BY <1>1, <1>3, <1>4 DEF Awaited
<1>8. \A q \in Slots : Awaited(q)'
  BY <1>1, <1>3, <1>4, <1>7, OthersWait DEF IInv
<1> QED
  BY <1>4, <1>6, <1>8 DEF IInv, PageInv, ProceedNew, view, cache

LEMMA SendEnds ==
    ASSUME IInv, NEW s \in Sends, CreateFails(s) \/ Sent(s) \/ SendFails(s)
    PROVE  IInv'
<1>1. s \in Slots
  BY Constants
<1>2. /\ ServerInv'
      /\ pend' \in [Slots -> PendType]
      /\ \A q \in Slots : Awaited(q)'
  BY <1>1, OverKeeps DEF CreateFails, Sent, SendFails, Close
<1>3. CASE CreateFails(s)
  BY <1>2, <1>3 DEF IInv, PageInv, CreateFails, view, cache
<1>4. CASE Sent(s) \/ SendFails(s)
  <2>1. /\ call[s].op = "send" /\ pend[s].text \in Texts /\ call[s].text \in Texts
        /\ pend[s].conv \in Convs /\ call[s].conv = pend[s].conv
    BY <1>1, <1>4, PendParts DEF IInv, Awaited, Sent, SendFails, Waits
  <2>2. PICK c \in Convs : c = pend[s].conv
    BY <2>1
  <2>3. CASE Sent(s)
    <3>1. call[s].id \in Ids
      BY <1>1, <2>1, <2>3, CallParts, Constants DEF IInv, ServerInv, Fits, Sent, Succeeded, Ids
    <3>2. PICK r \in ShownType :
            r = [id |-> call[s].id, said |-> call[s].text, reply |-> call[s].text, version |-> 0]
      BY <2>1, <3>1 DEF ShownType
    <3>3. detail' = [detail EXCEPT ![c] = Answered(c, r, s)]
      BY <2>2, <2>3, <3>2 DEF Sent
    <3>4. detail' \in [Convs -> DetailType \cup {None}]
      BY <3>3, AnsweredType DEF IInv, PageInv
    <3>5. fetch' \in [Convs -> FetchType]
      BY <2>2, <2>3, FetchKinds DEF IInv, PageInv, Sent
    <3>6. missed' \subseteq Convs
      BY <2>2, <2>3, MissingType DEF IInv, Sent
    <3>7. active' = c /\ url' = "chat" /\ UNCHANGED <<draft, due>>
      BY <2>2, <2>3 DEF Sent
    <3> QED
      BY <1>2, <3>4, <3>5, <3>6, <3>7 DEF IInv, PageInv
  <2>4. CASE SendFails(s)
    <3>1. detail' \in [Convs -> DetailType \cup {None}]
      BY <2>2, <2>4, WithdrawnType DEF IInv, PageInv, SendFails
    <3>2. Changed(s) \in SUBSET Convs
      BY <1>1, CallParts DEF IInv, Changed
    <3>3. missed' \subseteq Convs
      BY <2>4, <3>2, MissingType DEF IInv, PageInv, SendFails, Missing
    <3> QED
      BY <1>2, <2>1, <2>4, <3>1, <3>3 DEF IInv, PageInv, SendFails, view
  <2> QED
    BY <1>4, <2>3, <2>4
<1> QED
  BY <1>3, <1>4

LEMMA TurnEnds ==
    ASSUME IInv, NEW s \in Slots, TurnDone(s) \/ TurnFails(s)
    PROVE  IInv'
<1>1. /\ ServerInv'
      /\ pend' \in [Slots -> PendType]
      /\ \A q \in Slots : Awaited(q)'
  BY OverKeeps DEF TurnDone, TurnFails, Close
<1>2. CASE TurnDone(s)
  <2>1. pend[s].conv \in Convs
    BY <1>2, PendParts DEF IInv, Awaited, TurnDone, Waits
  <2>2. missed' \subseteq Convs
    BY <1>2, <2>1 DEF IInv, PageInv, TurnDone, Missing
  <2>3. fetch' \in [Convs -> FetchType]
    BY <1>2, FetchKinds DEF IInv, PageInv, TurnDone, Invalidate
  <2> QED
    BY <1>1, <1>2, <2>2, <2>3 DEF IInv, PageInv, TurnDone, view
<1>3. CASE TurnFails(s)
  <2>1. Changed(s) \subseteq Convs
    BY CallParts DEF IInv, Changed
  <2>2. missed' \subseteq Convs
    BY <1>3, <2>1 DEF IInv, PageInv, TurnFails, Missing
  <2> QED
    BY <1>1, <1>3, <2>2 DEF IInv, PageInv, TurnFails, view
<1> QED
  BY <1>2, <1>3

\* Editing, regenerating and deleting begin.
LEMMA TurnBegins ==
    ASSUME IInv, \/ \E i \in Ids : EditBegin(i) \/ RegenerateBegin(i)
                 \/ DeleteBegin
    PROVE  IInv'
<1>1. /\ "edit" \in Slots \ Sends /\ "regenerate" \in Slots \ Sends /\ "delete" \in Slots \ Sends
  BY Constants
<1>2. PICK s \in {"edit", "regenerate", "delete"}, i \in Ids \cup {None}, t \in Texts \cup {None} :
        /\ Request(s, s, active, i, t)
        /\ Await(s)
        /\ active \in Convs
        /\ s \in {"edit", "regenerate"} => i \in Ids
        /\ s = "edit" => t \in Texts
        /\ UNCHANGED <<conv, turn, begun, view, cache, draft, due>>
  <2>1. ASSUME NEW i \in Ids, EditBegin(i)
        PROVE  \E t \in Texts :
                /\ Request("edit", "edit", active, i, t) /\ Await("edit") /\ active \in Convs
                /\ UNCHANGED <<conv, turn, begun, view, cache, draft, due>>
    BY <2>1, Constants DEF EditBegin, LastShown, IInv, PageInv
  <2>2. ASSUME NEW i \in Ids, RegenerateBegin(i)
        PROVE  /\ Request("regenerate", "regenerate", active, i, None) /\ Await("regenerate")
               /\ active \in Convs
               /\ UNCHANGED <<conv, turn, begun, view, cache, draft, due>>
    BY <2>2 DEF RegenerateBegin, LastShown, IInv, PageInv
  <2>3. ASSUME DeleteBegin
        PROVE  /\ Request("delete", "delete", active, None, None) /\ Await("delete")
               /\ active \in Convs
               /\ UNCHANGED <<conv, turn, begun, view, cache, draft, due>>
    BY <2>3 DEF DeleteBegin, IInv, PageInv
  <2> QED
    BY <2>1, <2>2, <2>3
<1> DEFINE r == [op |-> s, pc |-> "asked", conv |-> active, id |-> i, text |-> t]
           w == [pc |-> "waiting", conv |-> active, text |-> None]
<1>3. r \in CallType /\ w \in PendType /\ s \in Slots /\ s \notin Sends
  BY <1>1, <1>2 DEF CallType, PendType
<1>4. call' = [call EXCEPT ![s] = r] /\ pend' = [pend EXCEPT ![s] = w]
  BY <1>2 DEF Request, Await
<1>5. /\ call' \in [Slots -> CallType] /\ call'[s] = r
      /\ \A q \in Slots : q # s => call'[q] = call[q]
  BY <1>3, <1>4 DEF IInv, ServerInv
<1>6. /\ pend' \in [Slots -> PendType] /\ pend'[s] = w
      /\ \A q \in Slots : q # s => pend'[q] = pend[q]
  BY <1>3, <1>4 DEF IInv, PageInv
<1>7. Fits(call[s])' /\ ~Thought(s, "send")'
  BY <1>2, <1>5 DEF Fits, Thought
<1>8. ServerInv'
  BY <1>2, <1>3, <1>5, <1>7, CallChanges DEF IInv
<1>9. Awaited(s)'
  BY <1>2, <1>6 DEF Awaited
<1>10. \A q \in Slots : Awaited(q)'
  BY <1>3, <1>5, <1>6, <1>9, OthersWait DEF IInv
<1> QED
  BY <1>2, <1>6, <1>8, <1>10 DEF IInv, PageInv, view, cache

LEMMA DeleteSteps ==
    ASSUME IInv, DeleteDone \/ DeleteLeave \/ DeleteFails
    PROVE  IInv'
<1>1. "delete" \in Slots
  BY Constants
<1>2. CASE DeleteFails
  <2>1. /\ ServerInv'
        /\ pend' \in [Slots -> PendType]
        /\ \A q \in Slots : Awaited(q)'
    BY <1>1, <1>2, OverKeeps DEF DeleteFails, Close
  <2> QED
    BY <1>2, <2>1 DEF IInv, PageInv, DeleteFails, view, cache
<1>3. CASE DeleteDone
  <2>1. call \in [Slots -> CallType] /\ NoCall \in CallType
    BY DEF IInv, ServerInv, NoCall, CallType
  <2>2. /\ call' \in [Slots -> CallType] /\ call'["delete"] = NoCall
        /\ \A q \in Slots : q # "delete" => call'[q] = call[q]
    BY <1>1, <1>3, <2>1 DEF DeleteDone
  <2>3. Fits(call["delete"])' /\ ~Thought("delete", "send")'
    BY <2>2 DEF Fits, Thought, NoCall
  <2>4. ServerInv'
    BY <1>1, <1>3, <2>2, <2>3, CallChanges DEF IInv, DeleteDone
  <2>5. /\ pend' \in [Slots -> PendType] /\ pend'["delete"].pc = "leaving"
        /\ pend'["delete"].conv = pend["delete"].conv
        /\ \A q \in Slots : q # "delete" => pend'[q] = pend[q]
    BY <1>1, <1>3 DEF IInv, PageInv, PendType, DeleteDone
  <2>6. pend["delete"].conv \in Convs
    BY <1>1, <1>3, PendParts DEF IInv, Awaited, DeleteDone, Waits
  <2>7. Awaited("delete")'
    BY <2>5, <2>6 DEF Awaited
  <2>8. \A q \in Slots : Awaited(q)'
    BY <1>1, <2>2, <2>5, <2>7, OthersWait DEF IInv
  <2> QED
    BY <1>3, <2>4, <2>5, <2>8 DEF IInv, PageInv, DeleteDone, view, cache
<1>4. CASE DeleteLeave
  <2>1. ServerInv'
    BY <1>4, SameServer DEF IInv, DeleteLeave
  <2>2. pend \in [Slots -> PendType] /\ NoPend \in PendType
    BY DEF IInv, PageInv, NoPend, PendType
  <2>3. /\ pend' \in [Slots -> PendType] /\ pend'["delete"] = NoPend
        /\ \A q \in Slots : q # "delete" => pend'[q] = pend[q] /\ call'[q] = call[q]
    BY <1>1, <1>4, <2>2 DEF DeleteLeave, serverVars
  <2>4. Awaited("delete")'
    BY <2>3 DEF Awaited, NoPend
  <2>5. \A q \in Slots : Awaited(q)'
    BY <1>1, <2>3, <2>4, OthersWait DEF IInv
  <2> QED
    BY <1>4, <2>1, <2>3, <2>5 DEF IInv, PageInv, DeleteLeave, cache
<1> QED
  BY <1>2, <1>3, <1>4

LEMMA ServeKeeps ==
    ASSUME IInv, Serve
    PROVE  IInv'
<1>1. ServerInv'
  BY ServerSteps DEF IInv, Serve
<1>2. \A q \in Slots : Awaited(q)'
  BY ServerSteps DEF IInv, PageInv, Serve, pageVars, Awaited
<1> QED
  BY <1>1, <1>2 DEF IInv, PageInv, Serve, pageVars

LEMMA StepIInv == IInv /\ [Next]_vars => IInv'
<1> SUFFICES ASSUME IInv, [Next]_vars PROVE IInv'
  OBVIOUS
<1>1. CASE UNCHANGED vars
  <2>1. UNCHANGED <<serverVars, pend>>
    BY <1>1 DEF vars, serverVars
  <2>2. ServerInv'
    BY <2>1, SameServer DEF IInv
  <2>3. pend' \in [Slots -> PendType] /\ \A s \in Slots : Awaited(s)'
    BY <2>1, SameWaits DEF IInv
  <2> QED
    BY <1>1, <2>2, <2>3 DEF IInv, PageInv, vars
<1>2. CASE Serve
  BY <1>2, ServeKeeps
<1>3. CASE \/ Type \/ VisitNew
           \/ \E c \in Convs :
                Visit(c) \/ EnterFirst(c) \/ Refetch(c) \/ FetchAnswer(c) \/ FetchLand(c) \/ FetchFails(c)
  BY <1>3, ViewSteps
<1>4. ASSUME NEW s \in Sends, Handle(s)
      PROVE  IInv'
  BY <1>4, SubmitKeeps, ProceedKeeps, ProceedNewKeeps, SendEnds DEF Handle
<1>5. CASE (\E i \in Ids : EditBegin(i) \/ RegenerateBegin(i)) \/ DeleteBegin
  BY <1>5, TurnBegins
<1>6. ASSUME NEW s \in Slots, TurnDone(s) \/ TurnFails(s)
      PROVE  IInv'
  BY <1>6, TurnEnds
<1>7. CASE DeleteDone \/ DeleteLeave \/ DeleteFails
  BY <1>7, DeleteSteps
<1> QED
  BY <1>1, <1>2, <1>3, <1>4, <1>5, <1>6, <1>7 DEF Next

LEMMA InvariantIInv == Spec => []IInv
  BY InitIInv, StepIInv, PTL DEF Spec

\* Records, cache and requests have values the code can give them, whatever
\* the requests, the user and the fetches do (chat_service.py, Chat.tsx).
THEOREM ChatTypeCorrect == Spec => []TypeOK
<1>1. IInv => TypeOK
  BY DEF IInv, ServerInv, PageInv, TypeOK
<1> QED
  BY <1>1, InvariantIInv, PTL

\* Every message belongs to a conversation that is there, and a conversation
\* counts the messages it has (apply_chat_exchange_to_state,
\* remove_conversation_from_state).
THEOREM MessagesAddUp == Spec => []ConversationsAddUp
<1>1. IInv => ConversationsAddUp
  BY DEF IInv, ServerInv, ConversationsAddUp
<1> QED
  BY <1>1, InvariantIInv, PTL

-----------------------------------------------------------------------------
(* What becomes of a text that is submitted *)

Done == {"stored", "ok", "undone"}

\* The text that is owed to the user is in the field until the message is
\* posted, then in the request until it is stored.
Carries(s) ==
    /\ pend[s].pc \in {"reading", "creating", "posting"}
    /\ due \subseteq {pend[s].text}
    /\ pend[s].pc \in {"reading", "creating"} => due \subseteq {draft}
    /\ pend[s].pc = "posting" /\ call[s].pc \in Done => due = {}

\* A text is owed only while one submission at most is under way.
Owed ==
    \/ due = {}
    \/ UnderWay = {} /\ due \subseteq {draft}
    \/ \E s \in Sends : UnderWay = {s} /\ Carries(s)

\* A message that is stored makes its turn say what it says.
LEMMA StoredSaysIt ==
    ASSUME IInv, ServerNext, NEW s \in Slots, call[s].op = "send", call'[s].pc \in Done,
           call[s].pc \notin Done
    PROVE  \E i \in Ids : turn'[i] # turn[i] /\ turn'[i].said = call[s].text
<1>1. PICK q \in Slots :
        \/ Create(q) \/ ResolveSend(q) \/ ResolveTurn(q) \/ ResolveDelete(q) \/ Refuse(q)
        \/ StoreSend(q) \/ StoreTurn(q) \/ StoreDelete(q) \/ StoreFinds(q)
        \/ Reread(q) \/ Fail(q)
  BY DEF ServerNext
<1>2. call \in [Slots -> CallType]
  BY DEF IInv, ServerInv
<1>3. q = s
  <2>1. CASE Create(q) \/ ResolveSend(q) \/ ResolveTurn(q)
    BY <1>2, <2>1 DEF Create, ResolveSend, ResolveTurn, Becomes
  <2>2. CASE \/ ResolveDelete(q) \/ Refuse(q) \/ StoreSend(q) \/ StoreTurn(q) \/ StoreDelete(q)
             \/ StoreFinds(q) \/ Reread(q) \/ Fail(q)
    BY <1>2, <2>2 DEF ResolveDelete, Refuse, StoreSend, StoreTurn, StoreDelete, StoreFinds,
       Reread, Fail, Answer
  <2> QED
    BY <1>1, <2>1, <2>2
<1>4. CASE StoreSend(s)
  <2>1. call[s].id \in Ids /\ turn[call[s].id] = NoTurn /\ call[s].text \in Texts
    BY <1>4, CallParts, Constants DEF IInv, ServerInv, Fits, StoreSend, Thought, Ids
  <2>2. /\ turn'[call[s].id].said = call[s].text
    BY <1>4, <2>1 DEF StoreSend, IInv, ServerInv
  <2>3. turn'[call[s].id] # turn[call[s].id]
    BY <2>1, <2>2, Constants DEF NoTurn
  <2> QED
    BY <2>1, <2>2, <2>3
<1>5. CASE \/ Create(s) \/ ResolveSend(s) \/ ResolveTurn(s) \/ ResolveDelete(s)
           \/ StoreTurn(s) \/ StoreDelete(s) \/ Reread(s)
  BY <1>5 DEF Create, ResolveSend, ResolveTurn, ResolveDelete, StoreTurn, StoreDelete, Reread,
     Asked, Thought, Becomes, Done, IInv, ServerInv
<1>6. CASE Refuse(s) \/ StoreFinds(s)
  BY <1>2, <1>6 DEF Refuse, StoreFinds, Answer, CallType, Done
<1>7. CASE Fail(s)
  BY <1>2, <1>7 DEF Fail, Answer, CallType, Done
<1> QED
  BY <1>1, <1>3, <1>4, <1>5, <1>6, <1>7

\* A step that leaves the submissions alone, and what they wait for.
LEMMA DueElsewhere ==
    ASSUME Owed, due' \subseteq due, draft' = draft,
           \A s \in Sends : pend'[s] = pend[s] /\ call'[s] = call[s]
    PROVE  Owed'
<1>1. UnderWay' = UnderWay
  BY DEF UnderWay
<1>2. \A s \in Sends : Carries(s) => Carries(s)'
  BY DEF Carries
<1> QED
  BY <1>1, <1>2 DEF Owed

LEMMA DueServed ==
    ASSUME IInv, Owed, Serve
    PROVE  Owed'
<1>1. UNCHANGED <<pend, draft>> /\ due' \subseteq due /\ UnderWay' = UnderWay
  BY DEF Serve, pageVars, UnderWay
<1>2. ASSUME NEW s \in Sends, Carries(s)
      PROVE  Carries(s)'
  <2>1. CASE pend[s].pc = "posting" /\ call'[s].pc \in Done /\ call[s].pc \notin Done
    <3>1. s \in Slots /\ call[s].op = "send" /\ call[s].text = pend[s].text
      BY <2>1, Constants DEF IInv, PageInv, Awaited
    <3>2. PICK i \in Ids : turn'[i] # turn[i] /\ turn'[i].said = pend[s].text
      BY <2>1, <3>1, StoredSaysIt DEF Serve
    <3>3. due' = {}
      BY <1>2, <3>2 DEF Serve, Carries
    <3> QED
      BY <1>1, <1>2, <3>3 DEF Carries
  <2>2. CASE ~(pend[s].pc = "posting" /\ call'[s].pc \in Done /\ call[s].pc \notin Done)
    BY <1>1, <1>2, <2>2 DEF Carries
  <2> QED
    BY <2>1, <2>2
<1> QED
  BY <1>1, <1>2 DEF Owed

\* A submission alone moves on, or ends: the others' requests are not its own.
LEMMA DueHandled ==
    ASSUME IInv, Owed, NEW s \in Sends, Handle(s)
    PROVE  Owed'
<1>1. s \in Slots /\ pend \in [Slots -> PendType] /\ call \in [Slots -> CallType] /\ Sends \subseteq Slots
  BY Constants DEF IInv, PageInv, ServerInv
<1>2. CASE Submit(s)
  <2>1. CASE UnderWay = {}
    <3>1. due' \subseteq {draft} /\ draft' = draft
      BY <1>2, <2>1 DEF Submit, Owed, Carries
    <3>2. pend'[s].pc = "reading" /\ pend'[s].text = draft
          /\ \A r \in Sends \ {s} : pend'[r] = pend[r]
      BY <1>1, <1>2 DEF Submit
    <3>3. UnderWay' = {s}
      BY <2>1, <3>2 DEF UnderWay
    <3> QED
      BY <3>1, <3>2, <3>3 DEF Owed, Carries
  <2>2. CASE UnderWay # {}
    BY <1>2, <2>2 DEF Submit, Owed
  <2> QED
    BY <2>1, <2>2
<1>3. CASE ~Submit(s)
  <2>1. s \in UnderWay /\ due' = due
    BY <1>1, <1>3 DEF Handle, Proceed, ProceedNew, Created, CreateFails, Sent, SendFails, Post, Waits, UnderWay
  <2>2. \A r \in Sends \ {s} : pend'[r] = pend[r]
    BY <1>1, <1>3 DEF Handle, Proceed, ProceedNew, Created, CreateFails, Sent, SendFails, Post
  <2>3. CASE due = {}
    BY <2>1, <2>3 DEF Owed
  <2>4. CASE due # {}
    <3>1. UnderWay = {s} /\ Carries(s)
      BY <2>1, <2>4 DEF Owed
    <3>2. \A r \in Sends \ {s} : pend'[r].pc = "idle"
      BY <2>2, <3>1 DEF UnderWay
    <3>3. ASSUME NEW c, Post(s, c)
          PROVE  Owed'
      <4>1. /\ pend'[s].pc = "posting" /\ pend'[s].text = pend[s].text
            /\ call'[s].pc = "asked" /\ due' = due
        BY <1>1, <3>3 DEF Post, Request
      <4>2. UnderWay' = {s}
        BY <3>2, <4>1 DEF UnderWay
      <4> QED
        BY <3>1, <4>1, <4>2 DEF Owed, Carries, Done
    <3>4. CASE Proceed(s) \/ Created(s)
      BY <3>3, <3>4 DEF Proceed, Created
    <3>5. CASE ProceedNew(s)
      <4>1. pend'[s].pc = "creating" /\ pend'[s].text = pend[s].text /\ UNCHANGED <<draft, due>>
        BY <1>1, <3>5 DEF ProceedNew, PendType
      <4>2. UnderWay' = {s}
        BY <3>2, <4>1 DEF UnderWay
      <4> QED
        BY <3>1, <3>5, <4>1, <4>2 DEF Owed, Carries, ProceedNew, Waits
    <3>6. CASE CreateFails(s) \/ Sent(s) \/ SendFails(s)
      <4>1. pend'[s].pc = "idle"
        BY <1>1, <3>6 DEF CreateFails, Sent, SendFails, NoPend
      <4>2. due' \subseteq {draft'}
        BY <3>1, <3>6 DEF CreateFails, Sent, SendFails, Carries, Waits, Succeeded, Done
      <4>3. UnderWay' = {}
        BY <3>2, <4>1 DEF UnderWay
      <4> QED
        BY <4>2, <4>3 DEF Owed
    <3> QED
      BY <1>3, <3>4, <3>5, <3>6 DEF Handle
  <2> QED
    BY <2>3, <2>4
<1> QED
  BY <1>2, <1>3

LEMMA DueSteps ==
    ASSUME IInv, Owed, [Next]_vars
    PROVE  Owed'
<1>1. /\ Sends \subseteq Slots /\ \A s \in Sends : s \notin {"edit", "regenerate", "delete"}
      /\ pend \in [Slots -> PendType] /\ call \in [Slots -> CallType]
  BY Constants DEF IInv, PageInv, ServerInv
<1>2. CASE UNCHANGED vars
  BY <1>2, DueElsewhere DEF vars
<1>3. CASE Type \/ VisitNew
  <2>1. pend' = pend /\ call' = call /\ due' = due \ {draft}
    BY <1>3 DEF Type, VisitNew, serverVars
  <2>2. CASE due \subseteq {draft}
    BY <2>1, <2>2 DEF Owed
  <2>3. CASE ~(due \subseteq {draft})
    <3>1. PICK s \in Sends : UnderWay = {s} /\ Carries(s)
      BY <2>3 DEF Owed
    <3>2. UnderWay' = {s} /\ Carries(s)'
      BY <2>1, <2>3, <3>1 DEF UnderWay, Carries
    <3> QED
      BY <3>2 DEF Owed
  <2> QED
    BY <2>2, <2>3
<1>4. CASE \E c \in Convs :
                Visit(c) \/ EnterFirst(c) \/ Refetch(c) \/ FetchAnswer(c) \/ FetchLand(c) \/ FetchFails(c)
  <2>1. UNCHANGED <<pend, call, draft, due>>
    BY <1>4 DEF Visit, EnterFirst, Refetch, FetchAnswer, FetchLand, FetchFails, serverVars
  <2> QED
    BY <2>1, DueElsewhere
<1>5. CASE (\E i \in Ids : EditBegin(i) \/ RegenerateBegin(i)) \/ DeleteBegin
  <2>1. UNCHANGED <<draft, due>> /\ \A s \in Sends : pend'[s] = pend[s] /\ call'[s] = call[s]
    BY <1>1, <1>5 DEF EditBegin, RegenerateBegin, DeleteBegin, Await, Request
  <2> QED
    BY <2>1, DueElsewhere
<1>6. CASE (\E q \in Slots : TurnDone(q) \/ TurnFails(q)) \/ DeleteDone \/ DeleteFails \/ DeleteLeave
  <2>1. UNCHANGED <<draft, due>> /\ \A s \in Sends : pend'[s] = pend[s] /\ call'[s] = call[s]
    BY <1>1, <1>6 DEF TurnDone, TurnFails, DeleteDone, DeleteFails, DeleteLeave, Close, serverVars
  <2> QED
    BY <2>1, DueElsewhere
<1> QED
  BY <1>2, <1>3, <1>4, <1>5, <1>6, DueServed, DueHandled DEF Next

\* However many submissions the page runs, a text that was submitted alone is,
\* until another submission begins, under way, stored, or back in the field
\* (handleSend, Chat.tsx).
THEOREM SubmittedTextIsKept == Spec => []SentIsKept
<1>1. Init => Owed
  BY DEF Init, Owed
<1>2. IInv /\ Owed /\ [Next]_vars => Owed'
  BY DueSteps
<1>3. Owed => SentIsKept
  BY DEF Owed, Carries, SentIsKept
<1>4. Spec => []Owed
  BY <1>1, <1>2, InvariantIInv, PTL DEF Spec
<1> QED
  BY <1>3, <1>4, PTL

-----------------------------------------------------------------------------
(* What a quiet page shows *)

\* A request is under way for what the page waits for.
Answers(s) ==
    call[s].pc # "idle" =>
       \/ s \in Sends /\ call[s].op = "create" /\ pend[s].pc = "creating"
       \/ s \in Sends /\ call[s].op = "send" /\ pend[s].pc = "posting" /\ call[s].conv = pend[s].conv
       \/ s \notin Sends /\ call[s].op = s /\ pend[s].pc = "waiting" /\ call[s].conv = pend[s].conv

Changes == {"send", "edit", "regenerate"}

\* A turn that is about to be written over is one of the conversation that
\* was asked about, or gone; a conversation that was created is there.
Aims(s) ==
    /\ Thought(s, "edit") \/ Thought(s, "regenerate") =>
          /\ call[s].id \in 1..begun
          /\ turn[call[s].id] # NoTurn => turn[call[s].id].conv = call[s].conv
          /\ \A r \in Slots : Thought(r, "send") => call[r].id # call[s].id
    /\ call[s].op = "create" /\ call[s].pc = "ok" => conv[call[s].conv].state # "absent"

\* A change of c the page has not been answered yet.
Unread(c) ==
    \E s \in Slots : call[s].op \in Changes /\ call[s].pc \in Done /\ call[s].conv = c

Owes(c) ==
    c \in missed \/ fetch[c].pc = "asked" \/ conv[c].state = "deleted" \/ Unread(c)

Untouched(c) ==
    /\ fetch[c].pc = "idle" /\ ~HasData(c) /\ active # c
    /\ \A s \in Slots : pend[s].conv # c
    /\ TurnsOf(c) = {}

\* What is cached of c, or about to be, is what is stored, unless the page
\* is still owed a change.
Faithful(c) ==
    \/ Owes(c)
    \/ Untouched(c)
    \/ fetch[c].pc = "answered" /\ fetch[c].turns = Stored(c)
    \/ fetch[c].pc = "idle" /\ HasData(c) /\ detail[c].turns = Stored(c)

Ghosts(c) == HasData(c) => \A g \in detail[c].ghosts : pend[g].pc = "posting" /\ pend[g].conv = c

CacheInv(c) == Faithful(c) /\ (conv[c].state = "absent" => Untouched(c)) /\ Ghosts(c)

\* A message that is being posted is shown in its conversation.
Posted(s) == pend[s].pc = "posting" => HasData(pend[s].conv)

QInv ==
    /\ \A s \in Slots : Answers(s) /\ Aims(s) /\ Posted(s)
    /\ \A c \in Convs : CacheInv(c)

\* What is stored of one conversation depends on its own turns alone.
LEMMA StoredFrom ==
    ASSUME NEW c, \A i \in Ids : turn[i].conv = c \/ turn'[i].conv = c => turn'[i] = turn[i]
    PROVE  TurnsOf(c)' = TurnsOf(c) /\ Stored(c)' = Stored(c)
<1>1. TurnsOf(c)' = TurnsOf(c)
  BY DEF TurnsOf
<1>2. \A i \in TurnsOf(c) : ShownAs(i)' = ShownAs(i)
  BY DEF TurnsOf, ShownAs
<1> QED
  BY <1>1, <1>2 DEF Stored

\* The server moves one request, which stays what it is for.
LEMMA ServerMoves ==
    ASSUME ServerInv, NEW s \in Slots,
           \/ Create(s) \/ ResolveSend(s) \/ ResolveTurn(s) \/ ResolveDelete(s) \/ Refuse(s)
           \/ StoreSend(s) \/ StoreTurn(s) \/ StoreDelete(s) \/ StoreFinds(s)
           \/ Reread(s) \/ Fail(s)
    PROVE  /\ \A q \in Slots : q # s => call'[q] = call[q]
           /\ call[s].pc # "idle" /\ call'[s].op = call[s].op
           /\ call[s].op # "create" => call'[s].conv = call[s].conv
           /\ call[s].op \in Changes /\ call[s].pc \in Done => call'[s].pc \in Done
<1>1. call \in [Slots -> CallType]
  BY DEF ServerInv
<1>2. CASE \/ ResolveDelete(s) \/ Refuse(s) \/ StoreSend(s) \/ StoreTurn(s) \/ StoreDelete(s)
           \/ StoreFinds(s) \/ Reread(s) \/ Fail(s)
  <2>1. PICK how \in {"thinking", "stored"} \cup Over : Answer(s, how)
    BY <1>2 DEF ResolveDelete, Refuse, StoreSend, StoreTurn, StoreDelete, StoreFinds, Reread, Fail, Over
  <2>2. /\ \A q \in Slots : q # s => call'[q] = call[q]
        /\ call'[s].op = call[s].op /\ call'[s].conv = call[s].conv /\ call'[s].pc = how
    BY <2>1, AnswerParts
  <2>3. call[s].pc # "idle"
    BY <1>2 DEF ResolveDelete, Refuse, StoreSend, StoreTurn, StoreDelete, StoreFinds, Reread, Fail,
       Asked, Thought
  <2>4. ASSUME call[s].op \in Changes, call[s].pc \in Done
        PROVE  how \in Done
    <3>1. call[s].pc = "stored"
      BY <1>2, <2>4 DEF ResolveDelete, Refuse, StoreSend, StoreTurn, StoreDelete, StoreFinds, Reread, Fail,
         Asked, Thought, Done
    <3>2. Answer(s, "ok") \/ Answer(s, "undone")
      BY <1>2, <3>1 DEF ResolveDelete, Refuse, StoreSend, StoreTurn, StoreDelete, StoreFinds, Reread,
         Fail, Asked, Thought
    <3> QED
      BY <2>2, <3>2, AnswerParts DEF Done, Over
  <2> QED
    BY <2>2, <2>3, <2>4
<1>3. CASE Create(s) \/ ResolveSend(s) \/ ResolveTurn(s)
  BY <1>1, <1>3 DEF Create, ResolveSend, ResolveTurn, Becomes, Asked, Done
<1> QED
  BY <1>2, <1>3

\* A step that thinks of no new turn to change or to send, and keeps what is
\* stored, aims as before.
LEMMA AimsStay ==
    ASSUME ServerInv, \A q \in Slots : Aims(q), NEW s \in Slots,
           \A q \in Slots : q # s => call'[q] = call[q],
           ~Thought(s, "send")' \/ call'[s] = call[s],
           (~Thought(s, "edit")' /\ ~Thought(s, "regenerate")') \/ call'[s] = call[s],
           call'[s].op = "create" /\ call'[s].pc = "ok" =>
              call'[s].conv \in Convs /\ conv'[call'[s].conv].state # "absent",
           \A i \in Ids : turn'[i] # NoTurn => (turn[i] # NoTurn /\ turn'[i].conv = turn[i].conv)
                       \/ \E r \in Slots : Thought(r, "send") /\ call[r].id = i,
           \A c \in Convs : conv[c].state # "absent" => conv'[c].state # "absent",
           begun' \in Nat, begun <= begun'
    PROVE  \A q \in Slots : Aims(q)'
<1>1. begun \in Nat /\ begun <= MaxTurns /\ MaxTurns \in Nat
  BY Constants DEF ServerInv
<1> SUFFICES ASSUME NEW q \in Slots PROVE Aims(q)'
  OBVIOUS
<1>2. ASSUME Thought(q, "edit")' \/ Thought(q, "regenerate")'
      PROVE  /\ call'[q].id \in 1..begun'
             /\ turn'[call'[q].id] # NoTurn => turn'[call'[q].id].conv = call'[q].conv
             /\ \A r \in Slots : Thought(r, "send")' => call'[r].id # call'[q].id
  <2>1. call'[q] = call[q] /\ (Thought(q, "edit") \/ Thought(q, "regenerate"))
    BY <1>2 DEF Thought
  <2>2. /\ call[q].id \in 1..begun
        /\ turn[call[q].id] # NoTurn => turn[call[q].id].conv = call[q].conv
        /\ \A r \in Slots : Thought(r, "send") => call[r].id # call[q].id
    BY <2>1 DEF Aims
  <2>3. \A r \in Slots : Thought(r, "send")' => Thought(r, "send") /\ call'[r] = call[r]
    BY DEF Thought
  <2>4. call[q].id \in Ids /\ call[q].id \in 1..begun'
    BY <1>1, <2>2 DEF Ids
  <2>5. turn'[call[q].id] # NoTurn => turn[call[q].id] # NoTurn /\ turn'[call[q].id].conv = turn[call[q].id].conv
    BY <2>2, <2>4
  <2> QED
    BY <2>1, <2>2, <2>3, <2>4, <2>5
<1>3. ASSUME call'[q].op = "create", call'[q].pc = "ok"
      PROVE  conv'[call'[q].conv].state # "absent"
  <2>1. CASE q = s
    BY <1>3, <2>1
  <2>2. CASE q # s
    <3>1. call'[q] = call[q] /\ call[q].conv \in Convs
      BY <1>3, <2>2, CallParts DEF Fits
    <3> QED
      BY <1>3, <3>1 DEF Aims
  <2> QED
    BY <2>1, <2>2
<1> QED
  BY <1>2, <1>3 DEF Aims

\* A request that thinks, or is answered, without writing a message.
LEMMA QuietServer ==
    ASSUME ServerInv, \A q \in Slots : Aims(q), NEW s \in Slots,
           \/ Create(s) \/ ResolveSend(s) \/ ResolveTurn(s) \/ ResolveDelete(s) \/ Refuse(s)
           \/ StoreFinds(s) \/ Reread(s) \/ Fail(s)
    PROVE  /\ \A q \in Slots : Aims(q)'
           /\ turn' = turn
           /\ \A c \in Convs : /\ conv[c].state # "absent" => conv'[c].state # "absent"
                               /\ conv[c].state = "deleted" => conv'[c].state = "deleted"
<1>1. call \in [Slots -> CallType] /\ conv \in [Convs -> ConvType] /\ begun \in Nat
  BY Constants DEF ServerInv
<1>2. turn' = turn
  BY DEF Create, ResolveSend, ResolveTurn, ResolveDelete, Refuse, StoreFinds, Reread, Fail
<1>3. \A c \in Convs : /\ conv[c].state # "absent" => conv'[c].state # "absent"
                       /\ conv[c].state = "deleted" => conv'[c].state = "deleted"
  <2>1. CASE Create(s)
    BY <1>1, <2>1 DEF Create
  <2>2. CASE ~Create(s)
    BY <2>2 DEF ResolveSend, ResolveTurn, ResolveDelete, Refuse, StoreFinds, Reread, Fail
  <2> QED
    BY <2>1, <2>2
<1>4. \A q \in Slots : q # s => call'[q] = call[q]
  BY ServerMoves
<1>5. CASE ResolveDelete(s) \/ Refuse(s) \/ StoreFinds(s) \/ Reread(s) \/ Fail(s)
  <2>1. PICK how \in {"thinking", "stored"} \cup Over :
          /\ Answer(s, how)
          /\ how = "thinking" => call[s].op = "delete"
          /\ how = "ok" => call[s].pc = "stored"
    BY <1>5 DEF ResolveDelete, Refuse, StoreFinds, Reread, Fail, Over, Asked
  <2>2. call'[s].pc = how /\ call'[s].op = call[s].op
    BY <2>1, AnswerParts
  <2>3. ~(call'[s].op = "create" /\ call'[s].pc = "ok")
    BY <2>1, <2>2, CallParts DEF Fits
  <2>4. ~Thought(s, "send")' /\ ~Thought(s, "edit")' /\ ~Thought(s, "regenerate")'
    BY <2>1, <2>2 DEF Thought
  <2>5. begun' = begun
    BY <1>5 DEF ResolveDelete, Refuse, StoreFinds, Reread, Fail
  <2> QED
    BY <1>1, <1>2, <1>3, <1>4, <2>3, <2>4, <2>5, AimsStay
<1>6. CASE Create(s)
  <2>1. PICK c \in Convs :
          /\ conv' = [conv EXCEPT ![c] = [state |-> "open", count |-> 0]]
          /\ Becomes(s, "ok", c, None, None) /\ begun' = begun
    BY <1>6 DEF Create
  <2>2. call'[s].conv = c /\ call'[s].pc = "ok"
    BY <1>1, <2>1 DEF Becomes
  <2>3. ~Thought(s, "send")' /\ ~Thought(s, "edit")' /\ ~Thought(s, "regenerate")'
    BY <2>2 DEF Thought
  <2>4. conv'[c].state # "absent"
    BY <1>1, <2>1
  <2> QED
    BY <1>1, <1>2, <1>3, <1>4, <2>1, <2>2, <2>3, <2>4, AimsStay
<1>7. CASE ResolveSend(s)
  <2>1. /\ begun' = begun + 1 /\ call[s].op = "send"
        /\ Becomes(s, "thinking", call[s].conv, begun + 1, call[s].text)
    BY <1>7 DEF ResolveSend, Asked
  <2>2. call'[s].id = begun + 1 /\ call'[s].op = "send" /\ call'[s].pc = "thinking"
    BY <1>1, <2>1 DEF Becomes
  <2> SUFFICES ASSUME NEW q \in Slots PROVE Aims(q)'
    BY <1>2, <1>3
  <2>3. ASSUME Thought(q, "edit")' \/ Thought(q, "regenerate")'
        PROVE  /\ call'[q].id \in 1..begun'
               /\ turn'[call'[q].id] # NoTurn => turn'[call'[q].id].conv = call'[q].conv
               /\ \A r \in Slots : Thought(r, "send")' => call'[r].id # call'[q].id
    <3>1. call'[q] = call[q] /\ (Thought(q, "edit") \/ Thought(q, "regenerate"))
      BY <1>4, <2>2, <2>3 DEF Thought
    <3>2. /\ call[q].id \in 1..begun
          /\ turn[call[q].id] # NoTurn => turn[call[q].id].conv = call[q].conv
          /\ \A r \in Slots : Thought(r, "send") => call[r].id # call[q].id
      BY <3>1 DEF Aims
    <3>3. \A r \in Slots : r # s /\ Thought(r, "send")' => call'[r].id # call[q].id
      BY <1>4, <3>2 DEF Thought
    <3> QED
      BY <1>1, <1>2, <2>1, <2>2, <3>1, <3>2, <3>3
  <2>4. call'[q].op = "create" /\ call'[q].pc = "ok" => conv'[call'[q].conv].state # "absent"
    BY <1>4, <1>7, <2>2 DEF Aims, ResolveSend
  <2> QED
    BY <2>3, <2>4 DEF Aims
<1>8. CASE ResolveTurn(s)
  <2>1. /\ call[s].op \in {"edit", "regenerate"} /\ IsLatest(call[s].conv, call[s].id)
        /\ call'[s].pc = "thinking" /\ call'[s].op = call[s].op /\ call'[s].conv = call[s].conv
        /\ call'[s].id = call[s].id
    BY <1>1, <1>8 DEF ResolveTurn, Asked, Becomes
  <2>2. begun' = begun /\ conv' = conv
    BY <1>8 DEF ResolveTurn
  <2>3. call[s].conv \in Convs
    BY <2>1, CallParts DEF Fits
  <2>4. /\ call[s].id \in Ids /\ turn[call[s].id].conv = call[s].conv /\ turn[call[s].id] # NoTurn
    BY <2>1, <2>3, Constants DEF IsLatest, TurnsOf, NoTurn
  <2>5. call[s].id \in 1..begun
    BY <1>1, <2>4 DEF ServerInv, Ids
  <2>6. \A r \in Slots : Thought(r, "send")' => call'[r] = call[r] /\ Thought(r, "send") /\ call[r].id # call[s].id
    BY <1>4, <2>1, <2>4 DEF Thought, ServerInv
  <2> SUFFICES ASSUME NEW q \in Slots PROVE Aims(q)'
    BY <1>2, <1>3
  <2>7. CASE q = s
    BY <1>2, <2>1, <2>2, <2>4, <2>5, <2>6, <2>7 DEF Aims
  <2>8. CASE q # s
    BY <1>2, <1>4, <2>2, <2>6, <2>8 DEF Aims, Thought
  <2> QED
    BY <2>7, <2>8
<1> QED
  BY <1>5, <1>6, <1>7, <1>8

\* Writing messages: only of the conversation the request is about.
LEMMA WritingServer ==
    ASSUME ServerInv, \A q \in Slots : Aims(q), NEW s \in Slots,
           StoreSend(s) \/ StoreTurn(s) \/ StoreDelete(s)
    PROVE  /\ \A q \in Slots : Aims(q)'
           /\ call[s].pc = "thinking" /\ call[s].conv \in Convs
           /\ \A i \in Ids : turn'[i] # turn[i] => turn[i].conv \in {call[s].conv, None}
                                                /\ turn'[i].conv \in {call[s].conv, None}
           /\ \/ call'[s].op \in Changes /\ call'[s].pc \in Done /\ call'[s].conv = call[s].conv
              \/ conv'[call[s].conv].state = "deleted" /\ TurnsOf(call[s].conv)' = {}
           /\ \A c \in Convs : /\ conv[c].state # "absent" => conv'[c].state # "absent"
                               /\ conv[c].state = "deleted" => conv'[c].state = "deleted"
<1>1. call \in [Slots -> CallType] /\ conv \in [Convs -> ConvType] /\ turn \in [Ids -> TurnType] /\ begun \in Nat
  BY Constants DEF ServerInv
<1>2. call[s].pc = "thinking" /\ call[s].op \in {"send", "edit", "regenerate", "delete"} /\ call[s].conv \in Convs
  BY CallParts DEF StoreSend, StoreTurn, StoreDelete, Thought, Fits
<1>3. \A q \in Slots : q # s => call'[q] = call[q]
  BY ServerMoves
<1>4. begun' = begun
  BY DEF StoreSend, StoreTurn, StoreDelete
<1>5. CASE StoreSend(s)
  <2>1. /\ Thought(s, "send") /\ Answer(s, "stored")
        /\ conv' = [conv EXCEPT ![call[s].conv].count = @ + 2]
        /\ turn' = [turn EXCEPT ![call[s].id] =
             [conv |-> call[s].conv, said |-> call[s].text, reply |-> call[s].text, version |-> 0]]
    BY <1>5 DEF StoreSend
  <2>2. call'[s].op = "send" /\ call'[s].pc = "stored" /\ call'[s].conv = call[s].conv
    BY <2>1, AnswerParts DEF Thought
  <2>3. turn[call[s].id] = NoTurn
    BY <2>1 DEF ServerInv
  <2>4. \A i \in Ids : i # call[s].id => turn'[i] = turn[i]
    BY <1>1, <2>1
  <2>5. call[s].id \in Ids => turn'[call[s].id].conv = call[s].conv
    BY <1>1, <2>1
  <2>6. \A c \in Convs : conv'[c].state = conv[c].state
    BY <1>1, <2>1 DEF ConvType
  <2>7. ~Thought(s, "send")' /\ ~Thought(s, "edit")' /\ ~Thought(s, "regenerate")'
    BY <2>2 DEF Thought
  <2>8. \A q \in Slots : Aims(q)'
    BY <1>1, <1>3, <1>4, <2>1, <2>2, <2>4, <2>6, <2>7, AimsStay
  <2>9. \A i \in Ids : turn'[i] # turn[i] => turn[i].conv = None /\ turn'[i].conv = call[s].conv
    BY <2>3, <2>4, <2>5 DEF NoTurn
  <2> QED
    BY <1>2, <2>2, <2>6, <2>8, <2>9 DEF Changes, Done
<1>6. CASE StoreTurn(s)
  <2> DEFINE new == [conv |-> turn[call[s].id].conv,
                     said |-> IF call[s].op = "edit" THEN call[s].text ELSE turn[call[s].id].said,
                     reply |-> call[s].text,
                     version |-> turn[call[s].id].version + 1]
  <2>1. /\ Thought(s, "edit") \/ Thought(s, "regenerate")
        /\ Answer(s, "stored") /\ conv' = conv
        /\ turn[call[s].id] # NoTurn
        /\ turn' = [turn EXCEPT ![call[s].id] = new]
    BY <1>6 DEF StoreTurn
  <2>2. call'[s].op \in {"edit", "regenerate"} /\ call'[s].pc = "stored" /\ call'[s].conv = call[s].conv
    BY <2>1, AnswerParts DEF Thought
  <2>3. turn[call[s].id].conv = call[s].conv
    BY <2>1 DEF Aims
  <2>4. new.conv = call[s].conv
    BY <2>3
  <2> HIDE DEF new
  <2>5. \A i \in Ids : i # call[s].id => turn'[i] = turn[i]
    BY <1>1, <2>1
  <2>6. call[s].id \in Ids => turn'[call[s].id].conv = call[s].conv
    BY <1>1, <2>1, <2>4
  <2>7. ~Thought(s, "send")' /\ ~Thought(s, "edit")' /\ ~Thought(s, "regenerate")'
    BY <2>2 DEF Thought
  <2>8. \A q \in Slots : Aims(q)'
    BY <1>1, <1>3, <1>4, <2>1, <2>2, <2>3, <2>5, <2>6, <2>7, AimsStay
  <2>9. \A i \in Ids : turn'[i] # turn[i] => turn[i].conv = call[s].conv /\ turn'[i].conv = call[s].conv
    BY <2>3, <2>5, <2>6
  <2> QED
    BY <1>2, <2>1, <2>2, <2>8, <2>9 DEF Changes, Done
<1>7. CASE StoreDelete(s)
  <2>1. /\ Thought(s, "delete") /\ Answer(s, "ok")
        /\ conv' = [conv EXCEPT ![call[s].conv] = [state |-> "deleted", count |-> 0]]
        /\ turn' = [i \in Ids |-> IF turn[i].conv = call[s].conv THEN NoTurn ELSE turn[i]]
    BY <1>7 DEF StoreDelete
  <2>2. call'[s].op = "delete" /\ call'[s].pc = "ok"
    BY <2>1, AnswerParts DEF Thought, Over
  <2>3. /\ conv'[call[s].conv].state = "deleted"
        /\ \A c \in Convs : c # call[s].conv => conv'[c] = conv[c]
    BY <1>1, <1>2, <2>1
  <2>4. \A i \in Ids : turn'[i] = IF turn[i].conv = call[s].conv THEN NoTurn ELSE turn[i]
    BY <2>1
  <2>5. ~Thought(s, "send")' /\ ~Thought(s, "edit")' /\ ~Thought(s, "regenerate")'
    BY <2>2 DEF Thought
  <2>6. \A q \in Slots : Aims(q)'
    BY <1>1, <1>3, <1>4, <2>2, <2>3, <2>4, <2>5, AimsStay
  <2>7. \A i \in Ids : turn'[i] # turn[i] => turn[i].conv = call[s].conv /\ turn'[i].conv = None
    BY <2>4 DEF NoTurn
  <2>8. TurnsOf(call[s].conv)' = {}
    <3>1. \A i \in Ids : turn'[i].conv # call[s].conv
      BY <1>2, <2>4, Constants DEF NoTurn
    <3>2. TurnsOf(call[s].conv)' = {i \in Ids : turn'[i].conv = call'[s].conv}
      BY DEF TurnsOf
    <3>3. call'[s].conv = call[s].conv
      BY <2>1, AnswerParts DEF Over
    <3> QED
      BY <3>1, <3>2, <3>3
  <2> QED
    BY <1>2, <2>3, <2>6, <2>7, <2>8
<1> QED
  BY <1>5, <1>6, <1>7

\* A step of the server keeps what is owed, and makes it owed where it
\* changes what is stored.
LEMMA ServeKeepsCache ==
    ASSUME IInv, QInv, Serve
    PROVE  QInv'
<1>1. PICK s \in Slots :
        \/ Create(s) \/ ResolveSend(s) \/ ResolveTurn(s) \/ ResolveDelete(s) \/ Refuse(s)
        \/ StoreSend(s) \/ StoreTurn(s) \/ StoreDelete(s) \/ StoreFinds(s)
        \/ Reread(s) \/ Fail(s)
  BY DEF Serve, ServerNext
<1>2. ServerInv /\ (\A q \in Slots : Aims(q)) /\ (\A q \in Slots : Answers(q)) /\ UNCHANGED pageVars
  BY DEF IInv, QInv, Serve
<1>3. /\ \A q \in Slots : q # s => call'[q] = call[q]
      /\ call[s].pc # "idle" /\ call'[s].op = call[s].op
      /\ call[s].op # "create" => call'[s].conv = call[s].conv
      /\ call[s].op \in Changes /\ call[s].pc \in Done => call'[s].pc \in Done
  BY <1>1, <1>2, ServerMoves
<1>4. \A q \in Slots : Answers(q)'
  <2> TAKE q \in Slots
  <2>1. CASE q = s
    <3>1. s \in Sends \/ s \in {"edit", "regenerate", "delete"}
      BY Constants
    <3> QED
      BY <1>2, <1>3, <2>1, <3>1 DEF Answers, pageVars
  <2>2. CASE q # s
    BY <1>2, <1>3, <2>2 DEF Answers, pageVars
  <2> QED
    BY <2>1, <2>2
<1>5. \A c : Unread(c) => Unread(c)'
  BY <1>3 DEF Unread, Changes
<1>6. \A c : HasData(c)' <=> HasData(c)
  BY <1>2 DEF HasData, pageVars
<1>7. \A c \in Convs : Ghosts(c)'
  BY <1>2, <1>6 DEF QInv, CacheInv, Ghosts, pageVars
<1>8. CASE StoreSend(s) \/ StoreTurn(s) \/ StoreDelete(s)
  <2>1. /\ \A q \in Slots : Aims(q)'
        /\ call[s].pc = "thinking" /\ call[s].conv \in Convs
        /\ \A i \in Ids : turn'[i] # turn[i] => turn[i].conv \in {call[s].conv, None}
                                             /\ turn'[i].conv \in {call[s].conv, None}
        /\ \/ call'[s].op \in Changes /\ call'[s].pc \in Done /\ call'[s].conv = call[s].conv
           \/ conv'[call[s].conv].state = "deleted" /\ TurnsOf(call[s].conv)' = {}
        /\ \A c \in Convs : /\ conv[c].state # "absent" => conv'[c].state # "absent"
                            /\ conv[c].state = "deleted" => conv'[c].state = "deleted"
    BY <1>2, <1>8, WritingServer
  <2>2. pend[s].conv = call[s].conv
    BY <1>2, <1>3, <1>8, <2>1 DEF Answers, StoreSend, StoreTurn, StoreDelete, Thought
  <2>3. ASSUME NEW c \in Convs, c # call[s].conv
        PROVE  CacheInv(c)'
    <3>1. TurnsOf(c)' = TurnsOf(c) /\ Stored(c)' = Stored(c)
      BY <2>1, <2>3, StoredFrom, Constants
    <3>2. Owes(c) => Owes(c)'
      BY <1>2, <1>5, <2>1 DEF Owes, pageVars
    <3>3. Untouched(c) => Untouched(c)'
      BY <1>2, <1>6, <3>1 DEF Untouched, pageVars
    <3>4. Faithful(c)'
      BY <1>2, <1>6, <3>1, <3>2, <3>3 DEF QInv, CacheInv, Faithful, pageVars
    <3> QED
      BY <1>7, <2>1, <3>3, <3>4 DEF QInv, CacheInv
  <2>4. ASSUME NEW c \in Convs, c = call[s].conv
        PROVE  CacheInv(c)'
    <3>1. Owes(c)'
      BY <2>1, <2>4 DEF Owes, Unread
    <3>2. conv'[c].state # "absent"
      BY <2>1, <2>2, <2>4 DEF QInv, CacheInv, Untouched
    <3> QED
      BY <1>7, <3>1, <3>2 DEF CacheInv, Faithful
  <2>5. \A c \in Convs : CacheInv(c)'
    BY <2>3, <2>4
  <2> QED
    BY <1>2, <1>4, <1>6, <2>1, <2>5 DEF QInv, Posted, pageVars, HasData
<1>9. CASE \/ Create(s) \/ ResolveSend(s) \/ ResolveTurn(s) \/ ResolveDelete(s) \/ Refuse(s)
           \/ StoreFinds(s) \/ Reread(s) \/ Fail(s)
  <2>1. /\ \A q \in Slots : Aims(q)'
        /\ turn' = turn
        /\ \A c \in Convs : /\ conv[c].state # "absent" => conv'[c].state # "absent"
                            /\ conv[c].state = "deleted" => conv'[c].state = "deleted"
    BY <1>2, <1>9, QuietServer
  <2>2. ASSUME NEW c \in Convs
        PROVE  CacheInv(c)'
    <3>1. TurnsOf(c)' = TurnsOf(c) /\ Stored(c)' = Stored(c)
      BY <2>1, StoredFrom
    <3>2. Owes(c) => Owes(c)'
      BY <1>2, <1>5, <2>1 DEF Owes, pageVars
    <3>3. Untouched(c) => Untouched(c)'
      BY <1>2, <1>6, <3>1 DEF Untouched, pageVars
    <3>4. Faithful(c)'
      BY <1>2, <1>6, <3>1, <3>2, <3>3 DEF QInv, CacheInv, Faithful, pageVars
    <3> QED
      BY <1>7, <2>1, <3>3, <3>4 DEF QInv, CacheInv
  <2> QED
    BY <1>2, <1>4, <1>6, <2>1, <2>2 DEF QInv, Posted, pageVars, HasData
<1> QED
  BY <1>1, <1>8, <1>9

-----------------------------------------------------------------------------
\* Where a step of the page leaves what is cached of c, or makes the page owe
\* a fetch, c stays faithful.
LEMMA StaysFaithful ==
    ASSUME NEW c \in Convs, Faithful(c), UNCHANGED <<conv, turn>>,
           Owes(c) => Owes(c)',
           \/ Owes(c)'
           \/ /\ fetch'[c] = fetch[c]
              /\ HasData(c) => HasData(c)' /\ detail'[c].turns = detail[c].turns
              /\ Untouched(c) => Untouched(c)' \/ (HasData(c)' /\ detail'[c].turns = {})
    PROVE  Faithful(c)'
<1>1. TurnsOf(c)' = TurnsOf(c) /\ Stored(c)' = Stored(c)
  BY StoredFrom
<1>2. CASE Owes(c)'
  BY <1>2 DEF Faithful
<1>3. CASE ~Owes(c)'
  <2>1. CASE Untouched(c)
    <3>1. fetch[c].pc = "idle" /\ Stored(c) = {}
      BY <2>1 DEF Untouched, Stored
    <3> QED
      BY <1>1, <1>3, <2>1, <3>1 DEF Faithful
  <2>2. CASE ~Untouched(c)
    BY <1>1, <1>3, <2>2 DEF Faithful
  <2> QED
    BY <2>1, <2>2
<1> QED
  BY <1>2, <1>3

\* The other requests of the page are not disturbed.
LEMMA OthersAnswer ==
    ASSUME QInv, NEW s \in Slots,
           \A q \in Slots : q # s => pend'[q] = pend[q] /\ call'[q] = call[q],
           call'[s].pc \in {"idle", "asked"}, UNCHANGED <<conv, turn, begun>>,
           Answers(s)'
    PROVE  \A q \in Slots : Answers(q)' /\ Aims(q)'
<1>1. \A q \in Slots : Answers(q)'
  BY DEF QInv, Answers
<1>2. \A q \in Slots : Thought(q, "send")' => call'[q] = call[q] /\ Thought(q, "send")
  BY DEF Thought
<1>3. Aims(s)'
  BY DEF Aims, Thought
<1>4. \A q \in Slots : q # s => Aims(q)'
  BY <1>2 DEF QInv, Aims, Thought
<1> QED
  BY <1>1, <1>3, <1>4

\* What the page is owed it stays owed, but for the request that ends.
LEMMA OwedElsewhere ==
    ASSUME NEW s \in Slots, NEW c, NEW C, Missing(C),
           \A q \in Slots : q # s => call'[q] = call[q], conv' = conv,
           fetch[c].pc = "asked" => fetch'[c].pc = "asked",
           c \in C \/ ~(call[s].op \in Changes /\ call[s].pc \in Done /\ call[s].conv = c)
    PROVE  /\ Owes(c) => Owes(c)'
           /\ c \in C => Owes(c)'
<1>1. c \in missed \cup C => c \in missed' \/ fetch'[c].pc = "asked"
  BY DEF Missing
<1>2. CASE c \in C
  BY <1>1, <1>2 DEF Owes
<1>3. CASE c \notin C
  <2>1. Unread(c) => Unread(c)'
    BY <1>3 DEF Unread
  <2> QED
    BY <1>1, <1>3, <2>1 DEF Owes
<1> QED
  BY <1>2, <1>3

\* What the page does without touching the cache.
LEMMA AsideKeepsCache ==
    ASSUME IInv, QInv, NEW s \in Slots, UNCHANGED <<conv, turn, begun, detail, fetch, missed>>,
           active' \in {active, None},
           \A q \in Slots : q # s => pend'[q] = pend[q] /\ call'[q] = call[q],
           pend'[s].conv \in {pend[s].conv, active, None},
           pend'[s].pc = "posting" => pend'[s] = pend[s],
           pend[s].pc = "posting" => pend'[s] = pend[s],
           call[s].op \in Changes /\ call[s].pc \in Done => call'[s] = call[s],
           call'[s] = call[s] \/ call'[s].pc \in {"idle", "asked"},
           Answers(s)'
    PROVE  QInv'
<1>1. \A q \in Slots : Answers(q)' /\ Aims(q)'
  <2>1. CASE call'[s].pc \in {"idle", "asked"}
    BY <2>1, OthersAnswer
  <2>2. CASE call'[s] = call[s]
    <3>1. \A q \in Slots : call'[q] = call[q]
      BY <2>2
    <3>2. \A q \in Slots : Answers(q)'
      BY DEF QInv, Answers
    <3>3. \A q \in Slots : Aims(q)'
      BY <3>1 DEF QInv, Aims, Thought
    <3> QED
      BY <3>2, <3>3
  <2> QED
    BY <2>1, <2>2
<1>2. \A q \in Slots : Posted(q)'
  BY DEF QInv, Posted, HasData
<1>3. ASSUME NEW c \in Convs PROVE CacheInv(c)'
  <2>1. Unread(c) => Unread(c)'
    BY DEF Unread
  <2>2. Owes(c) => Owes(c)'
    BY <2>1 DEF Owes
  <2>3. TurnsOf(c)' = TurnsOf(c) /\ (HasData(c)' <=> HasData(c))
    BY DEF TurnsOf, HasData
  <2>4. Untouched(c) => Untouched(c)'
    <3>1. c # None
      BY Constants
    <3> QED
      BY <2>3, <3>1 DEF Untouched
  <2>5. Faithful(c)'
    BY <2>2, <2>3, <2>4, StaysFaithful DEF QInv, CacheInv
  <2>6. Ghosts(c)'
    <3>1. \A g \in detail[c].ghosts : HasData(c) => pend'[g] = pend[g]
      BY DetailParts, Constants DEF IInv, QInv, CacheInv, Ghosts
    <3> QED
      BY <2>3, <3>1 DEF QInv, CacheInv, Ghosts
  <2> QED
    BY <2>4, <2>5, <2>6 DEF QInv, CacheInv
<1> QED
  BY <1>1, <1>2, <1>3 DEF QInv

\* Fetches: nothing but the cache and the view changes.
LEMMA FetchKeepsCache ==
    ASSUME IInv, QInv, NEW c \in Convs,
           Visit(c) \/ EnterFirst(c) \/ Refetch(c) \/ FetchAnswer(c) \/ FetchLand(c) \/ FetchFails(c)
    PROVE  QInv'
<1>1. UNCHANGED <<serverVars, pend>>
  BY DEF Visit, EnterFirst, Refetch, FetchAnswer, FetchLand, FetchFails
<1>2. \A q \in Slots : Answers(q)' /\ Aims(q)'
  BY <1>1 DEF QInv, Answers, Aims, Thought, serverVars
<1>3. fetch \in [Convs -> FetchType] /\ detail \in [Convs -> DetailType \cup {None}]
  BY DEF IInv, PageInv
<1>4. \A d : Unread(d) => Unread(d)'
  BY <1>1 DEF Unread, serverVars
<1>5. \A d : TurnsOf(d)' = TurnsOf(d) /\ Stored(d)' = Stored(d)
  BY <1>1, StoredFrom DEF serverVars
<1>6. /\ \A d \in Convs : d # c => fetch'[d] = fetch[d] /\ detail'[d] = detail[d]
      /\ active' \in {active, c}
      /\ \A d \in missed : d \in missed' \/ fetch'[d].pc = "asked"
  <2>1. CASE Visit(c) \/ EnterFirst(c) \/ Refetch(c)
    BY <1>3, <2>1 DEF Visit, EnterFirst, Refetch, Shown, Missing, view
  <2>2. CASE FetchAnswer(c) \/ FetchLand(c) \/ FetchFails(c)
    BY <1>3, <2>2 DEF FetchAnswer, FetchLand, FetchFails, view
  <2> QED
    BY <2>1, <2>2
<1>7. ASSUME NEW d \in Convs, d # c
      PROVE  CacheInv(d)'
  <2>1. HasData(d)' <=> HasData(d)
    BY <1>6, <1>7 DEF HasData
  <2>2. Owes(d) => Owes(d)'
    BY <1>1, <1>4, <1>6, <1>7 DEF Owes, serverVars
  <2>3. Untouched(d) => Untouched(d)'
    BY <1>1, <1>5, <1>6, <1>7, <2>1 DEF Untouched
  <2>4. Faithful(d)'
    BY <1>1, <1>6, <1>7, <2>1, <2>2, <2>3, StaysFaithful DEF QInv, CacheInv, serverVars
  <2>5. Ghosts(d)'
    BY <1>1, <1>6, <1>7, <2>1 DEF QInv, CacheInv, Ghosts
  <2> QED
    BY <1>1, <2>3, <2>4, <2>5 DEF QInv, CacheInv, serverVars
<1>8. conv[c].state # "absent" /\ CacheInv(c)'
  <2>1. CASE Visit(c) \/ EnterFirst(c) \/ Refetch(c)
    <3>1. conv[c].state # "absent"
      BY <2>1 DEF Visit, EnterFirst, Refetch, Listed, QInv, CacheInv, Untouched
    <3>2. detail' = detail
      BY <2>1 DEF Visit, EnterFirst, Refetch
    <3>3. Ghosts(c)'
      BY <1>1, <3>2 DEF QInv, CacheInv, Ghosts, HasData
    <3>4. \/ fetch'[c].pc = "asked"
          \/ fetch'[c] = fetch[c] /\ (fetch[c].pc # "idle" \/ HasData(c))
      BY <1>3, <2>1 DEF Visit, EnterFirst, Refetch, Shown, Asking
    <3>5. fetch[c].pc = "asked" => fetch'[c].pc = "asked"
      BY <3>4
    <3>6. Owes(c) => Owes(c)'
      BY <1>1, <1>4, <1>6, <3>5 DEF Owes, serverVars
    <3>7. Faithful(c)'
      <4>1. CASE fetch'[c].pc = "asked"
        BY <4>1 DEF Faithful, Owes
      <4>2. CASE fetch'[c].pc # "asked"
        <5>1. ~Untouched(c)
          BY <3>4, <4>2 DEF Untouched
        <5> QED
          BY <1>1, <3>2, <3>4, <3>6, <4>2, <5>1, StaysFaithful DEF QInv, CacheInv, HasData, serverVars
      <4> QED
        BY <4>1, <4>2
    <3> QED
      BY <1>1, <3>1, <3>3, <3>7 DEF CacheInv, serverVars
  <2>2. CASE FetchAnswer(c)
    <3>1. conv[c].state # "absent" /\ detail' = detail
      BY <2>2 DEF FetchAnswer, IsOpen
    <3>2. fetch'[c].pc = "answered" /\ fetch'[c].turns = Stored(c)
      BY <1>3, <2>2 DEF FetchAnswer
    <3>3. Ghosts(c)'
      BY <1>1, <3>1 DEF QInv, CacheInv, Ghosts, HasData
    <3> QED
      BY <1>1, <1>5, <3>1, <3>2, <3>3 DEF CacheInv, Faithful, serverVars
  <2>3. CASE FetchLand(c)
    <3>1. /\ fetch[c].pc = "answered" /\ fetch'[c].pc = "idle"
          /\ detail'[c] = [turns |-> fetch[c].turns, ghosts |-> {}]
      BY <1>3, <2>3 DEF FetchLand, NoFetch
    <3>2. conv[c].state # "absent"
      BY <3>1 DEF QInv, CacheInv, Untouched
    <3>3. [turns |-> fetch[c].turns, ghosts |-> {}] \in DetailType
      BY <1>3 DEF FetchType, DetailType
    <3>4. HasData(c)'
      BY <3>1, <3>3, NoneIsNoDetail DEF HasData
    <3>5. Owes(c) => Owes(c)'
      BY <1>1, <1>4, <1>6, <3>1 DEF Owes, serverVars
    <3>6. Faithful(c)'
      <4>1. CASE Owes(c)
        BY <3>5, <4>1 DEF Faithful
      <4>2. CASE ~Owes(c)
        <5>1. fetch[c].turns = Stored(c)
          BY <3>1, <4>2 DEF QInv, CacheInv, Faithful, Untouched
        <5> QED
          BY <1>5, <3>1, <3>4, <5>1 DEF Faithful
      <4> QED
        BY <4>1, <4>2
    <3>7. Ghosts(c)'
      BY <3>1 DEF Ghosts
    <3> QED
      BY <1>1, <3>2, <3>6, <3>7 DEF CacheInv, serverVars
  <2>4. CASE FetchFails(c)
    <3>1. fetch[c].pc # "idle" /\ c \in missed' /\ detail' = detail
      BY <2>4 DEF FetchFails
    <3>2. conv[c].state # "absent"
      BY <3>1 DEF QInv, CacheInv, Untouched
    <3>3. Ghosts(c)'
      BY <1>1, <3>1 DEF QInv, CacheInv, Ghosts, HasData
    <3> QED
      BY <1>1, <3>1, <3>2, <3>3 DEF CacheInv, Faithful, Owes, serverVars
  <2> QED
    BY <2>1, <2>2, <2>3, <2>4
<1>9. \A q \in Slots : Posted(q)'
  <2> SUFFICES ASSUME NEW q \in Slots, pend[q].pc = "posting" PROVE detail'[pend[q].conv] # None
    BY <1>1 DEF Posted, HasData
  <2>1. pend[q].conv \in Convs /\ HasData(pend[q].conv)
    BY PendParts DEF QInv, Posted, IInv, Awaited
  <2>2. CASE pend[q].conv # c
    BY <1>6, <2>1, <2>2 DEF HasData
  <2>3. CASE pend[q].conv = c
    <3>1. detail'[c] = detail[c] \/ detail'[c] = [turns |-> fetch[c].turns, ghosts |-> {}]
      BY <1>3 DEF Visit, EnterFirst, Refetch, FetchAnswer, FetchLand, FetchFails
    <3>2. [turns |-> fetch[c].turns, ghosts |-> {}] \in DetailType
      BY <1>3 DEF FetchType, DetailType
    <3>3. detail'[c] # None
      BY <2>1, <2>3, <3>1, <3>2, NoneIsNoDetail DEF HasData
    <3> QED
      BY <2>3, <3>3
  <2> QED
    BY <2>2, <2>3
<1> QED
  BY <1>2, <1>7, <1>8, <1>9 DEF QInv

LEMMA AsideSteps ==
    ASSUME IInv, QInv,
           \/ Type \/ VisitNew
           \/ \E s \in Sends : Submit(s) \/ ProceedNew(s) \/ CreateFails(s)
           \/ \E i \in Ids : EditBegin(i) \/ RegenerateBegin(i)
           \/ DeleteBegin \/ DeleteDone \/ DeleteLeave \/ DeleteFails
    PROVE  QInv'
<1>1. /\ "edit" \in Slots \ Sends /\ "regenerate" \in Slots \ Sends /\ "delete" \in Slots \ Sends
      /\ Sends \subseteq Slots
  BY Constants
<1>2. pend \in [Slots -> PendType] /\ call \in [Slots -> CallType]
  BY DEF IInv, PageInv, ServerInv
<1>3. UNCHANGED <<conv, turn, begun, detail, fetch, missed>>
  BY DEF Type, VisitNew, Submit, ProceedNew, CreateFails, EditBegin, RegenerateBegin, DeleteBegin,
     DeleteDone, DeleteLeave, DeleteFails, serverVars, cache
<1>4. active' \in {active, None}
  BY DEF Type, VisitNew, Submit, ProceedNew, CreateFails, EditBegin, RegenerateBegin, DeleteBegin,
     DeleteDone, DeleteLeave, DeleteFails, view
<1>5. CASE Type \/ VisitNew
  <2>1. UNCHANGED <<pend, call>>
    BY <1>5 DEF Type, VisitNew, serverVars
  <2>2. Answers("edit")'
    BY <1>1, <2>1 DEF QInv, Answers
  <2> QED
    BY <1>1, <1>3, <1>4, <2>1, <2>2, AsideKeepsCache
<1>6. ASSUME NEW s \in Sends, Submit(s)
      PROVE  QInv'
  <2>1. call' = call /\ pend[s].pc = "idle" /\ call[s].pc = "idle"
    BY <1>1, <1>6 DEF Submit, Free, Busy, serverVars
  <2>2. PICK c \in {active, None} : pend' = [pend EXCEPT ![s] = [pc |-> "reading", conv |-> c, text |-> draft]]
    BY <1>6 DEF Submit, Known
  <2>3. pend'[s].pc = "reading" /\ pend'[s].conv = c /\ \A q \in Slots : q # s => pend'[q] = pend[q]
    BY <1>1, <1>2, <2>2
  <2>4. Answers(s)'
    BY <2>1 DEF Answers
  <2> QED
    BY <1>1, <1>3, <1>4, <2>1, <2>3, <2>4, AsideKeepsCache
<1>7. ASSUME NEW s \in Sends, ProceedNew(s)
      PROVE  QInv'
  <2>1. pend[s].pc = "reading" /\ call[s].pc = "idle"
    BY <1>1, <1>7 DEF ProceedNew, Waits, QInv, Answers
  <2>2. /\ pend'[s].pc = "creating" /\ pend'[s].conv = pend[s].conv
        /\ call'[s].pc = "asked" /\ call'[s].op = "create"
        /\ \A q \in Slots : q # s => pend'[q] = pend[q] /\ call'[q] = call[q]
    BY <1>1, <1>2, <1>7 DEF ProceedNew, Request, PendType
  <2>3. Answers(s)'
    BY <2>2 DEF Answers
  <2> QED
    BY <1>1, <1>3, <1>4, <2>1, <2>2, <2>3, AsideKeepsCache DEF Done
<1>8. ASSUME NEW s \in Sends, CreateFails(s)
      PROVE  QInv'
  <2>1. pend[s].pc = "creating" /\ call[s].op = "create"
    BY <1>1, <1>8 DEF CreateFails, Waits, Failed, QInv, Answers
  <2>2. /\ pend'[s] = NoPend /\ call'[s] = NoCall
        /\ \A q \in Slots : q # s => pend'[q] = pend[q] /\ call'[q] = call[q]
    BY <1>1, <1>2, <1>8 DEF CreateFails, Close
  <2>3. Answers(s)'
    BY <2>2 DEF Answers, NoCall
  <2> QED
    BY <1>1, <1>3, <1>4, <2>1, <2>2, <2>3, AsideKeepsCache DEF NoPend, NoCall, Changes
<1>9. ASSUME NEW s \in {"edit", "regenerate", "delete"}, NEW i, NEW t, Free(s), Await(s), Request(s, s, active, i, t)
      PROVE  QInv'
  <2>1. pend[s].pc = "idle" /\ call[s].pc = "idle" /\ s \in Slots /\ s \notin Sends
    BY <1>1, <1>9 DEF Free, Busy
  <2>2. /\ pend'[s].pc = "waiting" /\ pend'[s].conv = active
        /\ call'[s].pc = "asked" /\ call'[s].op = s /\ call'[s].conv = active
        /\ \A q \in Slots : q # s => pend'[q] = pend[q] /\ call'[q] = call[q]
    BY <1>2, <1>9, <2>1 DEF Await, Request
  <2>3. Answers(s)'
    BY <2>1, <2>2 DEF Answers
  <2> QED
    BY <1>3, <1>4, <2>1, <2>2, <2>3, AsideKeepsCache DEF Done
<1>10. ASSUME NEW i \in Ids, EditBegin(i) PROVE QInv'
  <2>1. PICK t : Request("edit", "edit", active, i, t)
    BY <1>10 DEF EditBegin
  <2> QED
    BY <1>9, <1>10, <2>1 DEF EditBegin
<1>11. ASSUME NEW i \in Ids, RegenerateBegin(i) PROVE QInv'
  BY <1>9, <1>11 DEF RegenerateBegin
<1>12. CASE DeleteBegin
  BY <1>9, <1>12 DEF DeleteBegin
<1>13. CASE DeleteDone
  <2>1. pend["delete"].pc = "waiting" /\ call["delete"].op = "delete"
    BY <1>1, <1>13 DEF DeleteDone, Waits, Succeeded, QInv, Answers
  <2>2. /\ pend'["delete"].pc = "leaving" /\ pend'["delete"].conv = pend["delete"].conv
        /\ call'["delete"] = NoCall
        /\ \A q \in Slots : q # "delete" => pend'[q] = pend[q] /\ call'[q] = call[q]
    BY <1>1, <1>2, <1>13 DEF DeleteDone, PendType
  <2>3. Answers("delete")'
    BY <2>2 DEF Answers, NoCall
  <2> QED
    BY <1>1, <1>3, <1>4, <2>1, <2>2, <2>3, AsideKeepsCache DEF NoCall, Changes
<1>14. CASE DeleteFails
  <2>1. pend["delete"].pc = "waiting" /\ call["delete"].op = "delete"
    BY <1>1, <1>14 DEF DeleteFails, Waits, Failed, QInv, Answers
  <2>2. /\ pend'["delete"] = NoPend /\ call'["delete"] = NoCall
        /\ \A q \in Slots : q # "delete" => pend'[q] = pend[q] /\ call'[q] = call[q]
    BY <1>1, <1>2, <1>14 DEF DeleteFails, Close
  <2>3. Answers("delete")'
    BY <2>2 DEF Answers, NoCall
  <2> QED
    BY <1>1, <1>3, <1>4, <2>1, <2>2, <2>3, AsideKeepsCache DEF NoPend, NoCall, Changes
<1>15. CASE DeleteLeave
  <2>1. pend["delete"].pc = "leaving" /\ call["delete"].pc = "idle" /\ call' = call
    BY <1>1, <1>15 DEF DeleteLeave, Waits, QInv, Answers, serverVars
  <2>2. pend'["delete"] = NoPend /\ \A q \in Slots : q # "delete" => pend'[q] = pend[q]
    BY <1>1, <1>2, <1>15 DEF DeleteLeave
  <2>3. Answers("delete")'
    BY <2>1 DEF Answers
  <2> QED
    BY <1>1, <1>3, <1>4, <2>1, <2>2, <2>3, AsideKeepsCache DEF NoPend
<1> QED
  BY <1>5, <1>6, <1>7, <1>8, <1>10, <1>11, <1>12, <1>13, <1>14, <1>15

\* The optimistic message goes into the conversation it is sent to.
LEMMA PostKeepsCache ==
    ASSUME IInv, QInv, NEW s \in Sends, NEW c \in Convs, Post(s, c),
           pend[s].pc \in {"reading", "creating"}, active' \in {active, c},
           conv[c].state # "absent",
           pend[s].conv = c \/ (call[s].op = "create" /\ call[s].pc = "ok")
    PROVE  QInv'
<1>1. s \in Slots
  BY Constants
<1>2. pend \in [Slots -> PendType] /\ call \in [Slots -> CallType] /\ detail \in [Convs -> DetailType \cup {None}]
  BY DEF IInv, PageInv, ServerInv
<1>3. /\ pend'[s].pc = "posting" /\ pend'[s].conv = c
      /\ call'[s].op = "send" /\ call'[s].pc = "asked" /\ call'[s].conv = c
      /\ \A q \in Slots : q # s => pend'[q] = pend[q] /\ call'[q] = call[q]
  BY <1>1, <1>2 DEF Post, Request
<1>4. Answers(s)'
  BY <1>3 DEF Answers
<1>5. \A q \in Slots : Answers(q)' /\ Aims(q)'
  BY <1>1, <1>3, <1>4, OthersAnswer DEF Post
<1>6. call[s].op \notin Changes \/ call[s].pc \notin Done
  BY <1>1 DEF QInv, Answers, Done, Changes
<1>7. \A d : Unread(d) => Unread(d)'
  BY <1>3, <1>6 DEF Unread
<1>8. /\ detail'[c] = Expected(c, s) /\ \A d \in Convs : d # c => detail'[d] = detail[d]
      /\ UNCHANGED <<conv, turn, begun, fetch, missed>>
  BY <1>2 DEF Post
<1>9. Expected(c, s) # None
  BY ExpectedType, NoneIsNoDetail DEF IInv
<1>10. \A q \in Slots : Posted(q)'
  <2> SUFFICES ASSUME NEW q \in Slots, pend'[q].pc = "posting" PROVE detail'[pend'[q].conv] # None
    BY DEF Posted, HasData
  <2>1. CASE q = s
    BY <1>3, <1>8, <1>9, <2>1
  <2>2. CASE q # s
    <3>1. pend[q].conv \in Convs /\ detail[pend[q].conv] # None /\ pend'[q] = pend[q]
      BY <1>3, <2>2, PendParts DEF QInv, Posted, IInv, Awaited, HasData
    <3> QED
      BY <1>8, <1>9, <3>1
  <2> QED
    BY <2>1, <2>2
<1>11. ASSUME NEW d \in Convs PROVE CacheInv(d)'
  <2>1. Owes(d) => Owes(d)'
    BY <1>7, <1>8 DEF Owes
  <2>2. CASE d # c
    <3>1. (HasData(d)' <=> HasData(d)) /\ TurnsOf(d)' = TurnsOf(d)
      BY <1>8, <2>2, StoredFrom DEF HasData
    <3>2. Untouched(d) => Untouched(d)'
      BY <1>3, <1>8, <2>2, <3>1 DEF Untouched
    <3>3. Faithful(d)'
      BY <1>8, <2>1, <2>2, <3>1, <3>2, StaysFaithful DEF QInv, CacheInv
    <3>4. Ghosts(d)'
      <4>1. \A g \in detail[d].ghosts : HasData(d) => g \in Slots /\ g # s
        BY Constants, DetailParts DEF IInv, QInv, CacheInv, Ghosts
      <4> QED
        BY <1>3, <1>8, <2>2, <3>1, <4>1 DEF QInv, CacheInv, Ghosts
    <3> QED
      BY <1>8, <3>2, <3>3, <3>4 DEF QInv, CacheInv
  <2>3. CASE d = c
    <3>1. HasData(c)'
      BY <1>8, <1>9 DEF HasData
    <3>2. HasData(c) => detail'[c].turns = detail[c].turns /\ detail'[c].ghosts = detail[c].ghosts \cup {s}
      <4>1. HasData(c) => detail[c] \in DetailType
        BY <1>2 DEF HasData
      <4> QED
        BY <1>8, <4>1 DEF Expected, DetailType
    <3>3. ~HasData(c) => detail'[c].turns = {} /\ detail'[c].ghosts = {s}
      BY <1>8 DEF Expected
    <3>4. Faithful(c)'
      <4>1. Untouched(c) => ~HasData(c)
        BY DEF Untouched
      <4> QED
        BY <1>8, <2>1, <2>3, <3>1, <3>2, <3>3, <4>1, StaysFaithful DEF QInv, CacheInv
    <3>5. Ghosts(c)'
      <4>1. \A g \in detail[c].ghosts : HasData(c) => g \in Slots /\ g # s
        BY Constants, DetailParts DEF IInv, QInv, CacheInv, Ghosts
      <4>2. ASSUME NEW g \in detail'[c].ghosts PROVE pend'[g].pc = "posting" /\ pend'[g].conv = c
        <5>1. CASE g = s
          BY <1>3, <5>1
        <5>2. CASE g # s
          <6>1. HasData(c) /\ g \in detail[c].ghosts
            BY <3>2, <3>3, <4>2, <5>2
          <6> QED
            BY <1>3, <4>1, <5>2, <6>1 DEF QInv, CacheInv, Ghosts
        <5> QED
          BY <5>1, <5>2
      <4> QED
        BY <4>2 DEF Ghosts
    <3> QED
      BY <1>8, <2>3, <3>4, <3>5 DEF CacheInv
  <2> QED
    BY <2>2, <2>3
<1> QED
  BY <1>5, <1>10, <1>11 DEF QInv

LEMMA ProceedKeepsCache ==
    ASSUME IInv, QInv, NEW s \in Sends, Proceed(s) \/ Created(s)
    PROVE  QInv'
<1>1. s \in Slots
  BY Constants
<1>2. CASE Proceed(s)
  <2>1. PICK c \in Convs : c = pend[s].conv
    BY <1>1, <1>2, PendParts DEF IInv, Proceed
  <2>2. conv[c].state # "absent"
    BY <1>1, <2>1 DEF QInv, CacheInv, Untouched
  <2> QED
    BY <1>2, <2>1, <2>2, PostKeepsCache DEF Proceed, Waits, view
<1>3. CASE Created(s)
  <2>1. call[s].op = "create" /\ call[s].pc = "ok"
    BY <1>1, <1>3, PendParts DEF IInv, Awaited, Created, Waits, Succeeded
  <2>2. PICK c \in Convs : c = call[s].conv
    BY <1>1, <2>1, CallParts DEF IInv, Fits
  <2>3. conv[c].state # "absent"
    BY <1>1, <2>1, <2>2 DEF QInv, Aims
  <2> QED
    BY <1>3, <2>1, <2>2, <2>3, PostKeepsCache DEF Created, Waits
<1> QED
  BY <1>2, <1>3

\* A request about c ends: the page is owed what it changed, or fetches it,
\* and nothing else of the cache is worse than before.
LEMMA EndKeepsCache ==
    ASSUME IInv, QInv, NEW s \in Slots, NEW c \in Convs, NEW C, Missing(C), C \subseteq {c},
           pend[s].conv = c, pend[s].pc \in {"posting", "waiting"}, call[s].pc # "idle",
           call[s].pc \in Done => c \in C,
           pend' = [pend EXCEPT ![s] = NoPend], call' = [call EXCEPT ![s] = NoCall],
           UNCHANGED <<conv, turn, begun>>, active' \in {active, c},
           \A d \in Convs : d # c => detail'[d] = detail[d]
                                  /\ (fetch'[d] = fetch[d] \/ (d = active /\ fetch'[d].pc = "asked")),
           fetch'[c] = fetch[c] \/ c \in C \/ fetch'[c].pc = "asked",
           fetch[c].pc = "asked" => fetch'[c].pc = "asked",
           HasData(c) => /\ HasData(c)'
                         /\ detail'[c].turns = detail[c].turns \/ c \in C
                         /\ detail'[c].ghosts \subseteq detail[c].ghosts
                         /\ pend[s].pc = "posting" => s \notin detail'[c].ghosts,
           ~HasData(c) => detail'[c] = detail[c]
    PROVE  QInv'
<1>1. pend \in [Slots -> PendType] /\ call \in [Slots -> CallType]
  BY DEF IInv, PageInv, ServerInv
<1>2. /\ pend'[s] = NoPend /\ call'[s] = NoCall
      /\ \A q \in Slots : q # s => pend'[q] = pend[q] /\ call'[q] = call[q]
  BY <1>1
<1>3. Answers(s)' /\ call'[s].pc = "idle"
  BY <1>2 DEF Answers, NoCall
<1>4. \A q \in Slots : Answers(q)' /\ Aims(q)'
  BY <1>2, <1>3, OthersAnswer
<1>5. call[s].conv = c
  BY DEF QInv, Answers
<1>6. \A d \in Convs : (Owes(d) => Owes(d)') /\ (d \in C => Owes(d)')
  <2> TAKE d \in Convs
  <2>1. fetch[d].pc = "asked" => fetch'[d].pc = "asked"
    OBVIOUS
  <2>2. d \in C \/ ~(call[s].op \in Changes /\ call[s].pc \in Done /\ call[s].conv = d)
    BY <1>5
  <2> QED
    BY <1>2, <2>1, <2>2, OwedElsewhere
<1>7. \A q \in Slots : Posted(q)'
  <2> SUFFICES ASSUME NEW q \in Slots, pend'[q].pc = "posting" PROVE detail'[pend'[q].conv] # None
    BY DEF Posted, HasData
  <2>1. q # s /\ pend'[q] = pend[q]
    BY <1>2 DEF NoPend
  <2>2. pend[q].conv \in Convs /\ HasData(pend[q].conv)
    BY <2>1, PendParts DEF QInv, Posted, IInv, Awaited
  <2>3. CASE pend[q].conv = c
    BY <2>1, <2>2, <2>3 DEF HasData
  <2>4. CASE pend[q].conv # c
    BY <2>1, <2>2, <2>4 DEF HasData
  <2> QED
    BY <2>3, <2>4
<1>8. ASSUME NEW d \in Convs, d # c PROVE CacheInv(d)'
  <2>1. (HasData(d)' <=> HasData(d)) /\ TurnsOf(d)' = TurnsOf(d) /\ detail'[d] = detail[d]
    BY <1>8, StoredFrom DEF HasData
  <2>2. NoPend.conv # d
    BY Constants DEF NoPend
  <2>3. Untouched(d) => Untouched(d)'
    BY <1>2, <1>8, <2>1, <2>2 DEF Untouched
  <2>4. Faithful(d)'
    <3>1. CASE fetch'[d].pc = "asked"
      BY <3>1 DEF Faithful, Owes
    <3>2. CASE fetch'[d].pc # "asked"
      <4>1. fetch'[d] = fetch[d]
        BY <1>8, <3>2
      <4> QED
        BY <1>6, <2>1, <2>3, <4>1, StaysFaithful DEF QInv, CacheInv
    <3> QED
      BY <3>1, <3>2
  <2>5. Ghosts(d)'
    <3>1. \A g \in detail[d].ghosts : HasData(d) => g \in Slots /\ g # s
      BY <1>8, Constants, DetailParts DEF IInv, QInv, CacheInv, Ghosts
    <3> QED
      BY <1>2, <2>1, <3>1 DEF QInv, CacheInv, Ghosts
  <2> QED
    BY <2>3, <2>4, <2>5 DEF QInv, CacheInv
<1>9. CacheInv(c)'
  <2>1. ~Untouched(c) /\ conv[c].state # "absent"
    BY DEF Untouched, QInv, CacheInv
  <2>2. Faithful(c)'
    <3>1. CASE c \in C \/ fetch'[c].pc = "asked"
      BY <1>6, <3>1 DEF Faithful, Owes
    <3>2. CASE c \notin C /\ fetch'[c].pc # "asked"
      <4>1. fetch'[c] = fetch[c] /\ (HasData(c) => HasData(c)' /\ detail'[c].turns = detail[c].turns)
        BY <3>2
      <4> QED
        BY <1>6, <2>1, <4>1, StaysFaithful DEF QInv, CacheInv
    <3> QED
      BY <3>1, <3>2
  <2>3. Ghosts(c)'
    <3>1. CASE ~HasData(c)
      BY <3>1 DEF Ghosts, HasData
    <3>2. CASE HasData(c)
      <4>1. ASSUME NEW g \in detail'[c].ghosts PROVE pend'[g].pc = "posting" /\ pend'[g].conv = c
        <5>1. g \in detail[c].ghosts /\ pend[g].pc = "posting" /\ pend[g].conv = c /\ g \in Slots
          BY <3>2, <4>1, Constants, DetailParts DEF IInv, QInv, CacheInv, Ghosts
        <5>2. g # s
          BY <3>2, <4>1, <5>1
        <5> QED
          BY <1>2, <5>1, <5>2
      <4> QED
        BY <4>1 DEF Ghosts
    <3> QED
      BY <3>1, <3>2
  <2> QED
    BY <2>1, <2>2, <2>3 DEF CacheInv
<1> QED
  BY <1>4, <1>7, <1>8, <1>9 DEF QInv

LEMMA SendEndsKeepCache ==
    ASSUME IInv, QInv, NEW s \in Sends, Sent(s) \/ SendFails(s)
    PROVE  QInv'
<1>1. s \in Slots /\ pend[s].pc = "posting" /\ call[s].pc # "idle"
  BY Constants DEF Sent, SendFails, Waits, Succeeded, Failed
<1>2. PICK c \in Convs : c = pend[s].conv
  BY <1>1, PendParts DEF IInv, Awaited
<1>3. HasData(c) /\ detail[c] \in DetailType
  BY <1>1, <1>2 DEF QInv, Posted, HasData, IInv, PageInv
<1>4. detail \in [Convs -> DetailType \cup {None}] /\ fetch \in [Convs -> FetchType]
  BY DEF IInv, PageInv
<1>5. call[s].conv = c /\ call[s].op = "send" /\ call[s].text \in Texts
  BY <1>1, <1>2, PendParts DEF IInv, Awaited
<1>6. CASE Sent(s)
  <2>1. call[s].id \in Ids
    BY <1>1, <1>5, <1>6, CallParts, Constants DEF IInv, ServerInv, Fits, Sent, Succeeded, Ids
  <2>2. PICK r \in ShownType :
          r = [id |-> call[s].id, said |-> call[s].text, reply |-> call[s].text, version |-> 0]
    BY <1>5, <2>1 DEF ShownType
  <2>3. /\ detail' = [detail EXCEPT ![c] = Answered(c, r, s)]
        /\ fetch' = IF active = c \/ fetch[c].pc = "idle" THEN [fetch EXCEPT ![c] = Asking] ELSE fetch
        /\ Missing({c}) /\ active' = c
    BY <1>2, <1>6, <2>2 DEF Sent
  <2>4. detail'[c] = Answered(c, r, s) /\ \A d \in Convs : d # c => detail'[d] = detail[d]
    BY <1>4, <2>3
  <2>5. HasData(c)'
    BY <2>4, AnsweredType, NoneIsNoDetail, <1>1 DEF IInv, HasData
  <2>6. detail'[c].ghosts = detail[c].ghosts \ {s}
    BY <1>3, <2>4 DEF Answered
  <2>7. /\ \A d \in Convs : d # c => fetch'[d] = fetch[d]
        /\ fetch[c].pc = "asked" => fetch'[c].pc = "asked"
    BY <1>4, <2>3 DEF Asking
  <2>8. pend' = [pend EXCEPT ![s] = NoPend] /\ call' = [call EXCEPT ![s] = NoCall] /\ UNCHANGED <<conv, turn, begun>>
    BY <1>6 DEF Sent
  <2>9. PICK C : C = {c}
    OBVIOUS
  <2>10. Missing(C) /\ c \in C /\ C \subseteq {c} /\ active' \in {active, c}
    BY <2>3, <2>9
  <2>11. detail'[c].ghosts \subseteq detail[c].ghosts /\ s \notin detail'[c].ghosts
    BY <2>6
  <2> QED
    BY <1>1, <1>2, <1>3, <2>4, <2>5, <2>7, <2>8, <2>10, <2>11, EndKeepsCache
<1>7. CASE SendFails(s)
  <2>1. /\ detail' = [detail EXCEPT ![c] = Withdrawn(c, s)] /\ fetch' = fetch
        /\ Missing(Changed(s)) /\ active' = active
    BY <1>2, <1>7 DEF SendFails, view
  <2>2. detail'[c] = Withdrawn(c, s) /\ \A d \in Convs : d # c => detail'[d] = detail[d]
    BY <1>4, <2>1
  <2>3. HasData(c)'
    BY <2>2, WithdrawnType, NoneIsNoDetail DEF IInv, HasData
  <2>4. detail'[c].ghosts = detail[c].ghosts \ {s} /\ detail'[c].turns = detail[c].turns
    BY <1>3, <2>2 DEF Withdrawn, DetailType
  <2>5. Changed(s) \subseteq {c} /\ (call[s].pc \in Done => c \in Changed(s))
    BY <1>5, <1>7, Constants DEF Changed, SendFails, Failed, Done
  <2>6. pend' = [pend EXCEPT ![s] = NoPend] /\ call' = [call EXCEPT ![s] = NoCall] /\ UNCHANGED <<conv, turn, begun>>
    BY <1>7 DEF SendFails, Close
  <2> QED
    BY <1>1, <1>2, <1>3, <2>1, <2>2, <2>3, <2>4, <2>5, <2>6, EndKeepsCache
<1> QED
  BY <1>6, <1>7

LEMMA TurnEndsKeepCache ==
    ASSUME IInv, QInv, NEW s \in Slots, TurnDone(s) \/ TurnFails(s)
    PROVE  QInv'
<1>1. s \in {"edit", "regenerate"} /\ pend[s].pc = "waiting" /\ call[s].pc # "idle"
  BY DEF TurnDone, TurnFails, Waits, Succeeded, Failed
<1>2. PICK c \in Convs : c = pend[s].conv
  BY <1>1, PendParts DEF IInv, Awaited
<1>3. call[s].conv = c
  BY <1>1, <1>2 DEF QInv, Answers
<1>4. /\ pend' = [pend EXCEPT ![s] = NoPend] /\ call' = [call EXCEPT ![s] = NoCall]
      /\ UNCHANGED <<conv, turn, begun, detail>> /\ active' = active
  BY DEF TurnDone, TurnFails, Close, view
<1>5. (HasData(c)' <=> HasData(c)) /\ fetch \in [Convs -> FetchType]
  BY <1>4 DEF HasData, IInv, PageInv
<1>6. CASE TurnDone(s)
  <2>1. Missing({c}) /\ (IF active = None THEN UNCHANGED fetch ELSE Invalidate(active))
    BY <1>2, <1>6 DEF TurnDone
  <2>2. /\ \A d \in Convs : fetch'[d] = fetch[d] \/ (d = active /\ fetch'[d].pc = "asked")
    BY <1>5, <2>1 DEF Invalidate, Asking
  <2> QED
    BY <1>1, <1>2, <1>4, <1>5, <2>1, <2>2, EndKeepsCache
<1>7. CASE TurnFails(s)
  <2>1. Missing(Changed(s)) /\ fetch' = fetch
    BY <1>7 DEF TurnFails
  <2>2. Changed(s) \subseteq {c} /\ (call[s].pc \in Done => c \in Changed(s))
    BY <1>3, <1>7, Constants DEF Changed, TurnFails, Failed, Done
  <2> QED
    BY <1>1, <1>2, <1>4, <1>5, <2>1, <2>2, EndKeepsCache
<1> QED
  BY <1>6, <1>7

LEMMA InitQInv == Init => QInv
<1> SUFFICES ASSUME Init PROVE QInv
  OBVIOUS
<1>1. \A s \in Slots : Answers(s) /\ Aims(s) /\ Posted(s)
  BY DEF Init, ServerInit, Answers, Aims, Posted, Thought, NoCall, NoPend
<1>2. ASSUME NEW c \in Convs PROVE CacheInv(c)
  <2>1. TurnsOf(c) = {} /\ c # None
    BY Constants DEF Init, ServerInit, TurnsOf, NoTurn
  <2>2. ~HasData(c) /\ fetch[c].pc = "idle" /\ active # c /\ \A s \in Slots : pend[s].conv # c
    BY <2>1 DEF Init, HasData, NoFetch, NoPend
  <2>3. Untouched(c) /\ Ghosts(c)
    BY <2>1, <2>2 DEF Untouched, Ghosts
  <2> QED
    BY <2>3 DEF CacheInv, Faithful
<1> QED
  BY <1>1, <1>2 DEF QInv

LEMMA StepQInv == IInv /\ QInv /\ [Next]_vars => QInv'
<1> SUFFICES ASSUME IInv, QInv, [Next]_vars PROVE QInv'
  OBVIOUS
<1>1. CASE UNCHANGED vars
  <2>1. "edit" \in Slots
    BY Constants
  <2>2. UNCHANGED <<pend, call>> /\ Answers("edit")'
    BY <1>1, <2>1 DEF vars, QInv, Answers
  <2> QED
    BY <1>1, <2>1, <2>2, AsideKeepsCache DEF vars
<1>2. CASE Serve
  BY <1>2, ServeKeepsCache
<1>3. CASE \E c \in Convs :
             Visit(c) \/ EnterFirst(c) \/ Refetch(c) \/ FetchAnswer(c) \/ FetchLand(c) \/ FetchFails(c)
  BY <1>3, FetchKeepsCache
<1>4. CASE \/ Type \/ VisitNew
           \/ \E i \in Ids : EditBegin(i) \/ RegenerateBegin(i)
           \/ DeleteBegin \/ DeleteDone \/ DeleteLeave \/ DeleteFails
  BY <1>4, AsideSteps
<1>5. ASSUME NEW s \in Sends, Handle(s)
      PROVE  QInv'
  BY <1>5, AsideSteps, ProceedKeepsCache, SendEndsKeepCache DEF Handle
<1>6. ASSUME NEW s \in Slots, TurnDone(s) \/ TurnFails(s)
      PROVE  QInv'
  BY <1>6, TurnEndsKeepCache
<1> QED
  BY <1>1, <1>2, <1>3, <1>4, <1>5, <1>6 DEF Next

\* Once nothing about the conversation in view is under way, the page shows
\* what is stored and no optimistic message, for any number of sends, however
\* sends, edits, regenerations and fetches overtake each other (Chat.tsx).
THEOREM QuietPageIsTrue == Spec => []QuietMeansTrue
<1>1. IInv /\ QInv => QuietMeansTrue
  <2> SUFFICES ASSUME IInv, QInv, NEW c \in Convs, active = c, IsOpen(c), Quiet(c), c \notin missed
               PROVE  HasData(c) /\ detail[c].turns = Stored(c) /\ detail[c].ghosts = {}
    BY DEF QuietMeansTrue
  <2>1. ~Owes(c)
    BY DEF Owes, Unread, Quiet, IsOpen
  <2>2. HasData(c) /\ detail[c].turns = Stored(c)
    BY <2>1 DEF QInv, CacheInv, Faithful, Untouched, Quiet
  <2>3. \A g \in detail[c].ghosts : g \in Slots /\ pend[g].conv = c
    BY <2>2, Constants, DetailParts DEF IInv, QInv, CacheInv, Ghosts
  <2>4. detail[c].ghosts = {}
    BY <2>3 DEF Quiet
  <2> QED
    BY <2>2, <2>4
<1>2. Init => QInv
  BY InitQInv
<1>3. IInv /\ QInv /\ [Next]_vars => QInv'
  BY StepQInv
<1> QED
  BY <1>1, <1>2, <1>3, InvariantIInv, PTL DEF Spec
===============================================================================
