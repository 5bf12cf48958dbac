------------------------- MODULE UtxoUpdater_proofs -------------------------
(***************************************************************************)
(* The safety properties of UtxoUpdater, proved for every tree of blocks,  *)
(* every choice of own blocks and every savepoint distance; last, what it  *)
(* promises when branches are abandoned and rebuilt.                       *)
(***************************************************************************)
EXTENDS UtxoUpdater, FiniteSetTheorems, Integers, TLAPS

(* The calls on a stack are for a chain of blocks above the genesis, each  *)
(* call made by the one for its child.                                     *)
CallChain(s) ==
  /\ \A i \in 1..Len(s) : s[i] # Genesis
  /\ \A i \in 1..(Len(s) - 1) : s[i] = PrevHash[s[i + 1]]

StacksOk ==
  \A u \in Updaters :
    /\ CallChain(stack[u])
    /\ pc[u] # "idle" => stack[u] # <<>>

(* The genesis is in the tree from the start and keeps a manager, so no    *)
(* call is ever made for it.                                               *)
GenesisOk == Genesis \in known /\ Genesis \notin pending /\ um[Genesis] # NoUm

(* A manager moves only through verified blocks, and what a node holds is  *)
(* the replay of its chain.                                                *)
ManagersOk ==
  \A b \in Blocks : um[b] # NoUm =>
    /\ um[b].attached = b
    /\ um[b].unspent = Ledger[b]
    /\ b \in verified \cup {Genesis}

(* An updater's prevUTXO is a manager that some node still holds.          *)
HeldOk == \A u \in Updaters : held[u] # NoUm => um[held[u]] # NoUm

(* A call goes past its recursive call only on a verified parent.          *)
ClimbOk ==
  \A u \in Updaters :
    /\ pc[u] \in {"await", "verify", "interrupt", "apply", "credit"} =>
         Parent(u) \in verified \cup {Genesis}
    /\ pc[u] \in {"interrupt", "apply", "credit"} => Top(u) \in verified

IInv ==
  /\ TypeOK /\ StacksOk /\ GenesisOk /\ ManagersOk /\ HeldOk /\ ClimbOk
  /\ VerdictsCorrect /\ HeadIsHighestVerified

(* With one updater nothing moves under a call's feet: the parent's        *)
(* manager stays where the call found it until the call moves it.          *)
OneUpdater == \A u, v \in Updaters : u = v

CallsOk ==
  \A u \in Updaters :
    /\ pc[u] \in {"await", "verify", "interrupt", "apply"} => um[Parent(u)] # NoUm
    /\ pc[u] \in {"interrupt", "apply"} =>
         held[u] = Parent(u) /\ RefsSpendable(Ledger[Parent(u)], Top(u))
    /\ pc[u] = "credit" => um[Top(u)] # NoUm

(* The head lacks its manager only while the updater is about to apply it. *)
HeadOk ==
  um[head] # NoUm \/ \E u \in Updaters : pc[u] \in {"interrupt", "apply"} /\ Top(u) = head

SoloInv == IInv /\ CallsOk /\ HeadOk /\ NeverFatal

-----------------------------------------------------------------------------
(* What the stack of calls keeps when a call is added or returns.          *)
LEMMA PushCall ==
  ASSUME NEW s \in Seq(Blocks), s # <<>>, CallChain(s), PrevHash[Head(s)] # Genesis
  PROVE  LET t == <<PrevHash[Head(s)]>> \o s
         IN t \in Seq(Blocks) /\ t # <<>> /\ CallChain(t)
<1> DEFINE t == <<PrevHash[Head(s)]>> \o s
<1>1. Head(s) = s[1] /\ Head(s) \in Blocks /\ PrevHash[Head(s)] \in Blocks
  BY HeadersAssumption
<1>2. t \in Seq(Blocks) /\ Len(t) = Len(s) + 1 /\ t[1] = PrevHash[Head(s)]
  BY <1>1
<1>3. \A i \in 1..Len(s) : t[i + 1] = s[i]
  BY <1>1
<1>4. CallChain(t)
  <2>1. ASSUME NEW i \in 1..Len(t) PROVE t[i] # Genesis
    <3>1. CASE i = 1
      BY <3>1, <1>2
    <3>2. CASE i # 1
      BY <3>2, <1>2, <1>3, i - 1 \in 1..Len(s), t[(i - 1) + 1] = s[i - 1] DEF CallChain
    <3> QED BY <3>1, <3>2
  <2>2. ASSUME NEW i \in 1..(Len(t) - 1) PROVE t[i] = PrevHash[t[i + 1]]
    <3>1. t[i + 1] = s[i]
      BY <1>2, <1>3
    <3>2. CASE i = 1
      BY <3>1, <3>2, <1>1, <1>2
    <3>3. CASE i # 1
      BY <3>1, <3>3, <1>2, <1>3, i - 1 \in 1..(Len(s) - 1), t[(i - 1) + 1] = s[i - 1],
         s[i - 1] = PrevHash[s[(i - 1) + 1]] DEF CallChain
    <3> QED BY <3>2, <3>3
  <2> QED BY <2>1, <2>2 DEF CallChain
<1> QED BY <1>2, <1>4

(* Returning from the innermost call leaves a chain of calls.              *)
LEMMA PopCall ==
  ASSUME NEW s \in Seq(Blocks), s # <<>>, CallChain(s)
  PROVE  /\ Tail(s) \in Seq(Blocks) /\ CallChain(Tail(s))
         /\ Tail(s) # <<>> => PrevHash[Head(Tail(s))] = Head(s)
<1>1. /\ Tail(s) \in Seq(Blocks) /\ Len(Tail(s)) = Len(s) - 1
      /\ \A i \in 1..(Len(s) - 1) : Tail(s)[i] = s[i + 1]
  OBVIOUS
<1>2. CallChain(Tail(s))
  BY <1>1 DEF CallChain
<1>3. ASSUME Tail(s) # <<>> PROVE PrevHash[Head(Tail(s))] = Head(s)
  <2>1. Len(s) > 1 /\ Head(Tail(s)) = s[2] /\ Head(s) = s[1]
    BY <1>1, <1>3
  <2>2. s[1] = PrevHash[s[1 + 1]]
    BY <2>1, 1 \in 1..(Len(s) - 1) DEF CallChain
  <2> QED BY <2>1, <2>2
<1> QED BY <1>1, <1>2, <1>3

(* The block an active updater works on is a block above the genesis.      *)
LEMMA TopOk ==
  ASSUME TypeOK, StacksOk, NEW u \in Updaters, pc[u] # "idle"
  PROVE  /\ stack[u] \in Seq(Blocks) /\ stack[u] # <<>>
         /\ Top(u) \in Blocks \ {Genesis}
         /\ Parent(u) \in Blocks
<1>1. stack[u] \in Seq(Blocks) /\ stack[u] # <<>> /\ CallChain(stack[u])
  BY DEF TypeOK, StacksOk
<1>2. Head(stack[u]) = stack[u][1] /\ 1 \in 1..Len(stack[u])
  BY <1>1
<1>3. stack[u][1] # Genesis /\ stack[u][1] \in Blocks
  BY <1>1, <1>2 DEF CallChain
<1> QED BY <1>1, <1>2, <1>3, HeadersAssumption DEF Top, Parent

(* The verdict on a block whose parent is valid is the right one, whether  *)
(* the parent's manager is faithful or there is nothing to look up.        *)
LEMMA VerdictRight ==
  ASSUME NEW b \in Blocks \ {Genesis}, NEW manager, PrevHash[b] \in Valid,
         \/ manager = NoUm /\ SpentBy(b) = {}
         \/ manager # NoUm /\ manager.unspent = Ledger[PrevHash[b]]
  PROVE  Acceptable(b, manager) <=> b \in Valid
<1>1. CASE manager = NoUm /\ SpentBy(b) = {}
  <2>1. Len(Spends[b]) \in Nat
    BY UniverseAssumption
  <2>2. \A i \in 1..Len(Spends[b]) : FALSE
    BY <1>1 DEF SpentBy
  <2>3. RefsSpendable(View(manager), b) /\ RefsSpendable(Ledger[PrevHash[b]], b)
    BY <1>1, <2>2 DEF RefsSpendable
  <2> QED BY <2>3, ValidAssumption DEF Acceptable
<1>2. CASE manager # NoUm /\ manager.unspent = Ledger[PrevHash[b]]
  BY <1>2, ValidAssumption DEF Acceptable, View
<1> QED BY <1>1, <1>2

-----------------------------------------------------------------------------
(* Steps that leave the updaters and the managers alone keep all that is   *)
(* said of them.                                                           *)
LEMMA EnvironmentStep ==
  ASSUME IInv, TypeOK', UNCHANGED <<treeVars, threadVars>>,
         Genesis \in known', Genesis \notin pending'
  PROVE  IInv'
BY DEF IInv, TypeOK, StacksOk, GenesisOk, ManagersOk, HeldOk, ClimbOk, VerdictsCorrect,
       HeadIsHighestVerified, treeVars, threadVars, Parent, Top

(* At the start only genesis is known, verified and has a manager.         *)
LEMMA InitIInv == Init => IInv
<1> SUFFICES ASSUME Init PROVE IInv
  OBVIOUS
<1>1. um[Genesis] = [attached |-> Genesis, unspent |-> {}] /\ um[Genesis] \in Manager
  BY HeadersAssumption DEF Init, Manager
<1>2. um[Genesis] # NoUm /\ \A b \in Blocks \ {Genesis} : um[b] = NoUm
  BY <1>1, NoUmAssumption DEF Init
<1>3. TypeOK
  BY <1>1, HeadersAssumption DEF Init, TypeOK
<1>4. StacksOk
  BY DEF Init, StacksOk, CallChain
<1>5. GenesisOk /\ HeldOk /\ ClimbOk /\ VerdictsCorrect
  BY <1>2, ValidAssumption DEF Init, GenesisOk, HeldOk, ClimbOk, VerdictsCorrect
<1>6. ManagersOk
  BY <1>1, <1>2, LedgerAssumption DEF ManagersOk
<1>7. HeadIsHighestVerified
  BY HeadersAssumption DEF Init, HeadIsHighestVerified
<1> QED BY <1>3, <1>4, <1>5, <1>6, <1>7 DEF IInv

(* Handlers of the network, which only extend the tree and bring data in,  *)
(* keep the invariant.                                                     *)
LEMMA EnvironmentKeepsIInv == IInv /\ Environment => IInv'
<1> USE DEF netVars, treeVars, threadVars
<1>1. ASSUME IInv, NEW b \in Blocks, AddBlock(b) PROVE IInv'
  <2>1. b # Genesis
    BY <1>1 DEF AddBlock, IInv, GenesisOk
  <2>2. TypeOK' /\ Genesis \in known' /\ Genesis \notin pending'
    BY <1>1, <2>1 DEF AddBlock, Offer, IInv, GenesisOk, TypeOK
  <2> QED BY <1>1, <2>2, EnvironmentStep DEF AddBlock
<1>2. ASSUME IInv, NEW b \in Blocks, AddInternal(b) PROVE IInv'
  <2>1. b # Genesis
    BY <1>2, UpdaterAssumption DEF AddInternal, IInv, GenesisOk
  <2>2. TypeOK' /\ Genesis \in known' /\ Genesis \notin pending'
    BY <1>2, <2>1 DEF AddInternal, IInv, GenesisOk, TypeOK
  <2> QED BY <1>2, <2>2, EnvironmentStep DEF AddInternal
<1>3. ASSUME IInv, NEW b \in Blocks, AddData(b) PROVE IInv'
  <2>1. TypeOK' /\ Genesis \in known' /\ Genesis \notin pending'
    BY <1>3 DEF AddData, IInv, GenesisOk, TypeOK
  <2> QED BY <1>3, <2>1, EnvironmentStep DEF AddData
<1>4. ASSUME IInv, NEW b \in Blocks,
             NEW orphans \in SUBSET (Blocks \ (known \cup unmapped \cup Own \cup {b})),
             NEW copied \in SUBSET orphans \ {{}}, NEW tip \in orphans,
             JoinOrphans(b, orphans, copied, tip)
      PROVE  IInv'
  <2>1. tip # Genesis
    BY <1>4 DEF IInv, GenesisOk
  <2>2. TypeOK' /\ Genesis \in known' /\ Genesis \notin pending'
    BY <1>4, <2>1 DEF JoinOrphans, Offer, IInv, GenesisOk, TypeOK
  <2> QED BY <1>4, <2>2, EnvironmentStep DEF JoinOrphans
<1> QED BY <1>1, <1>2, <1>3, <1>4 DEF Environment

-----------------------------------------------------------------------------
(* Steps of an updater that move only its control: what must be shown of   *)
(* its new stack and place for the invariant to be kept.                   *)
LEMMA ControlStep ==
  ASSUME IInv, TypeOK', UNCHANGED <<um, verified, head, height, held, known>>,
         bad' \cap Valid = {}, Genesis \notin pending',
         NEW u \in Updaters,
         \A v \in Updaters \ {u} : pc'[v] = pc[v] /\ stack'[v] = stack[v],
         CallChain(stack'[u]),
         pc'[u] # "idle" => stack'[u] # <<>>,
         pc'[u] \in {"await", "verify", "interrupt", "apply", "credit"} =>
           PrevHash[Head(stack'[u])] \in verified \cup {Genesis},
         pc'[u] \in {"interrupt", "apply", "credit"} => Head(stack'[u]) \in verified
  PROVE  IInv'
<1>1. StacksOk'
  BY DEF IInv, StacksOk, CallChain
<1>2. ClimbOk'
  BY DEF IInv, ClimbOk, Parent, Top
<1>3. GenesisOk' /\ ManagersOk' /\ HeldOk' /\ VerdictsCorrect' /\ HeadIsHighestVerified'
  BY DEF IInv, GenesisOk, ManagersOk, HeldOk, VerdictsCorrect, HeadIsHighestVerified
<1> QED BY <1>1, <1>2, <1>3 DEF IInv

(* A call returns with its own block verified, so its caller finds the     *)
(* parent verified.                                                        *)
LEMMA ReturnStep ==
  ASSUME IInv, NEW u \in Updaters, pc[u] # "idle", Return(u),
         Top(u) \in verified \cup {Genesis},
         UNCHANGED <<treeVars, held, known, unmapped, pending, data, requested, arriving>>,
         UNCHANGED <<waiting, crashed>>,
         credited' \in [Blocks -> Nat]
  PROVE  IInv'
<1>1. /\ stack[u] \in Seq(Blocks) /\ stack[u] # <<>> /\ CallChain(stack[u])
      /\ Top(u) = Head(stack[u])
  BY TopOk DEF IInv, StacksOk, Top
<1>2. /\ Tail(stack[u]) \in Seq(Blocks) /\ CallChain(Tail(stack[u]))
      /\ Tail(stack[u]) # <<>> => PrevHash[Head(Tail(stack[u]))] = Top(u)
  BY <1>1, PopCall
<1>3. /\ stack' = [stack EXCEPT ![u] = Tail(stack[u])]
      /\ pc' = [pc EXCEPT ![u] = IF Tail(stack[u]) = <<>> THEN "idle" ELSE "await"]
  BY DEF Return, Goto
<1>4. /\ stack'[u] = Tail(stack[u])
      /\ pc'[u] = IF Tail(stack[u]) = <<>> THEN "idle" ELSE "await"
      /\ \A v \in Updaters \ {u} : pc'[v] = pc[v] /\ stack'[v] = stack[v]
  BY <1>3 DEF IInv, TypeOK
<1>5. TypeOK'
  BY <1>2, <1>3 DEF IInv, TypeOK, treeVars
<1>6. bad' \cap Valid = {} /\ Genesis \notin pending'
  BY DEF IInv, VerdictsCorrect, GenesisOk, treeVars
<1> QED BY <1>1, <1>2, <1>4, <1>5, <1>6, ControlStep DEF treeVars

(* An accepted block is about to be applied, after the mining goroutine    *)
(* has been interrupted if it is the new head.                             *)
LEMMA AcceptGoes ==
  ASSUME TypeOK, NEW u \in Updaters, Accept(u)
  PROVE  /\ pc'[u] \in {"interrupt", "apply"}
         /\ \A v \in Updaters \ {u} : pc'[v] = pc[v]
<1>1. \/ pc' = [pc EXCEPT ![u] = "interrupt"]
      \/ pc' = [pc EXCEPT ![u] = "apply"]
  BY DEF Accept, Goto
<1> QED BY <1>1 DEF TypeOK

(* The mining goroutine has taken the interrupt: only the place moves.     *)
LEMMA InterruptGoes ==
  ASSUME TypeOK, NEW u \in Updaters, InterruptMiner(u)
  PROVE  /\ pc[u] = "interrupt" /\ pc'[u] = "apply" /\ pc' = [pc EXCEPT ![u] = "apply"]
         /\ \A v \in Updaters \ {u} : pc'[v] = pc[v]
         /\ UNCHANGED <<netVars, treeVars, credited, stack, waiting, held, crashed>>
BY DEF InterruptMiner, At, Goto, TypeOK

(* What an update does to the managers: the one of the parent goes to the  *)
(* block, and the parent keeps a copy or nothing.                          *)
LEMMA ApplyMoves ==
  ASSUME IInv, NEW u \in Updaters, Apply(u)
  PROVE  /\ Top(u) \in Blocks \ {Genesis} /\ Parent(u) \in Blocks /\ Top(u) \in verified
         /\ held[u] = Parent(u) /\ Parent(u) # Top(u)
         /\ BlockCount[Top(u)] = BlockCount[Parent(u)] + 1
         /\ \A b \in Blocks : [attached |-> b, unspent |-> Ledger[b]] # NoUm
         /\ um[Parent(u)] # NoUm
         /\ um'[Top(u)] = [attached |-> Top(u), unspent |-> Ledger[Top(u)]]
         /\ um'[Parent(u)] = IF KeepCopy(Top(u))
                            THEN [attached |-> Parent(u), unspent |-> Ledger[Parent(u)]] ELSE NoUm
         /\ \A b \in Blocks \ {Top(u), Parent(u)} : um'[b] = um[b]
         /\ um' \in [Blocks -> Manager \cup {NoUm}]
<1> USE DEF At
<1>0. TypeOK /\ StacksOk /\ ManagersOk /\ HeldOk /\ ClimbOk /\ Apply(u)
  BY DEF IInv
<1>1. /\ Top(u) \in Blocks \ {Genesis} /\ Parent(u) \in Blocks /\ Top(u) \in verified
      /\ pc[u] = "apply"
  BY <1>0, TopOk DEF Apply, ClimbOk
<1>2. /\ held[u] \in Blocks /\ um[held[u]] \in Manager /\ held[u] = Parent(u)
      /\ um[Parent(u)].unspent = Ledger[Parent(u)] /\ um[Parent(u)] # NoUm
  BY <1>0, <1>1 DEF Apply, Updatable, HeldOk, TypeOK, ManagersOk
<1>3. Parent(u) # Top(u) /\ BlockCount[Top(u)] = BlockCount[Parent(u)] + 1
  BY <1>1, HeadersAssumption DEF Parent
<1>4. MovedTo(Top(u), um[held[u]]) = [attached |-> Top(u), unspent |-> Ledger[Top(u)]]
  BY <1>1, <1>2, LedgerAssumption DEF MovedTo, Parent
<1>5. CopyAt(Parent(u), um[held[u]]) = [attached |-> Parent(u), unspent |-> Ledger[Parent(u)]]
  BY <1>2 DEF CopyAt
<1>6. \A b \in Blocks : /\ [attached |-> b, unspent |-> Ledger[b]] \in Manager
                       /\ [attached |-> b, unspent |-> Ledger[b]] # NoUm
  <2> TAKE b \in Blocks
  <2>1. Ledger[b] \in SUBSET Ref
    BY LedgerAssumption
  <2>2. [attached |-> b, unspent |-> Ledger[b]] \in Manager
    BY <2>1 DEF Manager
  <2> QED BY <2>2, NoUmAssumption
<1>7. /\ um'[Top(u)] = [attached |-> Top(u), unspent |-> Ledger[Top(u)]]
      /\ um'[Parent(u)] = IF KeepCopy(Top(u))
                         THEN [attached |-> Parent(u), unspent |-> Ledger[Parent(u)]] ELSE NoUm
      /\ \A b \in Blocks \ {Top(u), Parent(u)} : um'[b] = um[b]
      /\ um' \in [Blocks -> Manager \cup {NoUm}]
  <2> DEFINE new == [attached |-> Top(u), unspent |-> Ledger[Top(u)]]
             kept == IF KeepCopy(Top(u))
                     THEN [attached |-> Parent(u), unspent |-> Ledger[Parent(u)]] ELSE NoUm
  <2>1. um' = [um EXCEPT ![Parent(u)] = kept, ![Top(u)] = new]
    BY <1>0, <1>4, <1>5 DEF Apply
  <2>2. new \in Manager \cup {NoUm} /\ kept \in Manager \cup {NoUm}
    BY <1>1, <1>6
  <2>3. um \in [Blocks -> Manager \cup {NoUm}]
    BY <1>0 DEF TypeOK
  <2> HIDE DEF new, kept
  <2>4. /\ um'[Top(u)] = new /\ um'[Parent(u)] = kept
        /\ \A b \in Blocks \ {Top(u), Parent(u)} : um'[b] = um[b]
        /\ um' \in [Blocks -> Manager \cup {NoUm}]
    BY <1>1, <1>3, <2>1, <2>2, <2>3
  <2> QED BY <2>4 DEF new, kept
<1> QED BY <1>1, <1>2, <1>3, <1>6, <1>7

(* Every step of an updater keeps the invariant.                           *)
LEMMA UpdaterKeepsIInv ==
  ASSUME IInv, NEW u \in Updaters, Step(u)
  PROVE  IInv'
<1> USE DEF netVars, treeVars, threadVars, At, Goto
<1>0. TypeOK /\ StacksOk /\ GenesisOk /\ ManagersOk /\ HeldOk /\ ClimbOk
  BY DEF IInv
<1>1. ASSUME NEW b \in Blocks, Receive(u, b) PROVE IInv'
  <2>1. b # Genesis /\ <<b>> \in Seq(Blocks) /\ CallChain(<<b>>) /\ <<b>> # <<>>
    BY <1>0, <1>1 DEF Receive, GenesisOk, CallChain
  <2>2. /\ stack'[u] = <<b>> /\ pc'[u] = "enter"
        /\ \A v \in Updaters \ {u} : pc'[v] = pc[v] /\ stack'[v] = stack[v]
    BY <1>0, <1>1 DEF Receive, TypeOK
  <2>3. TypeOK'
    BY <1>0, <1>1, <2>1 DEF Receive, TypeOK
  <2>4. bad' \cap Valid = {} /\ Genesis \notin pending'
    BY <1>0, <1>1 DEF Receive, IInv, VerdictsCorrect, GenesisOk
  <2> QED BY <1>1, <2>1, <2>2, <2>3, <2>4, ControlStep DEF Receive
<1>2. CASE AlreadyUpToDate(u)
  <2>1. pc[u] # "idle" /\ um[Top(u)] # NoUm /\ Return(u)
    BY <1>2 DEF AlreadyUpToDate
  <2>2. Top(u) \in verified \cup {Genesis}
    BY <1>0, <2>1, TopOk DEF ManagersOk
  <2>3. credited' \in [Blocks -> Nat]
    BY <1>0, <1>2 DEF AlreadyUpToDate, TypeOK
  <2> QED BY <1>2, <2>1, <2>2, <2>3, ReturnStep DEF AlreadyUpToDate
<1>3. CASE Credit(u)
  <2>1. pc[u] = "credit" /\ Return(u)
    BY <1>3 DEF Credit
  <2>2. Top(u) \in verified \cup {Genesis}
    BY <1>0, <2>1 DEF ClimbOk
  <2>3. credited' \in [Blocks -> Nat]
    BY <1>0, <1>3, <2>1, TopOk DEF Credit, TypeOK
  <2> QED BY <1>3, <2>1, <2>2, <2>3, ReturnStep DEF Credit
<1>4. CASE Descend(u)
  <2>1. /\ stack[u] \in Seq(Blocks) /\ stack[u] # <<>> /\ CallChain(stack[u])
        /\ Top(u) \in Blocks \ {Genesis} /\ Parent(u) \in Blocks
        /\ pc[u] = "enter" /\ Parent(u) = PrevHash[Head(stack[u])]
    BY <1>0, <1>4, TopOk DEF Descend, StacksOk, Parent, Top
  <2>2. /\ bad' \cap Valid = {} /\ Genesis \notin pending'
        /\ UNCHANGED <<um, verified, head, height, held, known>>
    <3>1. bad \cap Valid = {} /\ Genesis \notin pending
      BY <1>0 DEF IInv, VerdictsCorrect, GenesisOk
    <3>2. UNCHANGED <<bad, pending, um, verified, head, height, held, known>>
      BY <1>4 DEF Descend
    <3> QED BY <3>1, <3>2
  <2>3. requested' \subseteq Blocks /\ waiting' \in [Updaters -> SUBSET Blocks]
    <3>1. requested \subseteq Blocks /\ waiting \in [Updaters -> SUBSET Blocks]
      BY <1>0 DEF TypeOK
    <3>2. CASE data[Top(u)] = "none"
      <4>1. /\ requested' = requested \cup {Top(u)}
            /\ waiting' = [waiting EXCEPT ![u] = @ \cup {Top(u)}]
        BY <1>4, <3>2 DEF Descend
      <4> QED BY <2>1, <3>1, <4>1
    <3>3. CASE data[Top(u)] # "none"
      <4>1. UNCHANGED <<requested, waiting>>
        BY <1>4, <3>3 DEF Descend
      <4> QED BY <3>1, <4>1
    <3> QED BY <3>2, <3>3
  <2>4. CASE um[Parent(u)] = NoUm
    <3>1. Parent(u) # Genesis
      BY <1>0, <2>4 DEF GenesisOk
    <3>2. LET t == <<PrevHash[Head(stack[u])]>> \o stack[u]
          IN t \in Seq(Blocks) /\ t # <<>> /\ CallChain(t)
      BY <2>1, <3>1, PushCall
    <3>3. /\ stack' = [stack EXCEPT ![u] = <<PrevHash[Head(stack[u])]>> \o stack[u]]
          /\ pc' = pc
      BY <1>4, <2>1, <2>4 DEF Descend
    <3>4. /\ stack'[u] = <<PrevHash[Head(stack[u])]>> \o stack[u]
          /\ \A v \in Updaters \ {u} : pc'[v] = pc[v] /\ stack'[v] = stack[v]
      BY <1>0, <3>3 DEF TypeOK
    <3>5. TypeOK'
      BY <1>0, <1>4, <2>3, <3>2, <3>3 DEF Descend, TypeOK
    <3> QED BY <2>1, <2>2, <3>2, <3>3, <3>4, <3>5, ControlStep
  <2>5. CASE um[Parent(u)] # NoUm
    <3>1. /\ pc' = [pc EXCEPT ![u] = "await"] /\ stack' = stack
      BY <1>4, <2>5 DEF Descend
    <3>2. /\ pc'[u] = "await"
          /\ \A v \in Updaters \ {u} : pc'[v] = pc[v] /\ stack'[v] = stack[v]
      BY <1>0, <3>1 DEF TypeOK
    <3>3. TypeOK'
      BY <1>0, <1>4, <2>3, <3>1 DEF Descend, TypeOK
    <3>4. Parent(u) \in verified \cup {Genesis}
      BY <1>0, <2>1, <2>5 DEF ManagersOk
    <3> QED BY <2>1, <2>2, <3>1, <3>2, <3>3, <3>4, ControlStep
  <2> QED BY <2>4, <2>5
<1>5. CASE Await(u)
  <2>1. /\ stack[u] \in Seq(Blocks) /\ stack[u] # <<>> /\ CallChain(stack[u])
        /\ pc[u] = "await" /\ Parent(u) = PrevHash[Head(stack[u])]
        /\ Top(u) \in Blocks
    BY <1>0, <1>5, TopOk DEF Await, StacksOk, Parent, Top
  <2>2. /\ pc'[u] = "verify" /\ stack' = stack
        /\ \A v \in Updaters \ {u} : pc'[v] = pc[v] /\ stack'[v] = stack[v]
    BY <1>0, <1>5 DEF Await, TypeOK
  <2>3. TypeOK'
    BY <1>0, <1>5, <2>1 DEF Await, TypeOK
  <2>4. /\ bad' \cap Valid = {} /\ Genesis \notin pending'
        /\ UNCHANGED <<um, verified, head, height, held, known>>
    BY <1>0, <1>5 DEF Await, IInv, VerdictsCorrect, GenesisOk
  <2>5. Parent(u) \in verified \cup {Genesis}
    BY <1>0, <2>1 DEF ClimbOk
  <2> QED BY <2>1, <2>2, <2>3, <2>4, <2>5, ControlStep
<1>6. CASE Panic(u)
  <2>1. UNCHANGED <<netVars, treeVars, credited, threadVars>> /\ crashed' \in {"panic", "fatal"}
    BY <1>6 DEF Panic
  <2>2. TypeOK' /\ Genesis \in known' /\ Genesis \notin pending'
    BY <1>0, <2>1 DEF TypeOK, GenesisOk
  <2> QED BY <2>1, <2>2, EnvironmentStep
<1>7. CASE FatalUpdate(u)
  <2>1. UNCHANGED <<netVars, treeVars, credited, threadVars>> /\ crashed' \in {"panic", "fatal"}
    BY <1>7 DEF FatalUpdate
  <2>2. TypeOK' /\ Genesis \in known' /\ Genesis \notin pending'
    BY <1>0, <2>1 DEF TypeOK, GenesisOk
  <2> QED BY <2>1, <2>2, EnvironmentStep
<1>8. CASE Reject(u)
  <2>1. /\ Top(u) \in Blocks \ {Genesis} /\ Parent(u) \in Blocks
        /\ Parent(u) \in verified \cup {Genesis} /\ pc[u] = "verify"
    BY <1>0, <1>8, TopOk DEF Reject, ClimbOk
  <2>2. Parent(u) \in Valid
    BY <2>1, ValidAssumption DEF IInv, VerdictsCorrect
  <2>3. \/ um[Parent(u)] = NoUm /\ SpentBy(Top(u)) = {}
        \/ um[Parent(u)] # NoUm /\ um[Parent(u)].unspent = Ledger[Parent(u)]
    BY <1>0, <1>8, <2>1 DEF Reject, NilManager, ManagersOk
  <2>4. Top(u) \notin Valid
    BY <1>8, <2>1, <2>2, <2>3, VerdictRight DEF Reject, Parent
  <2>5. bad' \cap Valid = {} /\ Genesis \notin pending'
    BY <1>0, <1>8, <2>4 DEF Reject, IInv, VerdictsCorrect, GenesisOk
  <2>6. /\ pc'[u] = "idle" /\ stack'[u] = <<>> /\ CallChain(<<>>)
        /\ \A v \in Updaters \ {u} : pc'[v] = pc[v] /\ stack'[v] = stack[v]
    BY <1>0, <1>8 DEF Reject, TypeOK, CallChain
  <2>7. TypeOK'
    BY <1>0, <1>8, <2>1 DEF Reject, TypeOK
  <2> QED BY <1>8, <2>5, <2>6, <2>7, ControlStep DEF Reject
<1>9. CASE Accept(u)
  <2>1. /\ Top(u) \in Blocks \ {Genesis} /\ Parent(u) \in Blocks
        /\ Parent(u) \in verified \cup {Genesis} /\ pc[u] = "verify"
    BY <1>0, <1>9, TopOk DEF Accept, ClimbOk
  <2>2. Parent(u) \in Valid
    BY <2>1, ValidAssumption DEF IInv, VerdictsCorrect
  <2>3. \/ um[Parent(u)] = NoUm /\ SpentBy(Top(u)) = {}
        \/ um[Parent(u)] # NoUm /\ um[Parent(u)].unspent = Ledger[Parent(u)]
    BY <1>0, <1>9, <2>1 DEF Accept, NilManager, ManagersOk
  <2>4. Top(u) \in Valid
    BY <1>9, <2>1, <2>2, <2>3, VerdictRight DEF Accept, Parent
  <2>5. TypeOK'
    <3>1. head' \in Blocks /\ height' \in Nat
      BY <1>0, <1>9, <2>1, HeadersAssumption DEF Accept, TypeOK
    <3>2. verified' \subseteq Blocks /\ held' \in [Updaters -> Blocks \cup {NoUm}]
          /\ pc' \in [Updaters ->
                {"idle", "enter", "await", "verify", "interrupt", "apply", "credit"}]
      BY <1>0, <1>9, <2>1 DEF Accept, TypeOK
    <3> QED BY <1>0, <1>9, <3>1, <3>2 DEF Accept, TypeOK
  <2>6. /\ pc'[u] \in {"interrupt", "apply"} /\ stack' = stack
        /\ verified' = verified \cup {Top(u)}
        /\ held'[u] \in {NoUm, Parent(u)} /\ (held'[u] # NoUm => um[Parent(u)] # NoUm)
        /\ \A v \in Updaters \ {u} : pc'[v] = pc[v] /\ held'[v] = held[v]
        /\ UNCHANGED <<um, bad, known, pending>>
    <3>1. /\ verified' = verified \cup {Top(u)}
          /\ held' = [held EXCEPT ![u] = IF um[Parent(u)] = NoUm THEN NoUm ELSE Parent(u)]
          /\ UNCHANGED <<um, bad, known, pending, stack>>
      BY <1>9 DEF Accept
    <3>2. held'[u] = (IF um[Parent(u)] = NoUm THEN NoUm ELSE Parent(u))
      BY <1>0, <3>1 DEF TypeOK
    <3>3. held'[u] \in {NoUm, Parent(u)} /\ (held'[u] # NoUm => um[Parent(u)] # NoUm)
      BY <3>2
    <3>4. /\ pc'[u] \in {"interrupt", "apply"}
          /\ \A v \in Updaters \ {u} : pc'[v] = pc[v]
      BY <1>0, <1>9, AcceptGoes
    <3> QED BY <1>0, <3>1, <3>3, <3>4 DEF TypeOK
  <2>7. StacksOk' /\ GenesisOk' /\ ManagersOk'
    BY <1>0, <2>1, <2>6 DEF StacksOk, CallChain, GenesisOk, ManagersOk
  <2>8. HeldOk'
    BY <1>0, <2>6 DEF HeldOk
  <2>9. ClimbOk'
    BY <1>0, <2>1, <2>6 DEF ClimbOk, Parent, Top
  <2>10. VerdictsCorrect'
    BY <2>4, <2>6 DEF IInv, VerdictsCorrect
  <2>11. HeadIsHighestVerified'
    <3>1. BlockCount[Top(u)] \in Nat /\ height \in Nat
          /\ \A b \in verified : BlockCount[b] \in Nat
      BY <1>0, <2>1, HeadersAssumption DEF TypeOK
    <3>2. CASE BlockCount[Top(u)] > height
      <4>1. head' = Top(u) /\ height' = BlockCount[Top(u)]
        BY <1>9, <3>2 DEF Accept, Higher
      <4> QED BY <2>6, <3>1, <3>2, <4>1 DEF IInv, HeadIsHighestVerified
    <3>3. CASE ~(BlockCount[Top(u)] > height)
      <4>1. head' = head /\ height' = height
        BY <1>9, <3>3 DEF Accept, Higher
      <4> QED BY <2>6, <3>1, <3>3, <4>1 DEF IInv, HeadIsHighestVerified
    <3> QED BY <3>2, <3>3
  <2> QED BY <2>5, <2>7, <2>8, <2>9, <2>10, <2>11 DEF IInv
<1>10. CASE Apply(u)
  <2>1. /\ Top(u) \in Blocks \ {Genesis} /\ Parent(u) \in Blocks /\ Top(u) \in verified
        /\ held[u] = Parent(u) /\ Parent(u) # Top(u)
        /\ BlockCount[Top(u)] = BlockCount[Parent(u)] + 1 /\ um[Parent(u)] # NoUm
    BY <1>10, ApplyMoves
  <2>6. \A b \in Blocks : [attached |-> b, unspent |-> Ledger[b]] # NoUm
    BY <1>10, ApplyMoves
  <2>7. /\ um'[Top(u)] = [attached |-> Top(u), unspent |-> Ledger[Top(u)]]
        /\ um'[Parent(u)] = IF KeepCopy(Top(u))
                           THEN [attached |-> Parent(u), unspent |-> Ledger[Parent(u)]] ELSE NoUm
        /\ \A b \in Blocks \ {Top(u), Parent(u)} : um'[b] = um[b]
        /\ um' \in [Blocks -> Manager \cup {NoUm}]
    BY <1>10, ApplyMoves
  <2>8. /\ pc' = [pc EXCEPT ![u] = "credit"]
        /\ held' = [v \in Updaters |-> IF held[v] = held[u] THEN Top(u) ELSE held[v]]
        /\ UNCHANGED <<netVars, verified, bad, head, height, credited, stack, waiting, crashed>>
    BY <1>10 DEF Apply
  <2>9. TypeOK'
    BY <1>0, <2>1, <2>7, <2>8 DEF TypeOK
  <2>10. StacksOk' /\ ClimbOk'
    <3>1. /\ pc[u] = "apply" /\ pc'[u] = "credit" /\ stack' = stack /\ verified' = verified
          /\ \A v \in Updaters \ {u} : pc'[v] = pc[v]
      BY <1>0, <1>10, <2>8 DEF Apply, TypeOK
    <3>2. StacksOk'
      BY <1>0, <3>1 DEF StacksOk, CallChain
    <3>3. ClimbOk'
      BY <1>0, <2>1, <3>1 DEF ClimbOk, Parent, Top
    <3> QED BY <3>2, <3>3
  <2>11. GenesisOk'
    <3>1. CASE Parent(u) = Genesis
      <4>1. 1 % SavepointEvery = 1
        BY UpdaterAssumption
      <4>2. KeepCopy(Top(u))
        BY <2>1, <3>1, <4>1, HeadersAssumption DEF KeepCopy
      <4> QED BY <1>0, <2>6, <2>7, <2>8, <3>1, <4>2, HeadersAssumption DEF GenesisOk
    <3>2. CASE Parent(u) # Genesis
      BY <1>0, <2>1, <2>7, <2>8, <3>2, HeadersAssumption DEF GenesisOk
    <3> QED BY <3>1, <3>2
  <2>12. ManagersOk'
    <3> SUFFICES ASSUME NEW b \in Blocks, um'[b] # NoUm
                 PROVE  /\ um'[b].attached = b /\ um'[b].unspent = Ledger[b]
                        /\ b \in verified \cup {Genesis}
      BY <2>8 DEF ManagersOk
    <3>1. CASE b = Top(u)
      BY <2>1, <2>7, <3>1
    <3>2. CASE b = Parent(u)
      BY <1>0, <2>1, <2>7, <3>2 DEF ManagersOk
    <3>3. CASE b \notin {Top(u), Parent(u)}
      BY <1>0, <2>7, <3>3 DEF ManagersOk
    <3> QED BY <3>1, <3>2, <3>3
  <2>13. HeldOk'
    <3> SUFFICES ASSUME NEW v \in Updaters, held'[v] # NoUm PROVE um'[held'[v]] # NoUm
      BY DEF HeldOk
    <3>1. CASE held[v] = held[u]
      BY <2>1, <2>6, <2>7, <2>8, <3>1
    <3>2. CASE held[v] # held[u]
      <4>1. held'[v] = held[v] /\ held[v] \in Blocks /\ um[held[v]] # NoUm
        BY <1>0, <2>8, <3>2 DEF HeldOk, TypeOK
      <4> QED BY <2>1, <2>6, <2>7, <3>2, <4>1
    <3> QED BY <3>1, <3>2
  <2>14. VerdictsCorrect' /\ HeadIsHighestVerified'
    BY <2>8 DEF IInv, VerdictsCorrect, HeadIsHighestVerified
  <2> QED BY <2>9, <2>10, <2>11, <2>12, <2>13, <2>14 DEF IInv
<1> QED BY <1>1, <1>2, <1>3, <1>4, <1>5, <1>6, <1>7, <1>8, <1>9, <1>10 DEF Step

LEMMA InterruptKeepsIInv ==
  ASSUME IInv, NEW u \in Updaters, InterruptMiner(u)
  PROVE  IInv'
<1> USE DEF netVars, treeVars
<1>0. TypeOK /\ StacksOk /\ GenesisOk /\ ClimbOk
  BY DEF IInv
<1>1. /\ pc[u] = "interrupt" /\ pc'[u] = "apply" /\ pc' = [pc EXCEPT ![u] = "apply"]
      /\ \A v \in Updaters \ {u} : pc'[v] = pc[v]
      /\ UNCHANGED <<netVars, treeVars, credited, stack, waiting, held, crashed>>
  BY <1>0, InterruptGoes
<1>2. TypeOK'
  BY <1>0, <1>1 DEF TypeOK
<1>3. CallChain(stack'[u]) /\ stack'[u] # <<>>
  BY <1>0, <1>1 DEF StacksOk
<1>4. /\ PrevHash[Head(stack'[u])] \in verified \cup {Genesis}
      /\ Head(stack'[u]) \in verified
  BY <1>0, <1>1 DEF ClimbOk, Parent, Top
<1>5. bad' \cap Valid = {} /\ Genesis \notin pending'
  BY <1>0, <1>1 DEF IInv, VerdictsCorrect, GenesisOk
<1> QED BY <1>1, <1>2, <1>3, <1>4, <1>5, ControlStep

(* The invariant holds in every reachable state.                           *)
THEOREM Invariance == Spec => []IInv
<1>1. IInv /\ UNCHANGED vars => IInv'
  <2> SUFFICES ASSUME IInv, UNCHANGED vars PROVE IInv'
    OBVIOUS
  <2>1. TypeOK' /\ Genesis \in known' /\ Genesis \notin pending'
    BY DEF IInv, TypeOK, GenesisOk, vars, netVars, treeVars, threadVars
  <2> QED BY <2>1, EnvironmentStep DEF vars
<1>2. IInv /\ [Next]_vars => IInv'
  BY <1>1, EnvironmentKeepsIInv, UpdaterKeepsIInv, InterruptKeepsIInv DEF Next
<1> QED BY InitIInv, <1>2, PTL DEF Spec

(* Every variable keeps its type, with any number of updaters.             *)
THEOREM TypeCorrect == Spec => []TypeOK
<1>1. IInv => TypeOK
  BY DEF IInv
<1> QED BY Invariance, <1>1, PTL

(* Every manager is attached to the node that holds it and is the replay   *)
(* of that node's chain.                                                   *)
THEOREM ManagersFaithful == Spec => []UtxoFaithful
<1>1. IInv => UtxoFaithful
  BY DEF IInv, ManagersOk, UtxoFaithful
<1> QED BY Invariance, <1>1, PTL

(* Only valid blocks are verified and no valid block is marked bad.        *)
THEOREM VerdictsRight == Spec => []VerdictsCorrect
<1>1. IInv => VerdictsCorrect
  BY DEF IInv
<1> QED BY Invariance, <1>1, PTL

(* The head is a highest verified block.                                   *)
THEOREM HeadHighest == Spec => []HeadIsHighestVerified
<1>1. IInv => HeadIsHighestVerified
  BY DEF IInv
<1> QED BY Invariance, <1>1, PTL

-----------------------------------------------------------------------------
(* One updater.                                                            *)
LEMMA SoloInit == Init => SoloInv
<1> SUFFICES ASSUME Init PROVE SoloInv
  OBVIOUS
<1>1. IInv
  BY InitIInv
<1>2. CallsOk /\ HeadOk /\ NeverFatal
  BY <1>1 DEF Init, CallsOk, HeadOk, NeverFatal, IInv, GenesisOk
<1> QED BY <1>1, <1>2 DEF SoloInv

(* With one updater, every step of it keeps the chain of calls, the manager *)
(* of the head and the manager that the next update needs.                 *)
LEMMA SoloStep ==
  ASSUME OneUpdater, SoloInv, IInv', NEW u \in Updaters, Step(u)
  PROVE  SoloInv'
<1> USE DEF netVars, treeVars, threadVars, At, Goto
<1>0. /\ TypeOK /\ StacksOk /\ ManagersOk /\ HeadIsHighestVerified /\ VerdictsCorrect
      /\ CallsOk /\ HeadOk /\ NeverFatal
      /\ \A v \in Updaters : v = u
  BY DEF SoloInv, IInv, OneUpdater
<1>a. pc[u] \notin {"interrupt", "apply"} => um[head] # NoUm
  BY <1>0 DEF HeadOk
(* Steps that move neither the managers nor the head.                      *)
<1>b. ASSUME UNCHANGED <<um, head, held>>, pc[u] \notin {"interrupt", "apply"},
             crashed' # "fatal",
             pc'[u] \in {"await", "verify"} => um[PrevHash[Head(stack'[u])]] # NoUm,
             pc'[u] \in {"idle", "enter", "await", "verify"}
      PROVE  SoloInv'
  <2>1. CallsOk'
    BY <1>0, <1>b DEF CallsOk, Parent, Top
  <2>2. HeadOk' /\ NeverFatal'
    BY <1>a, <1>b DEF HeadOk, NeverFatal
  <2> QED BY <2>1, <2>2 DEF SoloInv
<1>1. ASSUME NEW b \in Blocks, Receive(u, b) PROVE SoloInv'
  <2>1. pc'[u] = "enter"
    BY <1>0, <1>1 DEF Receive, TypeOK
  <2> QED BY <1>0, <1>1, <1>b, <2>1 DEF Receive, NeverFatal
<1>r. ASSUME Return(u), pc[u] \in {"enter", "credit"}, um[Top(u)] # NoUm,
             UNCHANGED <<um, head, held, crashed>>
      PROVE  SoloInv'
  <2>1. stack[u] \in Seq(Blocks) /\ stack[u] # <<>> /\ CallChain(stack[u])
    BY <1>0, <1>r, TopOk DEF StacksOk
  <2>2. Tail(stack[u]) # <<>> => PrevHash[Head(Tail(stack[u]))] = Head(stack[u])
    BY <2>1, PopCall
  <2>3. /\ stack'[u] = Tail(stack[u])
        /\ pc'[u] = IF Tail(stack[u]) = <<>> THEN "idle" ELSE "await"
    BY <1>0, <1>r DEF Return, TypeOK
  <2> QED BY <1>0, <1>r, <1>b, <2>2, <2>3 DEF Top, NeverFatal
<1>2. CASE AlreadyUpToDate(u)
  BY <1>2, <1>r DEF AlreadyUpToDate
<1>3. CASE Credit(u)
  BY <1>0, <1>3, <1>r DEF Credit, CallsOk
<1>4. CASE Descend(u)
  <2>1. CASE um[Parent(u)] = NoUm
    BY <1>0, <1>4, <1>b, <2>1 DEF Descend, NeverFatal
  <2>2. CASE um[Parent(u)] # NoUm
    <3>1. pc'[u] = "await" /\ stack' = stack
      BY <1>0, <1>4, <2>2 DEF Descend, TypeOK
    <3> QED BY <1>0, <1>4, <1>b, <2>2, <3>1 DEF Descend, Parent, Top, NeverFatal
  <2> QED BY <2>1, <2>2
<1>5. CASE Await(u)
  <2>1. pc'[u] = "verify" /\ stack' = stack
    BY <1>0, <1>5 DEF Await, TypeOK
  <2> QED BY <1>0, <1>5, <1>b, <2>1 DEF Await, CallsOk, Parent, Top, NeverFatal
<1>8. CASE Reject(u)
  <2>1. pc'[u] = "idle"
    BY <1>0, <1>8 DEF Reject, TypeOK
  <2> QED BY <1>0, <1>8, <1>b, <2>1 DEF Reject, NeverFatal
<1>6. CASE Panic(u)
  <2>1. UNCHANGED <<um, head, pc, stack, held>> /\ crashed' = "panic"
    BY <1>6 DEF Panic
  <2> QED BY <1>0, <2>1 DEF SoloInv, CallsOk, HeadOk, NeverFatal, Parent, Top
(* The parent still has the faithful manager the block was verified with.  *)
<1>c. ASSUME pc[u] = "apply" PROVE held[u] = Parent(u) /\ held[u] # NoUm /\ Updatable(u)
  <2>1. Parent(u) \in Blocks
    BY <1>0, <1>c, TopOk
  <2>2. /\ um[Parent(u)] # NoUm /\ held[u] = Parent(u)
        /\ RefsSpendable(Ledger[Parent(u)], Top(u))
    BY <1>0, <1>c DEF CallsOk
  <2>3. um[Parent(u)].attached = Parent(u) /\ um[Parent(u)].unspent = Ledger[Parent(u)]
    BY <1>0, <2>1, <2>2 DEF ManagersOk
  <2> QED BY <2>1, <2>2, <2>3, NoUmAssumption DEF Updatable
<1>7. CASE FatalUpdate(u)
  BY <1>7, <1>c DEF FatalUpdate
<1>9. CASE Accept(u)
  <2>1. /\ Top(u) \in Blocks \ {Genesis} /\ Parent(u) \in Blocks /\ pc[u] = "verify"
    BY <1>0, <1>9, TopOk DEF Accept
  <2>2. um[Parent(u)] # NoUm /\ um[Parent(u)].unspent = Ledger[Parent(u)]
    BY <1>0, <2>1 DEF CallsOk, ManagersOk
  <2>3. RefsSpendable(Ledger[Parent(u)], Top(u))
    BY <1>9, <2>2 DEF Accept, Acceptable, View
  <2>4. /\ pc'[u] \in {"interrupt", "apply"} /\ held'[u] = Parent(u)
        /\ UNCHANGED <<um, stack, crashed>>
    BY <1>0, <1>9, <2>2, AcceptGoes DEF Accept, TypeOK
  <2>5. CallsOk'
    BY <1>0, <2>2, <2>3, <2>4 DEF CallsOk, Parent, Top
  <2>6. head' = head \/ head' = Top(u)
    BY <1>9 DEF Accept
  <2>7. HeadOk' /\ NeverFatal'
    BY <1>0, <1>a, <2>1, <2>4, <2>6 DEF HeadOk, NeverFatal, Top
  <2> QED BY <2>5, <2>7 DEF SoloInv
<1>10. CASE Apply(u)
  <2>1. /\ Top(u) \in Blocks /\ Top(u) \in verified /\ Parent(u) # Top(u)
        /\ BlockCount[Top(u)] = BlockCount[Parent(u)] + 1
        /\ um'[Top(u)] = [attached |-> Top(u), unspent |-> Ledger[Top(u)]]
        /\ \A b \in Blocks : [attached |-> b, unspent |-> Ledger[b]] # NoUm
        /\ \A b \in Blocks \ {Top(u), Parent(u)} : um'[b] = um[b]
    BY <1>10, ApplyMoves DEF SoloInv
  <2>2. pc'[u] = "credit" /\ UNCHANGED <<head, stack, crashed>>
    BY <1>0, <1>10 DEF Apply, TypeOK
  <2>3. CallsOk'
    BY <1>0, <2>1, <2>2 DEF CallsOk, Parent, Top
  <2>4. um'[head] # NoUm
    <3>1. CASE head = Top(u)
      BY <2>1, <3>1
    <3>2. CASE head # Top(u)
      <4>1. um[head] # NoUm /\ head \in Blocks
        BY <1>0, <3>2 DEF HeadOk, TypeOK
      <4>2. head # Parent(u)
        <5>1. BlockCount[Top(u)] <= BlockCount[head]
          BY <1>0, <2>1 DEF HeadIsHighestVerified
        <5>2. BlockCount[head] \in Nat
          BY <4>1, HeadersAssumption
        <5> QED BY <2>1, <5>1, <5>2
      <4> QED BY <2>1, <3>2, <4>1, <4>2
    <3> QED BY <3>1, <3>2
  <2>5. HeadOk' /\ NeverFatal'
    BY <1>0, <2>2, <2>4 DEF HeadOk, NeverFatal
  <2> QED BY <2>3, <2>5 DEF SoloInv
<1> QED BY <1>1, <1>2, <1>3, <1>4, <1>5, <1>6, <1>7, <1>8, <1>9, <1>10 DEF Step

(* What the handlers of the network do does not touch any of that.         *)
LEMMA SoloEnvironment ==
  ASSUME SoloInv, IInv', UNCHANGED <<treeVars, threadVars, crashed>>
  PROVE  SoloInv'
BY DEF SoloInv, CallsOk, HeadOk, NeverFatal, treeVars, threadVars, Parent, Top

LEMMA SoloInterrupt ==
  ASSUME OneUpdater, SoloInv, IInv', NEW u \in Updaters, InterruptMiner(u)
  PROVE  SoloInv'
<1>1. TypeOK /\ CallsOk /\ HeadOk /\ NeverFatal /\ \A v \in Updaters : v = u
  BY DEF SoloInv, IInv, OneUpdater
<1>2. /\ pc[u] = "interrupt" /\ pc'[u] = "apply"
      /\ UNCHANGED <<um, head, stack, held, crashed>>
  BY <1>1, InterruptGoes DEF treeVars
<1>3. CallsOk'
  BY <1>1, <1>2 DEF CallsOk, Parent, Top
<1>4. HeadOk' /\ NeverFatal'
  BY <1>1, <1>2 DEF HeadOk, NeverFatal, Top
<1> QED BY <1>3, <1>4 DEF SoloInv

(* Every step keeps it.                                                    *)
LEMMA SoloNext == OneUpdater /\ SoloInv /\ [Next]_vars => SoloInv'
<1> SUFFICES ASSUME OneUpdater, SoloInv, [Next]_vars PROVE SoloInv'
  OBVIOUS
<1>1. IInv'
  <2>1. IInv /\ UNCHANGED vars => IInv'
    <3> SUFFICES ASSUME IInv, UNCHANGED vars PROVE IInv'
      OBVIOUS
    <3>1. TypeOK' /\ Genesis \in known' /\ Genesis \notin pending'
      BY DEF IInv, TypeOK, GenesisOk, vars, netVars, treeVars, threadVars
    <3> QED BY <3>1, EnvironmentStep DEF vars
  <2> QED BY <2>1, EnvironmentKeepsIInv, UpdaterKeepsIInv, InterruptKeepsIInv DEF Next, SoloInv
<1>2. CASE UNCHANGED vars
  BY <1>1, <1>2, SoloEnvironment DEF vars
<1>3. CASE Environment
  BY <1>1, <1>3, SoloEnvironment
     DEF Environment, AddBlock, AddInternal, AddData, JoinOrphans
<1>4. CASE \E u \in Updaters : Step(u)
  BY <1>1, <1>4, SoloStep
<1>5. CASE \E u \in Updaters : InterruptMiner(u)
  BY <1>1, <1>5, SoloInterrupt
<1> QED BY <1>2, <1>3, <1>4, <1>5 DEF Next

(* The stronger invariant of a miner with one updater.                     *)
THEOREM SoloInvariance ==
  ASSUME OneUpdater
  PROVE  Spec => []SoloInv
<1>1. SoloInv /\ [Next]_vars => SoloInv'
  BY SoloNext
<1> QED BY SoloInit, <1>1, PTL DEF Spec

(* With one updater, log.Fatal is never reached.                           *)
THEOREM UpdateNeverFails ==
  ASSUME OneUpdater
  PROVE  Spec => []NeverFatal
<1>1. SoloInv => NeverFatal
  BY DEF SoloInv
<1> QED BY SoloInvariance, <1>1, PTL

(* With one updater, the head has its manager whenever no call is running. *)
THEOREM HeadReady ==
  ASSUME OneUpdater
  PROVE  Spec => []HeadReadyWhenIdle
<1>1. SoloInv => HeadReadyWhenIdle
  BY DEF SoloInv, HeadOk, HeadReadyWhenIdle
<1> QED BY SoloInvariance, <1>1, PTL

-----------------------------------------------------------------------------
(* Every verified block is signed and stands on a verified chain, with any *)
(* number of updaters.                                                     *)
THEOREM ChainsVerified == Spec => []VerifiedChains
<1>1. Init => VerifiedChains
  BY DEF Init, VerifiedChains
<1>2. IInv /\ VerifiedChains /\ [Next]_vars => VerifiedChains'
  <2> SUFFICES ASSUME IInv, VerifiedChains, [Next]_vars PROVE VerifiedChains'
    OBVIOUS
  <2> USE DEF netVars, treeVars, threadVars
  <2>1. CASE UNCHANGED vars
    BY <2>1 DEF VerifiedChains, vars
  <2>2. CASE Environment
    BY <2>2 DEF Environment, AddBlock, AddInternal, AddData, JoinOrphans, VerifiedChains
  <2>3. ASSUME NEW u \in Updaters, Step(u) PROVE VerifiedChains'
    <3>1. CASE Accept(u)
      <4>1. Parent(u) \in verified \cup {Genesis}
        BY <3>1 DEF Accept, At, IInv, ClimbOk
      <4>2. SignaturesOk[Top(u)] /\ verified' = verified \cup {Top(u)}
        BY <3>1 DEF Accept, Acceptable
      <4> QED BY <4>1, <4>2 DEF VerifiedChains, Parent
    <3>2. CASE ~Accept(u)
      <4>1. verified' = verified
        BY <2>3, <3>2 DEF Step, Receive, AlreadyUpToDate, Descend, Await, Panic, Reject,
                          Apply, FatalUpdate, Credit
      <4> QED BY <4>1 DEF VerifiedChains
    <3> QED BY <3>1, <3>2
  <2>4. ASSUME NEW u \in Updaters, InterruptMiner(u) PROVE VerifiedChains'
    BY <2>4 DEF InterruptMiner, VerifiedChains
  <2> QED BY <2>1, <2>2, <2>3, <2>4 DEF Next
<1> QED BY Invariance, <1>1, <1>2, PTL DEF Spec

(* The steps of the updater that can be seen at the head.                  *)
LEMMA HeadStep ==
  ASSUME SoloInv, NEW u \in Updaters, OneUpdater, Step(u), SoloInv'
  PROVE  [Abstract!Next]_(Abstract!vars)
<1> USE DEF netVars, treeVars, threadVars
<1>0. /\ TypeOK /\ StacksOk /\ ManagersOk /\ HeadIsHighestVerified /\ ClimbOk /\ HeadOk
      /\ VerdictsCorrect' /\ (\A v \in Updaters : v = u)
  BY DEF SoloInv, IInv, OneUpdater
<1>1. ASSUME UNCHANGED <<head, um>> PROVE UNCHANGED Abstract!vars
  BY <1>1 DEF Abstract!vars, HeadView
<1>2. CASE Accept(u)
  <2>1. Top(u) \in Blocks /\ Top(u) \in verified'
    BY <1>0, <1>2, TopOk DEF Accept, At
  <2>2. CASE Higher(Top(u))
    <3>1. /\ head' = Top(u) /\ um' = um /\ BlockCount[Top(u)] > BlockCount[head]
      BY <1>0, <1>2, <2>2 DEF Accept, Higher, HeadIsHighestVerified
    <3>2. Top(u) \in Valid
      BY <1>0, <2>1 DEF VerdictsCorrect
    <3>3. Top(u) \notin verified \cup {Genesis}
      <4>1. height \in Nat /\ BlockCount[Top(u)] \in Nat
        BY <1>0, <2>1, HeadersAssumption DEF TypeOK
      <4> QED BY <1>0, <2>2, <4>1, HeadersAssumption DEF Higher, HeadIsHighestVerified
    <3>4. um[Top(u)] = NoUm
      BY <1>0, <2>1, <3>3 DEF ManagersOk
    <3>5. HeadView' = NoUm
      BY <3>1, <3>4 DEF HeadView
    <3>6. Abstract!Adopt(Top(u))
      BY <3>1, <3>2, <3>5 DEF Abstract!Adopt
    <3> QED BY <2>1, <3>6 DEF Abstract!Next
  <2>3. CASE ~Higher(Top(u))
    BY <1>1, <1>2, <2>3 DEF Accept
  <2> QED BY <2>2, <2>3
<1>3. CASE Apply(u)
  <2>1. /\ Top(u) \in Blocks /\ Top(u) \in verified /\ Parent(u) # Top(u)
        /\ BlockCount[Top(u)] = BlockCount[Parent(u)] + 1
        /\ um'[Top(u)] = [attached |-> Top(u), unspent |-> Ledger[Top(u)]]
        /\ \A b \in Blocks : [attached |-> b, unspent |-> Ledger[b]] # NoUm
        /\ \A b \in Blocks \ {Top(u), Parent(u)} : um'[b] = um[b]
    BY <1>3, ApplyMoves DEF SoloInv
  <2>2. head' = head /\ head \in Blocks
    BY <1>0, <1>3 DEF Apply, TypeOK
  <2>3. CASE head = Top(u)
    <3>1. HeadView' = Ledger[head]
      BY <2>1, <2>2, <2>3 DEF HeadView
    <3>2. CASE um[head] = NoUm
      BY <2>2, <3>1, <3>2 DEF HeadView, Abstract!Next, Abstract!Publish
    <3>3. CASE um[head] # NoUm
      <4>1. HeadView = Ledger[head]
        BY <1>0, <2>2, <3>3 DEF ManagersOk, HeadView
      <4> QED BY <2>2, <3>1, <4>1 DEF Abstract!vars
    <3> QED BY <3>2, <3>3
  <2>4. CASE head # Top(u)
    <3>1. BlockCount[Top(u)] <= BlockCount[head] /\ BlockCount[head] \in Nat
      BY <1>0, <2>1, <2>2, HeadersAssumption DEF HeadIsHighestVerified
    <3>2. head # Parent(u)
      BY <2>1, <3>1
    <3>3. um'[head] = um[head]
      BY <2>1, <2>2, <2>4, <3>2
    <3> QED BY <2>2, <3>3 DEF HeadView, Abstract!vars
  <2> QED BY <2>3, <2>4
<1>4. CASE ~Accept(u) /\ ~Apply(u)
  <2>1. UNCHANGED <<head, um>>
    BY <1>4 DEF Step, Receive, AlreadyUpToDate, Descend, Await, Panic, Reject, FatalUpdate, Credit
  <2> QED BY <1>1, <2>1
<1> QED BY <1>2, <1>3, <1>4

(* With one updater, the updater implements LongestChain.                  *)
THEOREM Implementation ==
  ASSUME OneUpdater
  PROVE  Spec => ImplementsLongestChain
<1>1. Init => Abstract!Init
  <2> SUFFICES ASSUME Init PROVE Abstract!Init
    OBVIOUS
  <2>1. IInv
    BY InitIInv
  <2>2. HeadView = {} /\ head = Genesis
    BY <2>1, HeadersAssumption DEF Init, HeadView, IInv, GenesisOk
  <2> QED BY <2>2, LedgerAssumption DEF Abstract!Init
<1>2. SoloInv /\ SoloInv' /\ [Next]_vars => [Abstract!Next]_(Abstract!vars)
  <2> SUFFICES ASSUME SoloInv, SoloInv', [Next]_vars PROVE [Abstract!Next]_(Abstract!vars)
    OBVIOUS
  <2>1. CASE UNCHANGED vars
    BY <2>1 DEF vars, treeVars, Abstract!vars, HeadView
  <2>2. CASE Environment
    <3>1. UNCHANGED <<head, um>>
      BY <2>2 DEF Environment, AddBlock, AddInternal, AddData, JoinOrphans, treeVars
    <3> QED BY <3>1 DEF Abstract!vars, HeadView
  <2>3. CASE \E u \in Updaters : Step(u)
    BY <2>3, HeadStep
  <2>4. CASE \E u \in Updaters : InterruptMiner(u)
    <3>1. UNCHANGED <<head, um>>
      BY <2>4 DEF InterruptMiner, treeVars
    <3> QED BY <3>1 DEF Abstract!vars, HeadView
  <2> QED BY <2>1, <2>2, <2>3, <2>4 DEF Next
<1> QED BY SoloInvariance, <1>1, <1>2, PTL DEF ImplementsLongestChain, Abstract!Spec, Spec

-----------------------------------------------------------------------------
(* What is promised when branches are abandoned and rebuilt: savepoints    *)
(* stay, a rebuild is short, and the wallet has recorded what is unspent   *)
(* at the head.                                                            *)

Savepoint(b) == BlockCount[b] % SavepointEvery = 0

-----------------------------------------------------------------------------
(* Remainders.                                                             *)

(* A quotient and a remainder below the divisor determine each other.      *)
LEMMA RemainderUnique ==
  ASSUME NEW s \in Nat, s > 0, NEW q1 \in Int, NEW q2 \in Int,
         NEW r1 \in 0..(s - 1), NEW r2 \in 0..(s - 1), q1 * s + r1 = q2 * s + r2
  PROVE  r1 = r2
<1>0. \A d \in Nat : d >= 1 => d * s >= s
  <2> TAKE d \in Nat
  <2>1. ASSUME d >= 1 PROVE d * s >= s
    <3>1. d * s = s + (d - 1) * s /\ (d - 1) * s >= 0
      BY <2>1
    <3> QED BY <3>1
  <2> QED BY <2>1
<1>1. (q1 - q2) * s = r2 - r1 /\ (q2 - q1) * s = r1 - r2
  OBVIOUS
<1>2. CASE q1 = q2
  BY <1>1, <1>2
<1>3. CASE q1 > q2
  <2>1. (q1 - q2) * s >= s
    BY <1>0, <1>3, q1 - q2 \in Nat
  <2> QED BY <1>1, <2>1
<1>4. CASE q1 < q2
  <2>1. (q2 - q1) * s >= s
    BY <1>0, <1>4, q2 - q1 \in Nat
  <2> QED BY <1>1, <2>1
<1> QED BY <1>2, <1>3, <1>4

LEMMA Remainder ==
  ASSUME NEW n \in Nat, NEW s \in Nat, s > 1
  PROVE  \E q \in Int, r \in 0..(s - 1) : n % s = r /\ n = q * s + r
<1>1. n % s \in 0..(s - 1) /\ n \div s \in Int /\ n = (n \div s) * s + (n % s)
  OBVIOUS
<1> DEFINE r == n % s
           q == n \div s
<1>2. r \in 0..(s - 1) /\ q \in Int /\ n = q * s + r /\ n % s = r
  BY <1>1
<1> HIDE DEF r, q
<1> QED BY <1>2

(* A block above a savepoint is one where a copy is kept.                  *)
LEMMA AboveMultiple ==
  ASSUME NEW n \in Nat, NEW s \in Nat, s > 1, n % s = 0
  PROVE  (n + 1) % s = 1
<1>1. PICK q1 \in Int, r1 \in 0..(s - 1) : n % s = r1 /\ n = q1 * s + r1
  BY Remainder
<1>2. PICK q2 \in Int, r2 \in 0..(s - 1) : (n + 1) % s = r2 /\ n + 1 = q2 * s + r2
  BY Remainder, n + 1 \in Nat
<1>3. r1 = 0
  BY <1>1
<1>4. q1 * s + 1 = q2 * s + r2
  BY <1>1, <1>2, <1>3
<1>5. 1 \in 0..(s - 1) /\ s > 0
  OBVIOUS
<1>6. 1 = r2
  BY ONLY <1>4, <1>5, s \in Nat, q1 \in Int, q2 \in Int, r2 \in 0..(s - 1), RemainderUnique
<1> QED BY <1>2, <1>6

(* The next multiple of s is s - n % s further up.                         *)
LEMMA NextMultiple ==
  ASSUME NEW n \in Nat, NEW s \in Nat, s > 1
  PROVE  \E r \in 0..(s - 1) : n % s = r /\ (n + (s - r)) % s = 0
<1>1. PICK q1 \in Int, r1 \in 0..(s - 1) : n % s = r1 /\ n = q1 * s + r1
  BY Remainder
<1> DEFINE m == n + (s - r1)
<1>2. m \in Nat /\ m = q1 * s + s
  BY <1>1
<1> HIDE DEF m
<1>3. PICK q2 \in Int, r2 \in 0..(s - 1) : m % s = r2 /\ m = q2 * s + r2
  BY <1>2, Remainder
<1>4. q1 + 1 \in Int /\ (q1 + 1) * s = q1 * s + s
  OBVIOUS
<1>5. (q1 + 1) * s + 0 = q2 * s + r2
  BY <1>2, <1>3, <1>4
<1>6. 0 = r2
  BY <1>4, <1>5, RemainderUnique, 0 \in 0..(s - 1)
<1> QED BY <1>1, <1>3, <1>6 DEF m

-----------------------------------------------------------------------------
(* Only an update touches the managers.                                    *)
LEMMA ManagersStay ==
  ASSUME [Next]_vars
  PROVE  UNCHANGED um \/ \E u \in Updaters : Apply(u)
BY DEF Next, Step, Environment, vars, treeVars, AddBlock, AddInternal, AddData, JoinOrphans,
       Receive, AlreadyUpToDate, Descend, Await, Panic, Reject, Accept, InterruptMiner,
       FatalUpdate, Credit

(* An update takes no manager from a savepoint: the parent of the block it *)
(* moves to either keeps a copy or is none.                                *)
LEMMA SavepointKept ==
  ASSUME IInv, [Next]_vars, NEW b \in Blocks, um[b] # NoUm, Savepoint(b)
  PROVE  um'[b] # NoUm
<1>1. CASE UNCHANGED um
  BY <1>1
<1>2. ASSUME NEW u \in Updaters, Apply(u) PROVE um'[b] # NoUm
  <2>1. /\ Parent(u) \in Blocks /\ BlockCount[Top(u)] = BlockCount[Parent(u)] + 1
        /\ \A c \in Blocks : [attached |-> c, unspent |-> Ledger[c]] # NoUm
        /\ um'[Top(u)] = [attached |-> Top(u), unspent |-> Ledger[Top(u)]]
        /\ um'[Parent(u)] = IF KeepCopy(Top(u))
                           THEN [attached |-> Parent(u), unspent |-> Ledger[Parent(u)]] ELSE NoUm
        /\ \A c \in Blocks \ {Top(u), Parent(u)} : um'[c] = um[c]
        /\ Top(u) \in Blocks
    BY <1>2, ApplyMoves
  <2>2. CASE b = Parent(u)
    <3>1. BlockCount[b] \in Nat /\ SavepointEvery \in Nat /\ SavepointEvery > 1
      BY HeadersAssumption, UpdaterAssumption
    <3>2. KeepCopy(Top(u))
      BY <2>1, <2>2, <3>1, AboveMultiple DEF Savepoint, KeepCopy
    <3> QED BY <2>1, <2>2, <3>2
  <2>3. CASE b # Parent(u)
    BY <2>1, <2>3
  <2> QED BY <2>2, <2>3
<1> QED BY <1>1, <1>2, ManagersStay

(* A savepoint, once there, is never given up, whatever the number of      *)
(* updaters and the distance between savepoints.                           *)
THEOREM SavepointsStay == Spec => SavepointsRemain
<1>1. IInv /\ [Next]_vars =>
        [\A b \in Blocks :
           (um[b] # NoUm /\ BlockCount[b] % SavepointEvery = 0) => um'[b] # NoUm]_vars
  BY SavepointKept DEF Savepoint
<1> QED BY Invariance, <1>1, PTL DEF Spec, SavepointsRemain

-----------------------------------------------------------------------------
(* What the wallet has recorded.                                           *)

(* A verified block is recorded, or the call that verified it still has to *)
(* do so; and what a verified chain leaves unspent are outputs of verified *)
(* blocks.                                                                 *)
RecordOk ==
  /\ \A b \in verified :
       \/ credited[b] > 0
       \/ \E u \in Updaters : pc[u] \in {"interrupt", "apply", "credit"} /\ Top(u) = b
  /\ \A b \in verified \cup {Genesis} :
       IsFiniteSet(Ledger[b]) /\ \A r \in Ledger[b] : r[1] \in verified

LEMMA OutputsFinite ==
  ASSUME NEW b \in Blocks
  PROVE  IsFiniteSet(OutputsOf(b)) /\ \A r \in OutputsOf(b) : r[1] = b
<1>1. OutputNumber[b] \in Nat
  BY UniverseAssumption
<1>2. IsFiniteSet(1..OutputNumber[b])
  BY <1>1, FS_Interval
<1> DEFINE f == [i \in 1..OutputNumber[b] |-> <<b, i>>]
<1>3. f \in Surjection(1..OutputNumber[b], OutputsOf(b))
  BY DEF OutputsOf, Surjection
<1>4. IsFiniteSet(OutputsOf(b))
  BY <1>2, <1>3, FS_Surjection
<1> QED BY <1>4 DEF OutputsOf

LEMMA AcceptKeepsRecord ==
  ASSUME IInv, RecordOk, NEW u \in Updaters, Accept(u)
  PROVE  RecordOk'
<1>1. /\ Top(u) \in Blocks \ {Genesis} /\ Parent(u) \in Blocks /\ pc[u] = "verify"
      /\ Parent(u) \in verified \cup {Genesis} /\ Parent(u) = PrevHash[Top(u)]
  BY TopOk DEF Accept, At, IInv, ClimbOk, Parent
<1>2. /\ pc'[u] \in {"interrupt", "apply"} /\ Top(u)' = Top(u)
      /\ verified' = verified \cup {Top(u)}
      /\ \A v \in Updaters \ {u} : pc'[v] = pc[v]
      /\ UNCHANGED <<stack, credited>>
  BY AcceptGoes DEF Accept, Top, IInv
<1>3. \A b \in verified' :
         \/ credited'[b] > 0
         \/ \E v \in Updaters : pc'[v] \in {"interrupt", "apply", "credit"} /\ Head(stack'[v]) = b
  <2> SUFFICES ASSUME NEW b \in verified', ~(credited[b] > 0)
               PROVE  \E v \in Updaters :
                        pc'[v] \in {"interrupt", "apply", "credit"} /\ Head(stack'[v]) = b
    BY <1>2
  <2>1. CASE b = Top(u)
    BY <1>2, <2>1 DEF Top
  <2>2. CASE b # Top(u)
    <3>1. PICK v \in Updaters : pc[v] \in {"interrupt", "apply", "credit"} /\ Top(v) = b
      BY <1>2, <2>2 DEF RecordOk
    <3>2. v # u
      BY <1>1, <3>1
    <3> QED BY <1>2, <3>1, <3>2 DEF Top
  <2> QED BY <2>1, <2>2
<1>4. Ledger[Top(u)] = (Ledger[Parent(u)] \ SpentBy(Top(u))) \cup OutputsOf(Top(u))
  BY <1>1, LedgerAssumption DEF ApplyBlock
<1>5. IsFiniteSet(Ledger[Parent(u)]) /\ \A r \in Ledger[Parent(u)] : r[1] \in verified
  BY <1>1 DEF RecordOk
<1>6. IsFiniteSet(Ledger[Parent(u)] \ SpentBy(Top(u)))
  BY <1>5, FS_Subset
<1>7. IsFiniteSet(OutputsOf(Top(u))) /\ \A r \in OutputsOf(Top(u)) : r[1] = Top(u)
  BY <1>1, OutputsFinite
<1>8. IsFiniteSet((Ledger[Parent(u)] \ SpentBy(Top(u))) \cup OutputsOf(Top(u)))
  BY <1>6, <1>7, FS_Union
<1>9. \A r \in Ledger[Top(u)] : r[1] \in verified'
  BY <1>2, <1>4, <1>5, <1>7
<1> QED BY <1>2, <1>3, <1>4, <1>8, <1>9 DEF RecordOk, Top

LEMMA RecordKept == IInv /\ RecordOk /\ [Next]_vars => RecordOk'
<1> SUFFICES ASSUME IInv, RecordOk, [Next]_vars PROVE RecordOk'
  OBVIOUS
<1> USE DEF netVars, treeVars, threadVars
<1>1. ASSUME UNCHANGED <<verified, credited>>,
             \A v \in Updaters : pc[v] \in {"interrupt", "apply", "credit"} =>
               pc'[v] \in {"interrupt", "apply", "credit"} /\ stack'[v] = stack[v]
      PROVE  RecordOk'
  BY <1>1 DEF RecordOk, Top
<1>2. CASE UNCHANGED vars \/ Environment
  BY <1>1, <1>2 DEF vars, Environment, AddBlock, AddInternal, AddData, JoinOrphans
<1>3. ASSUME NEW u \in Updaters, Step(u) PROVE RecordOk'
  <2>1. CASE Accept(u)
    BY <2>1, AcceptKeepsRecord
  <2>2. CASE Credit(u)
    <3>1. /\ Top(u) \in Blocks /\ credited' = [credited EXCEPT ![Top(u)] = @ + 1]
          /\ \A v \in Updaters \ {u} : pc'[v] = pc[v] /\ stack'[v] = stack[v]
          /\ verified' = verified
      BY <2>2, TopOk DEF Credit, At, Return, Goto, IInv, TypeOK
    <3>2. \A b \in Blocks : credited[b] \in Nat /\ credited'[b] \in Nat
      BY <3>1 DEF IInv, TypeOK
    <3>3. /\ credited'[Top(u)] = credited[Top(u)] + 1
          /\ \A b \in Blocks \ {Top(u)} : credited'[b] = credited[b]
      BY <3>1 DEF IInv, TypeOK
    <3>4. ASSUME NEW b \in verified, ~(credited'[b] > 0)
          PROVE  \E v \in Updaters :
                   pc'[v] \in {"interrupt", "apply", "credit"} /\ Head(stack'[v]) = b
      <4>1. b \in Blocks
        BY DEF IInv, TypeOK
      <4>2. b # Top(u)
        BY <3>1, <3>2, <3>3, <3>4
      <4>3. PICK v \in Updaters : pc[v] \in {"interrupt", "apply", "credit"} /\ Top(v) = b
        BY <3>3, <3>4, <4>1, <4>2 DEF RecordOk
      <4> QED BY <3>1, <4>2, <4>3 DEF Top
    <3> QED BY <3>1, <3>4 DEF RecordOk, Top
  <2>3. CASE Apply(u)
    BY <1>1, <2>3 DEF Apply, At, Goto, IInv, TypeOK
  <2>4. CASE Step(u) /\ ~Accept(u) /\ ~Credit(u) /\ ~Apply(u)
    BY <1>1, <2>4 DEF Step, Receive, AlreadyUpToDate, Descend, Await, Panic, Reject,
                      FatalUpdate, At, Goto, Return, IInv, TypeOK
  <2> QED BY <1>3, <2>1, <2>2, <2>3, <2>4
<1>4. ASSUME NEW u \in Updaters, InterruptMiner(u) PROVE RecordOk'
  BY <1>1, <1>4, InterruptGoes DEF IInv
<1> QED BY <1>2, <1>3, <1>4 DEF Next

LEMMA RecordInit == Init => RecordOk
<1>1. Ledger[Genesis] = {} /\ IsFiniteSet(Ledger[Genesis])
  BY LedgerAssumption, FS_EmptySet
<1> QED BY <1>1 DEF Init, RecordOk

(* Outputs recorded once are counted once.                                 *)
LEMMA CountOnce ==
  ASSUME NEW S, IsFiniteSet(S)
  PROVE  Cardinality({<<r, 1>> : r \in S}) = Cardinality(S)
<1> DEFINE T == {<<r, 1>> : r \in S}
           f == [r \in S |-> <<r, 1>>]
<1>0. f \in [S -> T] /\ \A r \in S : f[r] = <<r, 1>>
  OBVIOUS
<1> HIDE DEF f
<1>1. f \in Bijection(S, T)
  <2>1. f \in Injection(S, T)
    BY <1>0 DEF Injection, IsInjective
  <2>2. f \in Surjection(S, T)
    BY <1>0 DEF Surjection
  <2> QED BY <2>1, <2>2 DEF Bijection
<1>2. ExistsBijection(S, T)
  BY <1>1 DEF ExistsBijection
<1> QED BY <1>2, FS_Bijection

(* With one updater, whenever it is idle the wallet has recorded every own *)
(* output that is unspent at the head, and TotalAvailable is right unless  *)
(* some block was recorded twice.                                          *)
THEOREM WalletComplete ==
  ASSUME OneUpdater
  PROVE  Spec => []WalletMissesNothing
<1>1. SoloInv /\ RecordOk => WalletMissesNothing
  <2> SUFFICES ASSUME SoloInv, RecordOk, \A u \in Updaters : pc[u] = "idle"
               PROVE  /\ \A r \in Received \cap um[head].unspent : credited[r[1]] > 0
                      /\ (\A b \in Blocks : credited[b] <= 1) =>
                           TotalAvailable = Cardinality(Received \cap um[head].unspent)
    BY DEF WalletMissesNothing
  <2>1. um[head] # NoUm /\ head \in Blocks /\ head \in verified \cup {Genesis}
    BY DEF SoloInv, HeadOk, IInv, HeadIsHighestVerified, TypeOK
  <2>2. um[head].unspent = Ledger[head]
    BY <2>1 DEF SoloInv, IInv, ManagersOk
  <2> DEFINE due == Received \cap um[head].unspent
  <2>3. \A r \in due : r[1] \in verified /\ r[1] \in Blocks /\ credited[r[1]] > 0
    BY <2>1, <2>2 DEF RecordOk, SoloInv, IInv, TypeOK
  <2>4. ASSUME \A b \in Blocks : credited[b] <= 1
        PROVE  TotalAvailable = Cardinality(due)
    <3>1. \A r \in due : 1..credited[r[1]] = {1}
      <4> TAKE r \in due
      <4>1. credited[r[1]] \in Nat /\ credited[r[1]] > 0 /\ credited[r[1]] <= 1
        BY <2>3, <2>4 DEF SoloInv, IInv, TypeOK
      <4>2. credited[r[1]] = 1
        BY <4>1
      <4> QED BY <4>2
    <3>2. UNION {{r} \X (1..credited[r[1]]) : r \in due} = {<<r, 1>> : r \in due}
      BY <3>1
    <3>3. IsFiniteSet(due)
      BY <2>1, <2>2, FS_Subset DEF RecordOk
    <3> HIDE DEF due
    <3>4. Cardinality({<<r, 1>> : r \in due}) = Cardinality(due)
      BY <3>3, CountOnce
    <3>5. TotalAvailable = Cardinality(UNION {{r} \X (1..credited[r[1]]) : r \in due})
      BY <2>1 DEF TotalAvailable, due
    <3> QED BY <3>2, <3>4, <3>5
  <2> QED BY <2>3, <2>4
<1>2. IInv /\ RecordOk /\ [Next]_vars => RecordOk'
  BY RecordKept
<1> QED BY SoloInvariance, Invariance, RecordInit, <1>1, <1>2, PTL DEF Spec

-----------------------------------------------------------------------------
(* How much is verified again.                                             *)

(* Every verified savepoint has its manager, or is about to get it.        *)
SavepointsReady ==
  \A b \in verified : Savepoint(b) =>
    um[b] # NoUm \/ \E u \in Updaters : pc[u] \in {"interrupt", "apply"} /\ Top(u) = b

(* The calls are for consecutive heights, the verified ones among them are *)
(* innermost, and the blocks of the waiting calls have no manager.         *)
Climb(s) ==
  /\ \A i, j \in 1..Len(s) : j <= i => BlockCount[s[i]] = BlockCount[s[j]] + (i - j)
  /\ \A i, j \in 1..Len(s) : (j <= i /\ s[i] \in verified) => s[j] \in verified
  /\ \A i \in 2..Len(s) : um[s[i]] = NoUm

CallsShort ==
  \A u \in Updaters :
    /\ Climb(stack[u])
    /\ pc[u] = "idle" => stack[u] = <<>>
    /\ pc[u] \in {"await", "verify", "interrupt", "apply"} => um[Top(u)] = NoUm
    /\ (pc[u] = "enter" /\ Len(stack[u]) > 1) => um[Top(u)] = NoUm
    /\ (pc[u] \in {"interrupt", "apply", "credit"} /\ Savepoint(Top(u)) /\ Len(stack[u]) > 1) =>
         stack[u][2] \notin verified

RebuildInv == SavepointsReady /\ CallsShort

(* Calling for the parent, when it has no manager, extends the climb.      *)
LEMMA PushClimb ==
  ASSUME IInv, VerifiedChains, NEW s \in Seq(Blocks), s # <<>>, Climb(s), Head(s) # Genesis,
         um[Head(s)] = NoUm, um[PrevHash[Head(s)]] = NoUm
  PROVE  Climb(<<PrevHash[Head(s)]>> \o s)
<1> DEFINE p == PrevHash[Head(s)]
           t == <<p>> \o s
<1>1. /\ Head(s) = s[1] /\ s[1] \in Blocks /\ p \in Blocks /\ BlockCount[s[1]] = BlockCount[p] + 1
      /\ \A b \in Blocks : BlockCount[b] \in Nat
  BY HeadersAssumption
<1>2. /\ Len(t) = Len(s) + 1 /\ t[1] = p /\ Len(s) \in Nat /\ 1 \in 1..Len(s)
      /\ \A i \in 2..Len(t) : t[i] = s[i - 1] /\ i - 1 \in 1..Len(s)
      /\ \A i \in 1..Len(s) : s[i] \in Blocks
  BY <1>1
<1>3. s[1] \in verified => p \in verified
  <2>1. um[Genesis] # NoUm
    BY DEF IInv, GenesisOk
  <2> QED BY <1>1, <2>1 DEF VerifiedChains
<1> HIDE DEF t, p
<1>4. ASSUME NEW i \in 1..Len(t), NEW j \in 1..Len(t), j <= i
      PROVE  BlockCount[t[i]] = BlockCount[t[j]] + (i - j)
  <2>1. CASE j > 1
    <3>1. i \in 2..Len(t) /\ j \in 2..Len(t) /\ j - 1 <= i - 1
      BY <1>2, <1>4, <2>1
    <3>2. t[i] = s[i - 1] /\ t[j] = s[j - 1] /\ i - 1 \in 1..Len(s) /\ j - 1 \in 1..Len(s)
      BY <1>2, <3>1
    <3>3. BlockCount[s[i - 1]] = BlockCount[s[j - 1]] + ((i - 1) - (j - 1))
      BY <3>1, <3>2 DEF Climb
    <3> QED BY <3>2, <3>3
  <2>2. CASE j = 1 /\ i > 1
    <3>1. t[i] = s[i - 1] /\ i - 1 \in 1..Len(s) /\ 1 <= i - 1
      BY <1>2, <1>4, <2>2
    <3>2. BlockCount[s[i - 1]] = BlockCount[s[1]] + ((i - 1) - 1)
      BY <1>2, <3>1 DEF Climb
    <3>3. BlockCount[t[i]] = BlockCount[p] + 1 + ((i - 1) - 1) /\ t[j] = p /\ BlockCount[p] \in Nat
      BY <1>1, <1>2, <2>2, <3>1, <3>2
    <3>4. \A n, k \in Nat : n + 1 + ((k - 1) - 1) = n + (k - 1)
      OBVIOUS
    <3>5. i \in Nat /\ i - j = i - 1
      BY <2>2
    <3> QED BY <3>3, <3>4, <3>5
  <2>3. CASE j = 1 /\ i = 1
    BY <1>1, <1>2, <2>3
  <2> QED BY <1>4, <2>1, <2>2, <2>3
<1>5. ASSUME NEW i \in 1..Len(t), NEW j \in 1..Len(t), j <= i, t[i] \in verified
      PROVE  t[j] \in verified
  <2>1. CASE j > 1
    <3>1. t[i] = s[i - 1] /\ t[j] = s[j - 1] /\ i - 1 \in 1..Len(s) /\ j - 1 \in 1..Len(s)
      BY <1>2, <1>5, <2>1
    <3> QED BY <1>5, <3>1, j - 1 <= i - 1 DEF Climb
  <2>2. CASE j = 1 /\ i > 1
    <3>1. /\ t[i] = s[i - 1] /\ i - 1 \in 1..Len(s) /\ 1 <= i - 1
          /\ s[i - 1] \in verified /\ 1 \in 1..Len(s)
      BY <1>2, <1>5, <2>2
    <3>2. s[1] \in verified
      BY <3>1 DEF Climb
    <3> QED BY <1>2, <1>3, <2>2, <3>2
  <2>3. CASE j = 1 /\ i = 1
    BY <1>5, <2>3
  <2> QED BY <1>5, <2>1, <2>2, <2>3
<1>6. ASSUME NEW i \in 2..Len(t) PROVE um[t[i]] = NoUm
  <2>1. t[i] = s[i - 1] /\ i - 1 \in 1..Len(s)
    BY <1>2, <1>6
  <2>2. CASE i = 2
    BY <1>1, <2>1, <2>2
  <2>3. CASE i # 2
    BY <2>1, <2>3, i - 1 \in 2..Len(s) DEF Climb
  <2> QED BY <2>2, <2>3
<1> QED BY <1>4, <1>5, <1>6 DEF Climb, t, p

LEMMA PopClimb ==
  ASSUME NEW s \in Seq(Blocks), s # <<>>, Climb(s)
  PROVE  /\ Climb(Tail(s))
         /\ Tail(s) # <<>> => um[Head(Tail(s))] = NoUm
<1> DEFINE t == Tail(s)
<1>1. /\ t \in Seq(Blocks) /\ Len(t) = Len(s) - 1 /\ Len(s) \in Nat
      /\ \A i \in 1..Len(t) : t[i] = s[i + 1] /\ i + 1 \in 2..Len(s) /\ i + 1 \in 1..Len(s)
  OBVIOUS
<1>2. t # <<>> => Head(t) = t[1] /\ 1 \in 1..Len(t)
  BY <1>1
<1> HIDE DEF t
<1>3. \A i, j \in 1..Len(t) : j <= i => BlockCount[t[i]] = BlockCount[t[j]] + (i - j)
  <2> TAKE i, j \in 1..Len(t)
  <2> HAVE j <= i
  <2>1. BlockCount[s[i + 1]] = BlockCount[s[j + 1]] + ((i + 1) - (j + 1))
    BY <1>1 DEF Climb
  <2> QED BY <1>1, <2>1
<1>4. \A i, j \in 1..Len(t) : (j <= i /\ t[i] \in verified) => t[j] \in verified
  <2> TAKE i, j \in 1..Len(t)
  <2> HAVE j <= i /\ t[i] \in verified
  <2>1. s[i + 1] \in verified /\ j + 1 <= i + 1
    BY <1>1
  <2>2. s[j + 1] \in verified
    BY <1>1, <2>1 DEF Climb
  <2> QED BY <1>1, <2>2
<1>5. \A i \in 1..Len(t) : um[t[i]] = NoUm
  BY <1>1 DEF Climb
<1> QED BY <1>2, <1>3, <1>4, <1>5 DEF Climb, t

(* Steps that verify nothing and move no manager keep it if the stack that *)
(* changes, and the place in it, still satisfy what is said of them.       *)
LEMMA RebuildControl ==
  ASSUME IInv, RebuildInv, UNCHANGED <<um, verified>>, NEW u \in Updaters,
         \A v \in Updaters \ {u} : pc'[v] = pc[v] /\ stack'[v] = stack[v],
         pc[u] \notin {"interrupt", "apply"}, pc'[u] \notin {"interrupt", "apply", "credit"},
         Climb(stack'[u]),
         pc'[u] = "idle" => stack'[u] = <<>>,
         (pc'[u] \in {"await", "verify"} \/ (pc'[u] = "enter" /\ Len(stack'[u]) > 1)) =>
           um[Head(stack'[u])] = NoUm
  PROVE  RebuildInv'
<1>1. SavepointsReady'
  BY DEF RebuildInv, SavepointsReady, Top
<1>2. ASSUME NEW v \in Updaters PROVE Climb(stack[v])'
  <2>1. CASE v = u
    BY <2>1 DEF Climb
  <2>2. CASE v # u
    <3>1. Climb(stack[v]) /\ stack'[v] = stack[v]
      BY <2>2 DEF RebuildInv, CallsShort
    <3> QED BY <3>1 DEF Climb
  <2> QED BY <2>1, <2>2
<1>3. CallsShort'
  BY <1>2 DEF RebuildInv, CallsShort, Top
<1> QED BY <1>1, <1>3 DEF RebuildInv

LEMMA RebuildAccept ==
  ASSUME IInv, VerifiedChains, OneUpdater, RebuildInv, NEW u \in Updaters, Accept(u)
  PROVE  RebuildInv'
<1>1. /\ stack[u] \in Seq(Blocks) /\ stack[u] # <<>> /\ Top(u) = stack[u][1] /\ pc[u] = "verify"
      /\ Top(u) \in Blocks \ {Genesis} /\ 1 \in 1..Len(stack[u]) /\ Len(stack[u]) \in Nat
      /\ \A i \in 1..Len(stack[u]) : stack[u][i] \in Blocks
      /\ \A b \in Blocks : BlockCount[b] \in Nat
  BY TopOk, HeadersAssumption DEF Accept, At, IInv, Top
<1>2. /\ pc'[u] \in {"interrupt", "apply"} /\ verified' = verified \cup {Top(u)}
      /\ UNCHANGED <<um, stack>> /\ \A v \in Updaters : v = u
  BY AcceptGoes DEF Accept, IInv, OneUpdater
<1>3. Climb(stack[u]) /\ um[Top(u)] = NoUm
  <2>1. pc[u] = "verify"
    BY <1>1
  <2>2. Climb(stack[u])
    BY DEF RebuildInv, CallsShort
  <2>3. um[Top(u)] = NoUm
    BY <2>1 DEF RebuildInv, CallsShort
  <2> QED BY <2>2, <2>3
<1>4. \A i \in 2..Len(stack[u]) : stack[u][i] # Top(u)
  <2> TAKE i \in 2..Len(stack[u])
  <2>1. BlockCount[stack[u][i]] = BlockCount[stack[u][1]] + (i - 1)
    BY <1>1, <1>3 DEF Climb
  <2>2. BlockCount[stack[u][1]] \in Nat /\ i - 1 > 0
    BY <1>1
  <2> QED BY <1>1, <2>1, <2>2
<1>5. Climb(stack[u])'
  <2>1. ASSUME NEW i \in 1..Len(stack[u]), NEW j \in 1..Len(stack[u]), j <= i, stack[u][i] \in verified'
        PROVE  stack[u][j] \in verified'
    <3>1. CASE stack[u][i] \in verified
      BY <1>2, <1>3, <2>1, <3>1 DEF Climb
    <3>2. CASE stack[u][i] = Top(u)
      <4>1. i = 1 /\ j = 1
        BY <1>1, <1>4, <2>1, <3>2
      <4> QED BY <2>1, <4>1
    <3> QED BY <1>2, <2>1, <3>1, <3>2
  <2> QED BY <1>2, <1>3, <2>1 DEF Climb
<1>6. ASSUME Savepoint(Top(u)), Len(stack[u]) > 1 PROVE stack[u][2] \notin verified'
  <2>1. 2 \in 1..Len(stack[u]) /\ 2 \in 2..Len(stack[u])
    BY <1>1, <1>6
  <2>2. ASSUME stack[u][2] \in verified PROVE FALSE
    <3>1. Top(u) \in verified
      BY <1>1, <1>3, <2>1, <2>2 DEF Climb
    <3> QED BY <1>1, <1>2, <1>3, <1>6, <3>1 DEF RebuildInv, SavepointsReady
  <2> QED BY <1>2, <1>4, <2>1, <2>2
<1>7. SavepointsReady'
  <2> SUFFICES ASSUME NEW b \in verified', Savepoint(b)
               PROVE  um[b] # NoUm \/ (pc'[u] \in {"interrupt", "apply"} /\ Head(stack'[u]) = b)
    BY <1>2 DEF SavepointsReady, Top, Savepoint
  <2>1. CASE b \in verified
    BY <1>1, <1>2, <2>1 DEF RebuildInv, SavepointsReady
  <2>2. CASE b = Top(u)
    BY <1>2, <2>2 DEF Top
  <2> QED BY <1>2, <2>1, <2>2
<1>8. CallsShort'
  BY <1>2, <1>3, <1>5, <1>6 DEF CallsShort, Top, Savepoint
<1> QED BY <1>7, <1>8 DEF RebuildInv

LEMMA RebuildApply ==
  ASSUME IInv, OneUpdater, RebuildInv, NEW u \in Updaters, Apply(u), [Next]_vars
  PROVE  RebuildInv'
<1>1. /\ stack[u] \in Seq(Blocks) /\ stack[u] # <<>> /\ Top(u) = stack[u][1] /\ pc[u] = "apply"
      /\ 1 \in 1..Len(stack[u]) /\ Len(stack[u]) \in Nat
      /\ \A i \in 1..Len(stack[u]) : stack[u][i] \in Blocks
      /\ \A b \in Blocks : BlockCount[b] \in Nat
  BY TopOk, HeadersAssumption DEF Apply, At, IInv, Top
<1>2. /\ pc'[u] = "credit" /\ UNCHANGED <<verified, stack>> /\ \A v \in Updaters : v = u
  BY DEF Apply, Goto, IInv, TypeOK, OneUpdater
<1>3. /\ Parent(u) \in Blocks /\ BlockCount[stack[u][1]] = BlockCount[Parent(u)] + 1
      /\ um'[stack[u][1]] # NoUm
      /\ \A b \in Blocks \ {stack[u][1], Parent(u)} : um'[b] = um[b]
  <2>1. /\ Parent(u) \in Blocks /\ Top(u) \in Blocks
        /\ BlockCount[Top(u)] = BlockCount[Parent(u)] + 1
        /\ \A b \in Blocks : [attached |-> b, unspent |-> Ledger[b]] # NoUm
        /\ um'[Top(u)] = [attached |-> Top(u), unspent |-> Ledger[Top(u)]]
        /\ \A b \in Blocks \ {Top(u), Parent(u)} : um'[b] = um[b]
    BY ApplyMoves
  <2>2. um'[Top(u)] # NoUm
    BY <2>1
  <2> QED BY <1>1, <2>1, <2>2
<1>4. Climb(stack[u])
  BY DEF RebuildInv, CallsShort
<1>5. \A i \in 2..Len(stack[u]) : um'[stack[u][i]] = NoUm
  <2> TAKE i \in 2..Len(stack[u])
  <2>0. i \in 1..Len(stack[u]) /\ i > 1
    BY <1>1
  <2>1. BlockCount[stack[u][i]] = BlockCount[stack[u][1]] + (i - 1) /\ um[stack[u][i]] = NoUm
    <3>1. BlockCount[stack[u][i]] = BlockCount[stack[u][1]] + (i - 1)
      <4>1. 1 \in 1..Len(stack[u]) /\ i \in 1..Len(stack[u]) /\ 1 <= i
        BY <1>1, <2>0
      <4>2. \A k, j \in 1..Len(stack[u]) :
              j <= k => BlockCount[stack[u][k]] = BlockCount[stack[u][j]] + (k - j)
        BY <1>4 DEF Climb
      <4> QED BY <4>1, <4>2
    <3>2. um[stack[u][i]] = NoUm
      BY <1>4 DEF Climb
    <3> QED BY <3>1, <3>2
  <2>2. BlockCount[stack[u][1]] \in Nat /\ BlockCount[Parent(u)] \in Nat /\ i - 1 > 0
    BY <1>1, <1>3, <2>0
  <2>3. stack[u][i] # stack[u][1] /\ stack[u][i] # Parent(u) /\ stack[u][i] \in Blocks
    <3>1. stack[u][i] \in Blocks
      BY <1>1, <2>0
    <3>2. BlockCount[stack[u][i]] # BlockCount[stack[u][1]]
      BY <2>1, <2>2
    <3>3. BlockCount[stack[u][i]] = BlockCount[Parent(u)] + 1 + (i - 1)
      BY <1>3, <2>1
    <3>4. BlockCount[stack[u][i]] # BlockCount[Parent(u)]
      BY <2>2, <3>3
    <3> QED BY <3>1, <3>2, <3>4
  <2> QED BY <1>3, <2>1, <2>3
<1>6. Climb(stack[u])'
  BY <1>2, <1>4, <1>5 DEF Climb
<1>7. SavepointsReady'
  <2> SUFFICES ASSUME NEW b \in verified, Savepoint(b) PROVE um'[b] # NoUm
    BY <1>2 DEF SavepointsReady, Savepoint
  <2>1. b \in Blocks
    BY DEF IInv, TypeOK
  <2>2. CASE um[b] # NoUm
    BY <2>1, <2>2, SavepointKept
  <2>3. CASE um[b] = NoUm
    BY <1>1, <1>2, <1>3, <2>3 DEF RebuildInv, SavepointsReady
  <2> QED BY <2>2, <2>3
<1>8. CallsShort'
  BY <1>1, <1>2, <1>6 DEF RebuildInv, CallsShort, Top, Savepoint
<1> QED BY <1>7, <1>8 DEF RebuildInv

(* A call that returns has done so with its caller's block not verified up *)
(* to date, which the caller now does.                                     *)
LEMMA RebuildReturn ==
  ASSUME IInv, RebuildInv, NEW u \in Updaters, pc[u] \in {"enter", "credit"}, Return(u),
         UNCHANGED <<um, verified>>
  PROVE  RebuildInv'
<1>1. /\ stack[u] \in Seq(Blocks) /\ stack[u] # <<>> /\ Climb(stack[u])
      /\ pc[u] \notin {"interrupt", "apply"}
  BY TopOk DEF IInv, RebuildInv, CallsShort
<1>2. /\ Climb(Tail(stack[u]))
      /\ Tail(stack[u]) # <<>> => um[Head(Tail(stack[u]))] = NoUm
  BY <1>1, PopClimb
<1>3. /\ stack'[u] = Tail(stack[u])
      /\ pc'[u] = IF Tail(stack[u]) = <<>> THEN "idle" ELSE "await"
      /\ \A v \in Updaters \ {u} : pc'[v] = pc[v] /\ stack'[v] = stack[v]
  BY DEF Return, Goto, IInv, TypeOK
<1> QED BY <1>1, <1>2, <1>3, RebuildControl

LEMMA RebuildStep ==
  ASSUME IInv, VerifiedChains, OneUpdater, RebuildInv, NEW u \in Updaters, Step(u)
  PROVE  RebuildInv'
<1> USE DEF netVars, treeVars, threadVars
<1>0. TypeOK /\ StacksOk /\ [Next]_vars
  BY DEF IInv, Next
<1>1. ASSUME NEW b \in Blocks, Receive(u, b) PROVE RebuildInv'
  <2>1. /\ stack'[u] = <<b>> /\ pc'[u] = "enter" /\ pc[u] = "idle" /\ UNCHANGED <<um, verified>>
        /\ \A v \in Updaters \ {u} : pc'[v] = pc[v] /\ stack'[v] = stack[v]
    BY <1>0, <1>1 DEF Receive, At, Goto, TypeOK
  <2>2. Len(<<b>>) = 1 /\ BlockCount[b] \in Nat /\ <<b>>[1] = b
    BY HeadersAssumption
  <2>3. /\ \A i, j \in 1..1 : i = 1 /\ j = 1
        /\ 2..1 = {}
        /\ BlockCount[b] = BlockCount[b] + (1 - 1)
    BY <2>2
  <2>4. Climb(<<b>>)
    BY <2>2, <2>3 DEF Climb
  <2>5. Climb(stack'[u]) /\ Len(stack'[u]) = 1
    BY <2>1, <2>2, <2>4
  <2>6. /\ pc[u] \notin {"interrupt", "apply"} /\ pc'[u] \notin {"interrupt", "apply", "credit"}
        /\ pc'[u] \notin {"idle", "await", "verify"} /\ ~(Len(stack'[u]) > 1)
    BY <2>1, <2>5
  <2> QED BY <2>1, <2>5, <2>6, RebuildControl
<1>2. CASE AlreadyUpToDate(u)
  BY <1>2, RebuildReturn DEF AlreadyUpToDate, At
<1>3. CASE Descend(u)
  <2>1. /\ stack[u] \in Seq(Blocks) /\ stack[u] # <<>> /\ Climb(stack[u]) /\ pc[u] = "enter"
        /\ Top(u) \in Blocks \ {Genesis} /\ Top(u) = Head(stack[u]) /\ um[Top(u)] = NoUm
        /\ Parent(u) = PrevHash[Head(stack[u])] /\ UNCHANGED <<um, verified>>
    BY <1>0, <1>3, TopOk DEF Descend, At, RebuildInv, CallsShort, Top, Parent
  <2>2. CASE um[Parent(u)] = NoUm
    <3>1. Climb(<<PrevHash[Head(stack[u])]>> \o stack[u])
      BY <2>1, <2>2, PushClimb
    <3>2. /\ stack'[u] = <<PrevHash[Head(stack[u])]>> \o stack[u] /\ pc'[u] = "enter"
          /\ \A v \in Updaters \ {u} : pc'[v] = pc[v] /\ stack'[v] = stack[v]
      BY <1>0, <1>3, <2>1, <2>2 DEF Descend, TypeOK
    <3>3. Head(stack'[u]) = Parent(u)
      BY <2>1, <3>2
    <3> QED BY <2>1, <2>2, <3>1, <3>2, <3>3, RebuildControl
  <2>3. CASE um[Parent(u)] # NoUm
    <3>1. /\ stack' = stack /\ pc'[u] = "await"
          /\ \A v \in Updaters \ {u} : pc'[v] = pc[v] /\ stack'[v] = stack[v]
      BY <1>0, <1>3, <2>3 DEF Descend, Goto, TypeOK
    <3> QED BY <2>1, <3>1, RebuildControl
  <2> QED BY <2>2, <2>3
<1>4. CASE Await(u)
  <2>1. /\ stack[u] # <<>> /\ Climb(stack[u]) /\ pc[u] = "await"
        /\ um[Head(stack[u])] = NoUm /\ UNCHANGED <<um, verified>>
    BY <1>0, <1>4, TopOk DEF Await, At, RebuildInv, CallsShort, Top
  <2>2. /\ stack' = stack /\ pc'[u] = "verify"
        /\ \A v \in Updaters \ {u} : pc'[v] = pc[v] /\ stack'[v] = stack[v]
    BY <1>0, <1>4 DEF Await, Goto, TypeOK
  <2> QED BY <2>1, <2>2, RebuildControl
<1>5. CASE Panic(u) \/ FatalUpdate(u)
  BY <1>5 DEF Panic, FatalUpdate, RebuildInv, SavepointsReady, CallsShort, Climb, Top
<1>6. CASE Reject(u)
  <2>1. /\ stack'[u] = <<>> /\ pc'[u] = "idle" /\ pc[u] = "verify" /\ UNCHANGED <<um, verified>>
        /\ \A v \in Updaters \ {u} : pc'[v] = pc[v] /\ stack'[v] = stack[v]
    BY <1>0, <1>6 DEF Reject, At, Goto, TypeOK
  <2>2. Climb(<<>>)
    BY DEF Climb
  <2> QED BY <2>1, <2>2, RebuildControl
<1>7. CASE Accept(u)
  BY <1>7, RebuildAccept
<1>8. CASE Apply(u)
  BY <1>0, <1>8, RebuildApply
<1>9. CASE Credit(u)
  BY <1>9, RebuildReturn DEF Credit, At
<1> QED BY <1>1, <1>2, <1>3, <1>4, <1>5, <1>6, <1>7, <1>8, <1>9 DEF Step

LEMMA RebuildInterrupt ==
  ASSUME IInv, RebuildInv, OneUpdater, NEW u \in Updaters, InterruptMiner(u)
  PROVE  RebuildInv'
<1>1. /\ pc[u] = "interrupt" /\ pc'[u] = "apply" /\ UNCHANGED <<um, verified, stack>>
      /\ \A v \in Updaters : v = u
  BY InterruptGoes DEF IInv, treeVars, OneUpdater
<1>2. SavepointsReady'
  BY <1>1 DEF RebuildInv, SavepointsReady, Savepoint, Top
<1>3. Climb(stack[u]) /\ Climb(stack[u])'
  BY <1>1 DEF RebuildInv, CallsShort, Climb
<1>4. CallsShort'
  BY <1>1, <1>3 DEF RebuildInv, CallsShort, Savepoint, Top
<1> QED BY <1>2, <1>4 DEF RebuildInv

LEMMA RebuildNext ==
  OneUpdater /\ IInv /\ VerifiedChains /\ RebuildInv /\ [Next]_vars => RebuildInv'
<1> SUFFICES ASSUME OneUpdater, IInv, VerifiedChains, RebuildInv, [Next]_vars PROVE RebuildInv'
  OBVIOUS
<1>1. CASE UNCHANGED vars \/ Environment
  <2>1. UNCHANGED <<um, verified, pc, stack>>
    BY <1>1 DEF vars, netVars, treeVars, threadVars, Environment, AddBlock, AddInternal, AddData,
                JoinOrphans
  <2> QED BY <2>1 DEF RebuildInv, SavepointsReady, CallsShort, Climb, Top
<1>2. ASSUME NEW u \in Updaters, Step(u) PROVE RebuildInv'
  BY <1>2, RebuildStep
<1>3. ASSUME NEW u \in Updaters, InterruptMiner(u) PROVE RebuildInv'
  BY <1>3, RebuildInterrupt
<1> QED BY <1>1, <1>2, <1>3 DEF Next

LEMMA RebuildInit == Init => RebuildInv
BY DEF Init, RebuildInv, SavepointsReady, CallsShort, Climb

(* Somewhere among the next SavepointEvery heights is a savepoint's.       *)
LEMMA SavepointAbove ==
  ASSUME NEW b \in Blocks
  PROVE  \E r \in 0..(SavepointEvery - 1) :
           /\ r = 0 => Savepoint(b)
           /\ \A c \in Blocks : BlockCount[c] = BlockCount[b] + (SavepointEvery - r) => Savepoint(c)
<1>1. SavepointEvery \in Nat /\ SavepointEvery > 1 /\ BlockCount[b] \in Nat
  BY UpdaterAssumption, HeadersAssumption
<1>2. PICK r \in 0..(SavepointEvery - 1) :
         BlockCount[b] % SavepointEvery = r /\ (BlockCount[b] + (SavepointEvery - r)) % SavepointEvery = 0
  BY <1>1, NextMultiple
<1> QED BY <1>2 DEF Savepoint

(* The verified blocks on a stack lie below the next savepoint.            *)
LEMMA BelowSavepoint ==
  ASSUME OneUpdater, IInv, RebuildInv, NEW u \in Updaters,
         NEW i \in 1..Len(stack[u]), stack[u][i] \in verified
  PROVE  i < SavepointEvery
<1> DEFINE s == stack[u]
<1>1. /\ s \in Seq(Blocks) /\ Climb(s) /\ s # <<>> /\ Top(u) = s[1] /\ pc[u] # "idle"
      /\ Len(s) \in Nat /\ 1 \in 1..Len(s)
      /\ \A j \in 1..Len(s) : s[j] \in Blocks /\ BlockCount[s[j]] \in Nat
      /\ pc[u] \in {"enter", "await", "verify", "interrupt", "apply", "credit"}
  BY HeadersAssumption DEF IInv, TypeOK, RebuildInv, CallsShort, Top
<1>2. SavepointEvery \in Nat /\ SavepointEvery > 1
  BY UpdaterAssumption
<1> SUFFICES ASSUME i >= SavepointEvery PROVE FALSE
  BY <1>1, <1>2
<1>3. Len(s) > 1 /\ \A j \in 1..Len(s) : j <= i => s[j] \in verified
  BY <1>1, <1>2 DEF Climb
<1>4. PICK r \in 0..(SavepointEvery - 1) :
         /\ r = 0 => Savepoint(s[1])
         /\ \A c \in Blocks : BlockCount[c] = BlockCount[s[1]] + (SavepointEvery - r) => Savepoint(c)
  BY <1>1, SavepointAbove
<1>5. CASE r = 0
  <2>1. Savepoint(Top(u)) /\ Top(u) \in verified /\ stack[u][2] \in verified
    BY <1>1, <1>2, <1>3, <1>4, <1>5, 2 \in 1..Len(s), 2 <= i
  <2>2. pc[u] \notin {"interrupt", "apply", "credit"}
    BY <1>3, <2>1 DEF RebuildInv, CallsShort
  <2>3. um[Top(u)] = NoUm
    BY <1>1, <1>3, <2>2 DEF RebuildInv, CallsShort
  <2>4. \A v \in Updaters : v = u
    BY DEF OneUpdater
  <2> QED BY <2>1, <2>2, <2>3, <2>4 DEF RebuildInv, SavepointsReady
<1>6. CASE r # 0
  <2> DEFINE k == SavepointEvery - r + 1
  <2>1. k \in 2..Len(s) /\ k \in 1..Len(s) /\ k <= i /\ k - 1 = SavepointEvery - r
    <3>1. /\ r \in Nat /\ r >= 1 /\ r < SavepointEvery /\ SavepointEvery \in Nat /\ i >= SavepointEvery
          /\ i \in Nat /\ i <= Len(s) /\ Len(s) \in Nat
      BY <1>1, <1>2, <1>4, <1>6
    <3> QED BY ONLY <3>1
  <2> HIDE DEF k
  <2>2. BlockCount[s[k]] = BlockCount[s[1]] + (k - 1)
    BY <1>1, <2>1 DEF Climb
  <2>3. Savepoint(s[k])
    BY <1>1, <1>4, <2>1, <2>2
  <2>4. s[k] \in verified /\ um[s[k]] = NoUm
    BY <1>1, <1>3, <2>1 DEF Climb
  <2>5. Top(u) # s[k]
    BY <1>1, <2>1, <2>2
  <2>6. \A v \in Updaters : v = u
    BY DEF OneUpdater
  <2> QED BY <2>3, <2>4, <2>5, <2>6 DEF RebuildInv, SavepointsReady
<1> QED BY <1>5, <1>6

(* With one updater no call re-verifies SavepointEvery blocks, however     *)
(* long the abandoned branch: a verified savepoint keeps its manager, so   *)
(* the descent ends there.                                                 *)
THEOREM RebuildBounded ==
  ASSUME OneUpdater
  PROVE  Spec => []RebuildIsShort
<1>1. IInv /\ RebuildInv => RebuildIsShort
  <2> SUFFICES ASSUME IInv, RebuildInv, NEW u \in Updaters
               PROVE  Cardinality({i \in 1..Len(stack[u]) : stack[u][i] \in verified}) < SavepointEvery
    BY DEF RebuildIsShort
  <2> DEFINE V == {i \in 1..Len(stack[u]) : stack[u][i] \in verified}
  <2>1. SavepointEvery \in Nat /\ SavepointEvery > 1 /\ Len(stack[u]) \in Nat
    BY UpdaterAssumption DEF IInv, TypeOK
  <2>2. V \subseteq 1..(SavepointEvery - 1)
    BY <2>1, BelowSavepoint
  <2>3. IsFiniteSet(1..(SavepointEvery - 1)) /\ Cardinality(1..(SavepointEvery - 1)) = SavepointEvery - 1
    BY <2>1, FS_Interval
  <2>4. Cardinality(V) <= Cardinality(1..(SavepointEvery - 1)) /\ IsFiniteSet(V)
    BY <2>2, <2>3, FS_Subset
  <2>5. Cardinality(V) \in Nat
    BY <2>4, FS_CardinalityType
  <2> HIDE DEF V
  <2>6. Cardinality(V) < SavepointEvery
    BY <2>1, <2>3, <2>4, <2>5
  <2> QED BY <2>6 DEF V
<1>2. OneUpdater /\ IInv /\ VerifiedChains /\ RebuildInv /\ [Next]_vars => RebuildInv'
  BY RebuildNext
<1> QED BY Invariance, ChainsVerified, RebuildInit, <1>1, <1>2, PTL DEF Spec
=============================================================================
