------------------------ MODULE ExtractPolicyProofs ------------------------
(***************************************************************************)
(* Proofs about ExtractPolicy, for any number of calls and of processes,   *)
(* with any extractors, failures and kills.                                *)
(***************************************************************************)
EXTENDS ExtractPolicy, TLAPS, SequenceTheorems

USE DEF InExtractor, BeyondLock, Goto, Initializer, InLoop, Contents, Results, Succeeds,
        CanMount, Broken, RunEnds

(* The extractors of a policy.                                             *)
LEMMA ExtractorTypes ==
  ASSUME NEW x \in Policies
  PROVE  /\ Extractors[x] \in Seq(Kinds) /\ Len(Extractors[x]) \in Nat
         /\ Extractors[x] # << >> => Len(Extractors[x]) >= 1
         /\ \A i \in 1 .. Len(Extractors[x]) : Extractors[x][i] \in Kinds
BY PolicyAssumption, ElementOfSeq, LenProperties, EmptySeq

(* Nothing is decided, and no call has begun.                              *)
LEMMA PolicyInit ==
  ASSUME Init
  PROVE  PolicyInv
<1>1. \A c \in Callers : PolicyOf[c] \in Policies /\ 0 <= Len(Extractors[PolicyOf[c]])
  BY PolicyAssumption, ExtractorTypes
<1>2. \A x \in Policies : owner[x] = Nobody /\ ~initialized[x]
  BY DEF Init
<1>3. PolicyTypeOK
  BY <1>1, PolicyAssumption DEF Init, PolicyTypeOK
<1>4. \A c \in Callers : pc[c] = "start" /\ idx[c] = 0
  BY DEF Init
<1>. QED BY <1>2, <1>3, <1>4 DEF PolicyInv, ReadyOrAborted

(* A call that returns leaves the invariant as it was, once the policy has *)
(* what it needs.                                                          *)
LEMMA ReturnKeeps ==
  ASSUME PolicyInv, NEW c \in Callers, NEW r \in {"ok", "unserved", "err"}, Return(c, r),
         pc[c] \in BeyondLock,
         busy' \in [Policies -> [Kinds -> Callers \cup {Nobody}]],
         chosen' \in [Policies -> Kinds \cup {NoExtractor}],
         hopeless' \in [Policies -> BOOLEAN], aborted' \in [Policies -> BOOLEAN],
         content' \in [Dirs -> Contents],
         \A x \in Policies \ {PolicyOf[c]} :
           chosen'[x] = chosen[x] /\ hopeless'[x] = hopeless[x] /\ aborted'[x] = aborted[x],
         LET x == PolicyOf[c]
         IN \/ initialized[x] /\ chosen'[x] = chosen[x] /\ hopeless'[x] = hopeless[x] /\ aborted'[x] = aborted[x]
            \/ aborted'[x] \/ hopeless'[x] \/ chosen'[x] # NoExtractor
  PROVE  PolicyInv'
<1>. DEFINE x == PolicyOf[c]
<1>0. x \in Policies /\ \A b \in Callers : PolicyOf[b] \in Policies
  BY PolicyAssumption
<1>a. /\ pc \in [Callers -> {"start", "lock", "mkdir", "choose", "wait", "look",
                            "mount", "unpack", "unpacking", "ended"}]
      /\ idx \in [Callers -> Nat] /\ using \in [Callers -> Kinds \cup {NoExtractor}]
      /\ initialized \in [Policies -> BOOLEAN] /\ owner \in [Policies -> Callers \cup {Nobody}]
      /\ \A b \in Callers : idx[b] <= Len(Extractors[PolicyOf[b]])
  BY DEF PolicyInv, PolicyTypeOK
<1>1. /\ \A b \in Callers \ {c} : pc'[b] = pc[b] /\ idx'[b] = idx[b] /\ using'[b] = using[b]
      /\ pc'[c] = "ended" /\ idx'[c] = 0
  BY <1>a DEF Return
<1>b. /\ initialized' \in [Policies -> BOOLEAN]
      /\ \A y \in Policies : y # x => initialized'[y] = initialized[y] /\ owner'[y] = owner[y]
      /\ owner[x] # c => initialized'[x] = initialized[x] /\ owner'[x] = owner[x]
      /\ owner[x] = c => initialized'[x] = TRUE /\ owner'[x] = Nobody
      /\ initialized[x] => initialized'[x]
  <2>1. initialized' = [initialized EXCEPT ![x] = initialized[x] \/ owner[x] = c]
    BY DEF Return
  <2>2. owner' = IF owner[x] = c THEN [owner EXCEPT ![x] = Nobody] ELSE owner
    BY DEF Return
  <2>3. CASE owner[x] = c
    <3>1. initialized' = [initialized EXCEPT ![x] = TRUE]
      BY <2>1, <2>3
    <3>. QED BY <1>0, <1>a, <2>2, <2>3, <3>1
  <2>4. CASE owner[x] # c
    <3>1. (initialized[x] \/ owner[x] = c) = initialized[x]
      <4>1. initialized[x] = TRUE \/ initialized[x] = FALSE
        BY <1>0, <1>a
      <4>. QED BY <4>1, <2>4
    <3>2. initialized' = initialized
      <4>. HIDE DEF x
      <4>1. initialized' = [initialized EXCEPT ![x] = initialized[x]]
        BY ONLY <2>1, <3>1
      <4>2. initialized = [initialized EXCEPT ![x] = initialized[x]]
        BY ONLY <1>0, <1>a
      <4>. QED BY ONLY <4>1, <4>2
    <3>. QED BY <1>0, <1>a, <2>2, <2>4, <3>2
  <2>. QED BY <2>3, <2>4
<1>2. PolicyTypeOK'
  <2>1. pc' \in [Callers -> {"start", "lock", "mkdir", "choose", "wait", "look",
                             "mount", "unpack", "unpacking", "ended"}]
    BY <1>a DEF Return
  <2>2. idx' \in [Callers -> Nat] /\ using' \in [Callers -> Kinds \cup {NoExtractor}]
    BY <1>a DEF Return
  <2>3. \A b \in Callers : idx'[b] <= Len(Extractors[PolicyOf[b]])
    BY <1>0, <1>1, <1>a, ExtractorTypes
  <2>4. res' \in [Callers -> Results]
    BY DEF Return, PolicyInv, PolicyTypeOK
  <2>5. owner' \in [Policies -> Callers \cup {Nobody}]
    BY <1>a DEF Return
  <2>. QED BY <1>b, <2>1, <2>2, <2>3, <2>4, <2>5 DEF PolicyTypeOK
<1>3. ASSUME NEW y \in Policies, owner'[y] # Nobody
      PROVE  PolicyOf[owner'[y]] = y /\ pc'[owner'[y]] \in BeyondLock /\ ~initialized'[y]
  <2>1. owner'[y] = owner[y] /\ owner[y] \in Callers \ {c} /\ initialized'[y] = initialized[y]
    BY <1>0, <1>a, <1>b, <1>3 DEF PolicyInv
  <2>. QED BY <1>1, <1>3, <2>1 DEF PolicyInv
<1>4. ASSUME NEW b \in Callers
      PROVE  /\ pc'[b] \in BeyondLock => initialized'[PolicyOf[b]] \/ owner'[PolicyOf[b]] = b
             /\ pc'[b] \in InExtractor => using'[b] \in Kinds
             /\ idx'[b] > 0 <=> pc'[b] \in InExtractor /\ owner'[PolicyOf[b]] = b
  <2>1. CASE b = c
    BY <1>1, <2>1
  <2>2. CASE b # c
    <3>1. pc'[b] = pc[b] /\ idx'[b] = idx[b] /\ using'[b] = using[b]
      BY <1>1, <2>2
    <3>2. initialized[PolicyOf[b]] => initialized'[PolicyOf[b]]
      BY <1>0, <1>b
    <3>3. owner'[PolicyOf[b]] = b <=> owner[PolicyOf[b]] = b
      <4>1. Nobody # b
        BY PolicyAssumption
      <4>2. CASE PolicyOf[b] = x
        BY <1>b, <2>2, <4>1, <4>2
      <4>3. CASE PolicyOf[b] # x
        BY <1>0, <1>b, <4>3
      <4>. QED BY <4>2, <4>3
    <3>. QED BY <3>1, <3>2, <3>3 DEF PolicyInv
  <2>. QED BY <2>1, <2>2
<1>5. ReadyOrAborted'
  <2>. SUFFICES ASSUME NEW y \in Policies, initialized'[y]
                PROVE  aborted'[y] \/ chosen'[y] # NoExtractor \/ hopeless'[y]
    BY DEF ReadyOrAborted
  <2>1. CASE y # x
    BY <1>b, <2>1 DEF PolicyInv, ReadyOrAborted
  <2>2. CASE y = x
    BY <2>2, <1>0 DEF PolicyInv, ReadyOrAborted
  <2>. QED BY <2>1, <2>2
<1>. QED BY <1>2, <1>3, <1>4, <1>5 DEF PolicyInv

(* The calls other than the one that makes the step are where they were.   *)
Stay(c) ==
  \A b \in Callers \ {c} : pc'[b] = pc[b] /\ idx'[b] = idx[b] /\ using'[b] = using[b]

(* A step within a call.                                                   *)
LEMMA InsideKeeps ==
  ASSUME PolicyInv, NEW c \in Callers, PolicyTypeOK', Stay(c),
         UNCHANGED <<initialized, owner, chosen, hopeless, aborted>>,
         pc[c] \in BeyondLock <=> pc'[c] \in BeyondLock,
         pc'[c] \in InExtractor => using'[c] \in Kinds,
         idx'[c] > 0 <=> pc'[c] \in InExtractor /\ Initializer(c)
  PROVE  PolicyInv'
<1>1. \A b \in Callers : pc[b] \in BeyondLock <=> pc'[b] \in BeyondLock
  BY DEF Stay
<1>2. \A x \in Policies : owner'[x] # Nobody =>
        PolicyOf[owner'[x]] = x /\ pc'[owner'[x]] \in BeyondLock /\ ~initialized'[x]
  <2>1. \A x \in Policies : owner[x] # Nobody => owner[x] \in Callers
    BY DEF PolicyInv, PolicyTypeOK
  <2>. QED BY <1>1, <2>1 DEF PolicyInv
<1>3. ASSUME NEW b \in Callers
      PROVE  /\ pc'[b] \in BeyondLock => initialized'[PolicyOf[b]] \/ owner'[PolicyOf[b]] = b
             /\ pc'[b] \in InExtractor => using'[b] \in Kinds
             /\ idx'[b] > 0 <=> pc'[b] \in InExtractor /\ owner'[PolicyOf[b]] = b
  <2>1. CASE b = c
    BY <1>1, <2>1 DEF PolicyInv
  <2>2. CASE b # c
    BY <2>2 DEF PolicyInv, Stay
  <2>. QED BY <2>1, <2>2
<1>4. ReadyOrAborted'
  BY DEF PolicyInv, ReadyOrAborted
<1>. QED BY <1>2, <1>3, <1>4 DEF PolicyInv

(* The end of a process leaves none of its calls behind the lock.          *)
LEMMA DieKeeps ==
  ASSUME PolicyInv, NEW x \in Policies, Die(x)
  PROVE  PolicyInv'
<1>a. /\ \A c \in Callers : PolicyOf[c] \in Policies /\ 0 <= Len(Extractors[PolicyOf[c]])
  BY PolicyAssumption, ExtractorTypes
<1>b. PolicyTypeOK
  BY DEF PolicyInv
<1>1. PolicyTypeOK'
  <2>1. /\ pc' \in [Callers -> {"start", "lock", "mkdir", "choose", "wait", "look",
                                "mount", "unpack", "unpacking", "ended"}]
        /\ res' \in [Callers -> Results]
    BY <1>b DEF Die, PolicyTypeOK
  <2>2. /\ idx' \in [Callers -> Nat] /\ using' \in [Callers -> Kinds \cup {NoExtractor}]
        /\ \A c \in Callers : idx'[c] <= Len(Extractors[PolicyOf[c]])
    BY <1>a, <1>b DEF Die, PolicyTypeOK
  <2>3. /\ owner' \in [Policies -> Callers \cup {Nobody}]
        /\ busy' \in [Policies -> [Kinds -> Callers \cup {Nobody}]]
    BY <1>b DEF Die, PolicyTypeOK
  <2>. QED BY <1>b, <2>1, <2>2, <2>3 DEF Die, PolicyTypeOK
<1>2. \A y \in Policies : owner'[y] = IF y = x THEN Nobody ELSE owner[y]
  BY <1>b DEF Die, PolicyTypeOK
<1>3. \A c \in Callers : IF PolicyOf[c] = x
        THEN pc'[c] = "ended" /\ idx'[c] = 0
        ELSE pc'[c] = pc[c] /\ idx'[c] = idx[c] /\ using'[c] = using[c]
  BY DEF Die
<1>4. UNCHANGED <<initialized, chosen, hopeless, aborted>>
  BY DEF Die
<1>5. ASSUME NEW y \in Policies, owner'[y] # Nobody
      PROVE  PolicyOf[owner'[y]] = y /\ pc'[owner'[y]] \in BeyondLock /\ ~initialized'[y]
  <2>1. y # x /\ owner'[y] = owner[y] /\ owner[y] \in Callers
    BY <1>2, <1>5, <1>b DEF PolicyTypeOK
  <2>. QED BY <1>3, <1>4, <1>5, <2>1 DEF PolicyInv
<1>6. ASSUME NEW b \in Callers
      PROVE  /\ pc'[b] \in BeyondLock => initialized'[PolicyOf[b]] \/ owner'[PolicyOf[b]] = b
             /\ pc'[b] \in InExtractor => using'[b] \in Kinds
             /\ idx'[b] > 0 <=> pc'[b] \in InExtractor /\ owner'[PolicyOf[b]] = b
  <2>1. CASE PolicyOf[b] = x
    BY <1>3, <2>1
  <2>2. CASE PolicyOf[b] # x
    BY <1>2, <1>3, <1>4, <1>a, <2>2 DEF PolicyInv
  <2>. QED BY <2>1, <2>2
<1>7. ReadyOrAborted'
  BY <1>4 DEF PolicyInv, ReadyOrAborted
<1>. QED BY <1>1, <1>5, <1>6, <1>7 DEF PolicyInv

-----------------------------------------------------------------------------
(* Contents the extractors may leave.                                      *)
ContentOK == content' \in [Dirs -> Contents]

(* What is known of a call whose extractor returns.                        *)
LEMMA InExtractorFacts ==
  ASSUME PolicyInv, NEW c \in Callers, pc[c] \in InExtractor, Unlocked(c)
  PROVE  /\ PolicyOf[c] \in Policies /\ using[c] \in Kinds
         /\ busy' \in [Policies -> [Kinds -> Callers \cup {Nobody}]]
         /\ initialized[PolicyOf[c]] \/ idx[c] > 0
         /\ idx[c] > 0 => ~initialized[PolicyOf[c]]
<1>1. PolicyOf[c] \in Policies /\ using[c] \in Kinds
  BY PolicyAssumption DEF PolicyInv
<1>2. busy' \in [Policies -> [Kinds -> Callers \cup {Nobody}]]
  BY <1>1 DEF Unlocked, PolicyInv, PolicyTypeOK
<1>3. initialized[PolicyOf[c]] \/ idx[c] > 0
  BY <1>1 DEF PolicyInv
<1>4. idx[c] > 0 => ~initialized[PolicyOf[c]]
  BY <1>1, PolicyAssumption DEF PolicyInv
<1>. QED BY <1>1, <1>2, <1>3, <1>4

(* An extractor that works is a decision, if the initializer called it.    *)
LEMMA WorksKeeps ==
  ASSUME PolicyInv, NEW c \in Callers, pc[c] \in InExtractor,
         NEW r \in {"ok", "unserved"}, Succeeds(c, r), ContentOK
  PROVE  PolicyInv'
<1>. DEFINE x == PolicyOf[c]
<1>1. /\ x \in Policies /\ using[c] \in Kinds /\ using[c] # NoExtractor
      /\ busy' \in [Policies -> [Kinds -> Callers \cup {Nobody}]]
      /\ initialized[x] \/ idx[c] > 0
      /\ Return(c, r) /\ UNCHANGED <<hopeless, aborted>>
      /\ chosen' = IF idx[c] > 0 THEN [chosen EXCEPT ![x] = using[c]] ELSE chosen
  BY InExtractorFacts, PolicyAssumption DEF Works
<1>2. /\ chosen \in [Policies -> Kinds \cup {NoExtractor}]
      /\ hopeless' \in [Policies -> BOOLEAN] /\ aborted' \in [Policies -> BOOLEAN]
  BY <1>1 DEF PolicyInv, PolicyTypeOK
<1>3. chosen' \in [Policies -> Kinds \cup {NoExtractor}]
  BY <1>1, <1>2
<1>4. \A y \in Policies \ {x} : chosen'[y] = chosen[y]
  BY <1>1, <1>2
<1>5. idx[c] > 0 => chosen'[x] # NoExtractor
  BY <1>1, <1>2
<1>6. ~(idx[c] > 0) => chosen' = chosen
  BY <1>1
<1>. QED BY <1>1, <1>2, <1>3, <1>4, <1>5, <1>6, ReturnKeeps DEF ContentOK

(* After an extractor that fails there is another one, or an excuse.       *)
LEMMA FailsKeeps ==
  ASSUME PolicyInv, NEW c \in Callers, pc[c] \in InExtractor, Fails(c), ContentOK
  PROVE  PolicyInv'
<1>. DEFINE x == PolicyOf[c]
<1>0. PolicyTypeOK
  BY DEF PolicyInv
<1>1. /\ x \in Policies /\ using[c] \in Kinds
      /\ busy' \in [Policies -> [Kinds -> Callers \cup {Nobody}]]
      /\ initialized[x] \/ idx[c] > 0
  BY InExtractorFacts DEF Fails
<1>2. CASE idx[c] > 0 /\ idx[c] < Len(Extractors[x])
  <2>1. /\ idx' = [idx EXCEPT ![c] = idx[c] + 1] /\ UNCHANGED policy
        /\ using' = [using EXCEPT ![c] = Extractors[x][idx[c] + 1]]
        /\ pc' = [pc EXCEPT ![c] = "wait"] /\ res' = res
    BY <1>2 DEF Fails, Use
  <2>2. idx[c] + 1 \in 1 .. Len(Extractors[x])
    BY <1>0, <1>1, <1>2, ExtractorTypes DEF PolicyTypeOK
  <2>3. Extractors[x][idx[c] + 1] \in Kinds
    BY <1>1, <2>2, ExtractorTypes
  <2>4. PolicyTypeOK'
    <3>1. /\ idx' \in [Callers -> Nat]
          /\ \A b \in Callers : idx'[b] <= Len(Extractors[PolicyOf[b]])
      BY <1>0, <2>1, <2>2 DEF PolicyTypeOK
    <3>2. using' \in [Callers -> Kinds \cup {NoExtractor}]
      BY <1>0, <2>1, <2>3 DEF PolicyTypeOK
    <3>. QED BY <1>0, <1>1, <2>1, <3>1, <3>2 DEF PolicyTypeOK, policy, ContentOK
  <2>5. Stay(c) /\ using'[c] \in Kinds /\ idx'[c] > 0 /\ pc'[c] \in InExtractor
    BY <1>0, <2>1, <2>2, <2>3 DEF Stay, PolicyTypeOK
  <2>6. Initializer(c)
    BY <1>2 DEF PolicyInv
  <2>. QED BY <2>1, <2>4, <2>5, <2>6, InsideKeeps DEF policy
<1>3. CASE ~(idx[c] > 0 /\ idx[c] < Len(Extractors[x]))
  <2>1. /\ Return(c, "err") /\ UNCHANGED <<chosen, aborted>>
        /\ hopeless' = [hopeless EXCEPT ![x] = hopeless[x] \/ idx[c] > 0]
    BY <1>3 DEF Fails
  <2>2. hopeless' \in [Policies -> BOOLEAN] /\ \A y \in Policies \ {x} : hopeless'[y] = hopeless[y]
    BY <1>0, <1>1, <2>1 DEF PolicyTypeOK
  <2>3. idx[c] > 0 => hopeless'[x]
    <3>. SUFFICES ASSUME idx[c] > 0 PROVE hopeless'[x]
      OBVIOUS
    <3>1. hopeless' = [hopeless EXCEPT ![x] = TRUE]
      BY <2>1
    <3>. QED BY <1>0, <1>1, <3>1 DEF PolicyTypeOK
  <2>4. ~(idx[c] > 0) => hopeless'[x] = hopeless[x]
    <3>. SUFFICES ASSUME ~(idx[c] > 0) PROVE hopeless'[x] = hopeless[x]
      OBVIOUS
    <3>1. hopeless' = [hopeless EXCEPT ![x] = hopeless[x]]
      BY <1>0, <1>1, <2>1 DEF PolicyTypeOK
    <3>. QED BY <1>0, <1>1, <3>1 DEF PolicyTypeOK
  <2>. QED BY <1>0, <1>1, <2>1, <2>2, <2>3, <2>4, ReturnKeeps DEF PolicyTypeOK, ContentOK
<1>. QED BY <1>2, <1>3

(* The steps that neither return nor end the process.                      *)
LEMMA QuietCallKeeps ==
  ASSUME PolicyInv, NEW c \in Callers,
         \/ ReadInitialized(c) \/ MakeDir(c) \/ TryFirst(c) \/ LockExtractor(c) \/ Unpack(c)
         \/ pc[c] = "look" /\ Goto(c, "mount") /\ UNCHANGED <<idx, using, policy, busy, content>>
         \/ pc[c] = "choose" /\ Use(c, chosen[PolicyOf[c]]) /\ initialized[PolicyOf[c]]
              /\ chosen[PolicyOf[c]] # NoExtractor /\ UNCHANGED <<idx, policy, busy, content>>
  PROVE  PolicyInv'
<1>. DEFINE x == PolicyOf[c]
<1>0. /\ PolicyTypeOK /\ x \in Policies /\ DirOf[c] \in Dirs /\ idx[c] \in Nat
      /\ idx[c] > 0 <=> pc[c] \in InExtractor /\ Initializer(c)
      /\ pc[c] \in InExtractor => using[c] \in Kinds
      /\ chosen[x] \in Kinds \cup {NoExtractor}
      /\ pc[c] \in BeyondLock => initialized[x] \/ Initializer(c)
      /\ Initializer(c) => ~initialized[x]
  BY PolicyAssumption DEF PolicyInv, PolicyTypeOK
<1>. USE <1>0 DEF policy
<1>1. CASE ReadInitialized(c)
  <2>1. PolicyTypeOK' /\ Stay(c)
    BY <1>1 DEF ReadInitialized, PolicyTypeOK, Stay
  <2>2. pc'[c] \in {"mkdir", "lock"} /\ idx'[c] = 0
    BY <1>1 DEF ReadInitialized, PolicyTypeOK
  <2>3. CASE initialized[x]
    <3>1. \A b \in Callers : pc'[b] \in BeyondLock => pc[b] \in BeyondLock \/ b = c
      BY <2>1 DEF Stay
    <3>2. \A y \in Policies : owner[y] # Nobody => owner[y] # c
      BY <1>1 DEF ReadInitialized, PolicyInv
    <3>. QED BY <1>1, <2>1, <2>2, <2>3, <3>1, <3>2 DEF ReadInitialized, PolicyInv, Stay, ReadyOrAborted, PolicyTypeOK
  <2>4. CASE ~initialized[x]
    <3>1. pc'[c] = "lock"
      BY <1>1, <2>4 DEF ReadInitialized, PolicyTypeOK
    <3>. QED BY <1>1, <2>1, <2>2, <3>1, InsideKeeps DEF ReadInitialized
  <2>. QED BY <2>3, <2>4
<1>2. CASE MakeDir(c)
  <2>1. PolicyTypeOK' /\ Stay(c)
    BY <1>2 DEF MakeDir, PolicyTypeOK, Stay
  <2>. QED BY <1>2, <2>1, InsideKeeps DEF MakeDir, PolicyTypeOK
<1>3. CASE TryFirst(c)
  <2>1. Extractors[x][1] \in Kinds /\ Len(Extractors[x]) \in Nat /\ 1 <= Len(Extractors[x])
    BY <1>3, ExtractorTypes DEF TryFirst
  <2>2. /\ pc' = [pc EXCEPT ![c] = "wait"] /\ idx' = [idx EXCEPT ![c] = 1]
        /\ using' = [using EXCEPT ![c] = Extractors[x][1]] /\ UNCHANGED <<res, policy, busy, content>>
        /\ pc[c] = "choose" /\ Initializer(c)
    BY <1>3 DEF TryFirst, Use
  <2>3. PolicyTypeOK' /\ Stay(c)
    BY <2>1, <2>2 DEF PolicyTypeOK, Stay
  <2>4. pc'[c] = "wait" /\ idx'[c] = 1 /\ using'[c] \in Kinds
    BY <2>1, <2>2 DEF PolicyTypeOK
  <2>5. UNCHANGED <<initialized, owner, chosen, hopeless, aborted>>
    BY <2>2
  <2>6. /\ pc[c] \in BeyondLock <=> pc'[c] \in BeyondLock
        /\ pc'[c] \in InExtractor => using'[c] \in Kinds
        /\ idx'[c] > 0 <=> pc'[c] \in InExtractor /\ Initializer(c)
    BY <2>2, <2>4
  <2>. QED BY <2>3, <2>5, <2>6, InsideKeeps
<1>4. CASE LockExtractor(c)
  <2>1. pc[c] = "wait" /\ using[c] \in Kinds
    BY <1>4 DEF LockExtractor
  <2>2. PolicyTypeOK' /\ Stay(c)
    BY <1>4, <2>1 DEF LockExtractor, PolicyTypeOK, Stay
  <2>. QED BY <1>4, <2>1, <2>2, InsideKeeps DEF LockExtractor, PolicyTypeOK
<1>5. CASE Unpack(c)
  <2>1. PolicyTypeOK' /\ Stay(c)
    BY <1>5 DEF Unpack, PolicyTypeOK, Stay
  <2>. QED BY <1>5, <2>1, InsideKeeps DEF Unpack, PolicyTypeOK
<1>6. CASE pc[c] = "look" /\ Goto(c, "mount") /\ UNCHANGED <<idx, using, policy, busy, content>>
  <2>1. PolicyTypeOK' /\ Stay(c)
    BY <1>6 DEF PolicyTypeOK, Stay
  <2>. QED BY <1>6, <2>1, InsideKeeps DEF PolicyTypeOK
<1>7. CASE pc[c] = "choose" /\ Use(c, chosen[x]) /\ initialized[x]
           /\ chosen[x] # NoExtractor /\ UNCHANGED <<idx, policy, busy, content>>
  <2>1. PolicyTypeOK' /\ Stay(c)
    BY <1>7 DEF PolicyTypeOK, Stay, Use
  <2>2. /\ pc[c] = "choose" /\ pc'[c] = "wait" /\ using'[c] \in Kinds /\ idx'[c] = idx[c]
        /\ UNCHANGED <<initialized, owner, chosen, hopeless, aborted>>
    BY <1>7 DEF PolicyTypeOK, Use
  <2>3. ~Initializer(c) /\ ~(idx[c] > 0)
    BY <1>7, <2>2
  <2>. QED BY <2>1, <2>2, <2>3, InsideKeeps
<1>. QED BY <1>1, <1>2, <1>3, <1>4, <1>5, <1>6, <1>7

(* The mutex is free when it is taken, and the policy is looked at again.  *)
LEMMA LockKeeps ==
  ASSUME PolicyInv, NEW c \in Callers, Lock(c)
  PROVE  PolicyInv'
<1>. DEFINE x == PolicyOf[c]
<1>0. /\ PolicyTypeOK /\ x \in Policies /\ owner[x] = Nobody /\ pc[c] = "lock"
      /\ pc' = [pc EXCEPT ![c] = "mkdir"] /\ pc'[c] = "mkdir" /\ idx[c] = 0
      /\ UNCHANGED <<idx, using, initialized, chosen, hopeless, aborted>>
  <2>1. PolicyTypeOK /\ x \in Policies
    BY PolicyAssumption DEF PolicyInv
  <2>2. /\ owner[x] = Nobody /\ pc[c] = "lock" /\ pc' = [pc EXCEPT ![c] = "mkdir"]
        /\ UNCHANGED <<idx, using, initialized, chosen, hopeless, aborted>>
    BY DEF Lock
  <2>3. pc'[c] = "mkdir"
    BY <2>1, <2>2 DEF PolicyTypeOK
  <2>4. idx[c] \in Nat
    BY <2>1 DEF PolicyTypeOK
  <2>5. ~(idx[c] > 0)
    <3>1. idx[c] > 0 <=> pc[c] \in InExtractor /\ Initializer(c)
      BY DEF PolicyInv
    <3>. QED BY <2>2, <3>1
  <2>6. idx[c] = 0
    BY <2>4, <2>5
  <2>. QED BY <2>1, <2>2, <2>3, <2>6
<1>1. PolicyTypeOK'
  BY <1>0 DEF PolicyTypeOK, Lock
<1>2. \A y \in Policies : owner'[y] = IF y = x /\ ~initialized[x] THEN c ELSE owner[y]
  BY <1>0 DEF PolicyTypeOK, Lock
<1>3. \A b \in Callers : b # c => pc'[b] = pc[b]
  BY <1>0 DEF PolicyTypeOK
<1>4. ASSUME NEW y \in Policies, owner'[y] # Nobody
      PROVE  PolicyOf[owner'[y]] = y /\ pc'[owner'[y]] \in BeyondLock /\ ~initialized'[y]
  <2>1. CASE y = x /\ ~initialized[x]
    BY <1>0, <1>2, <2>1
  <2>2. CASE ~(y = x /\ ~initialized[x])
    <3>1. owner'[y] = owner[y] /\ owner[y] \in Callers /\ owner[y] # c
      BY <1>0, <1>2, <1>4, <2>2 DEF PolicyInv, PolicyTypeOK
    <3>. QED BY <1>0, <1>3, <1>4, <3>1 DEF PolicyInv
  <2>. QED BY <2>1, <2>2
<1>5. ASSUME NEW b \in Callers
      PROVE  /\ pc'[b] \in BeyondLock => initialized'[PolicyOf[b]] \/ owner'[PolicyOf[b]] = b
             /\ pc'[b] \in InExtractor => using'[b] \in Kinds
             /\ idx'[b] > 0 <=> pc'[b] \in InExtractor /\ owner'[PolicyOf[b]] = b
  <2>1. CASE b = c
    BY <1>0, <1>2, <2>1
  <2>2. CASE b # c
    <3>1. PolicyOf[b] \in Policies /\ b # Nobody
      BY PolicyAssumption
    <3>2. CASE PolicyOf[b] = x /\ ~initialized[x]
      <4>1. owner'[PolicyOf[b]] # b /\ owner[PolicyOf[b]] # b
        BY <1>0, <1>2, <2>2, <3>1, <3>2
      <4>. QED BY <1>0, <1>3, <2>2, <3>2, <4>1 DEF PolicyInv
    <3>3. CASE ~(PolicyOf[b] = x /\ ~initialized[x])
      <4>1. owner'[PolicyOf[b]] = owner[PolicyOf[b]]
        BY <1>2, <3>1, <3>3
      <4>. QED BY <1>0, <1>3, <2>2, <4>1 DEF PolicyInv
    <3>. QED BY <3>2, <3>3
  <2>. QED BY <2>1, <2>2
<1>6. ReadyOrAborted'
  BY <1>0 DEF PolicyInv, ReadyOrAborted
<1>. QED BY <1>1, <1>4, <1>5, <1>6 DEF PolicyInv

(* Every step of a call keeps the invariant.                               *)
LEMMA CallKeeps ==
  ASSUME PolicyInv, NEW c \in Callers, Call(c)
  PROVE  PolicyInv'
<1>. DEFINE x == PolicyOf[c]
<1>0. PolicyTypeOK /\ x \in Policies /\ DirOf[c] \in Dirs /\ owner[x] \in Callers \cup {Nobody}
  BY PolicyAssumption DEF PolicyInv, PolicyTypeOK
<1>1. CASE ReadInitialized(c) \/ MakeDir(c) \/ TryFirst(c) \/ LockExtractor(c) \/ Unpack(c)
  BY <1>1, QuietCallKeeps
<1>2. CASE Lock(c)
  BY <1>2, LockKeeps
<1>3. CASE MakeDirFails(c)
  <2>1. /\ pc[c] = "mkdir" /\ Return(c, "err") /\ UNCHANGED <<chosen, hopeless, busy, content>>
        /\ aborted' = [aborted EXCEPT ![x] = aborted[x] \/ owner[x] = c]
        /\ initialized[x] \/ owner[x] = c
    BY <1>3 DEF MakeDirFails, PolicyInv
  <2>2. aborted' \in [Policies -> BOOLEAN] /\ \A y \in Policies \ {x} : aborted'[y] = aborted[y]
    BY <1>0, <2>1 DEF PolicyTypeOK
  <2>3. CASE owner[x] = c
    <3>1. aborted' = [aborted EXCEPT ![x] = TRUE]
      BY <2>1, <2>3
    <3>2. aborted'[x]
      BY <1>0, <3>1 DEF PolicyTypeOK
    <3>. QED BY <1>0, <2>1, <2>2, <3>2, ReturnKeeps DEF PolicyTypeOK
  <2>4. CASE owner[x] # c
    <3>1. aborted' = [aborted EXCEPT ![x] = aborted[x]]
      BY <1>0, <2>1, <2>4 DEF PolicyTypeOK
    <3>2. aborted'[x] = aborted[x] /\ initialized[x]
      BY <1>0, <2>1, <2>4, <3>1 DEF PolicyTypeOK
    <3>. QED BY <1>0, <2>1, <2>2, <3>2, ReturnKeeps DEF PolicyTypeOK
  <2>. QED BY <2>3, <2>4
<1>4. CASE UseChosen(c)
  <2>1. pc[c] = "choose" /\ initialized[x] /\ UNCHANGED content
    BY <1>4 DEF UseChosen
  <2>2. CASE Return(c, "err") /\ UNCHANGED <<chosen, hopeless, aborted, busy>>
    BY <1>0, <2>1, <2>2, ReturnKeeps DEF PolicyTypeOK
  <2>3. CASE chosen[x] # NoExtractor /\ Use(c, chosen[x]) /\ UNCHANGED <<idx, policy, busy>>
    BY <2>1, <2>3, QuietCallKeeps
  <2>4. CASE Die(x)
    BY <1>0, <2>4, DieKeeps
  <2>. QED BY <1>4, <2>2, <2>3, <2>4 DEF UseChosen
<1>5. CASE NothingToTry(c)
  <2>1. /\ pc[c] = "choose" /\ Return(c, "err") /\ UNCHANGED <<chosen, aborted, busy, content>>
        /\ hopeless' = [hopeless EXCEPT ![x] = TRUE]
    BY <1>5 DEF NothingToTry
  <2>2. /\ hopeless' \in [Policies -> BOOLEAN] /\ hopeless'[x]
        /\ \A y \in Policies \ {x} : hopeless'[y] = hopeless[y]
    BY <1>0, <2>1 DEF PolicyTypeOK
  <2>. QED BY <1>0, <2>1, <2>2, ReturnKeeps DEF PolicyTypeOK
<1>6. CASE LookMounted(c)
  <2>1. pc[c] = "look" /\ ContentOK /\ UNCHANGED content
    BY <1>0, <1>6 DEF LookMounted, ContentOK, PolicyTypeOK
  <2>2. CASE Works(c)
    BY <2>1, <2>2, WorksKeeps DEF Works
  <2>3. CASE Goto(c, "mount") /\ UNCHANGED <<idx, using, policy, busy>>
    BY <2>1, <2>3, QuietCallKeeps
  <2>. QED BY <1>6, <2>2, <2>3 DEF LookMounted
<1>7. CASE MountImage(c) \/ AlreadyUnpacked(c) \/ Unpacked(c)
  <2>1. pc[c] \in InExtractor /\ Works(c) /\ ContentOK
    BY <1>0, <1>7 DEF MountImage, AlreadyUnpacked, Unpacked, ContentOK, PolicyTypeOK
  <2>. QED BY <2>1, WorksKeeps DEF Works
<1>8. CASE MountUnserved(c)
  <2>1. pc[c] \in InExtractor /\ Succeeds(c, "unserved") /\ ContentOK
    BY <1>0, <1>8 DEF MountUnserved, ContentOK, PolicyTypeOK
  <2>. QED BY <2>1, WorksKeeps
<1>9. CASE LookFails(c) \/ MountImageFails(c) \/ CannotUnpack(c)
  <2>1. pc[c] \in InExtractor /\ Fails(c) /\ ContentOK
    BY <1>0, <1>9 DEF LookFails, MountImageFails, CannotUnpack, ContentOK, PolicyTypeOK
  <2>. QED BY <2>1, FailsKeeps
<1>10. CASE UnpackedInVain(c) \/ UnpackFails(c)
  <2>1. pc[c] \in InExtractor /\ Fails(c) /\ ContentOK
    BY <1>0, <1>10 DEF UnpackedInVain, UnpackFails, Removed, ContentOK, PolicyTypeOK
  <2>. QED BY <2>1, FailsKeeps
<1>11. CASE LookPanics(c)
  BY <1>0, <1>11, DieKeeps DEF LookPanics
<1>. QED BY <1>1, <1>2, <1>3, <1>4, <1>5, <1>6, <1>7, <1>8, <1>9, <1>10, <1>11 DEF Call

(* The invariant is inductive.                                             *)
LEMMA PolicyInductive ==
  ASSUME PolicyInv, [Next]_vars
  PROVE  PolicyInv'
<1>1. CASE \E c \in Callers : Call(c)
  BY <1>1, CallKeeps
<1>2. CASE \E x \in Policies : Crash(x)
  BY <1>2, DieKeeps DEF Crash
<1>3. CASE UNCHANGED vars
  BY <1>3 DEF vars, PolicyInv, PolicyTypeOK, ReadyOrAborted
<1>. QED BY <1>1, <1>2, <1>3 DEF Next, Ended

(* A decision is only made by the loop of the initializer, and the         *)
(* initializer only exists before the policy is initialized.               *)
LEMMA DecisionStands ==
  ASSUME PolicyInv, Next, NEW x \in Policies, initialized[x]
  PROVE  chosen'[x] = chosen[x] /\ hopeless'[x] = hopeless[x]
<1>0. /\ chosen \in [Policies -> Kinds \cup {NoExtractor}] /\ hopeless \in [Policies -> BOOLEAN]
      /\ \A c \in Callers : PolicyOf[c] \in Policies
  BY PolicyAssumption DEF PolicyInv, PolicyTypeOK
<1>1. ASSUME NEW c \in Callers, Call(c)
      PROVE  chosen'[x] = chosen[x] /\ hopeless'[x] = hopeless[x]
  <2>1. CASE UNCHANGED <<chosen, hopeless>>
    BY <2>1
  <2>2. CASE NothingToTry(c)
    <3>1. PolicyOf[c] # x
      BY <2>2 DEF NothingToTry
    <3>. QED BY <1>0, <2>2, <3>1 DEF NothingToTry
  <2>3. ASSUME pc[c] \in InExtractor, Unlocked(c) PROVE idx[c] > 0 => PolicyOf[c] # x
    BY <2>3, InExtractorFacts
  <2>4. CASE \E r \in {"ok", "unserved"} : pc[c] \in InExtractor /\ Succeeds(c, r)
    BY <1>0, <2>3, <2>4
  <2>5. CASE pc[c] \in InExtractor /\ Fails(c)
    <3>1. idx[c] > 0 => PolicyOf[c] # x
      BY <2>3, <2>5 DEF Fails
    <3>2. CASE UNCHANGED policy
      BY <3>2 DEF policy
    <3>3. CASE hopeless' = [hopeless EXCEPT ![PolicyOf[c]] = hopeless[PolicyOf[c]] \/ idx[c] > 0]
               /\ UNCHANGED chosen
      <4>1. CASE PolicyOf[c] # x
        BY <1>0, <3>3, <4>1
      <4>2. CASE PolicyOf[c] = x
        <5>1. hopeless' = [hopeless EXCEPT ![x] = hopeless[x]]
          BY <1>0, <3>1, <3>3, <4>2
        <5>. QED BY <1>0, <3>3, <5>1
      <4>. QED BY <4>1, <4>2
    <3>. QED BY <2>5, <3>2, <3>3 DEF Fails
  <2>. QED
    BY <1>1, <2>1, <2>2, <2>4, <2>5 DEF Call, ReadInitialized, Lock, MakeDir, MakeDirFails,
       UseChosen, Use, Die, TryFirst, LockExtractor, LookMounted, LookFails,
     LookPanics, MountImage, MountUnserved, MountImageFails,
       AlreadyUnpacked, CannotUnpack, Unpack, Unpacked, UnpackedInVain, UnpackFails, Works, policy
<1>2. CASE \E y \in Policies : Crash(y)
  BY <1>2 DEF Crash, Die
<1>3. CASE Ended
  BY <1>3 DEF Ended, vars
<1>. QED BY <1>1, <1>2, <1>3 DEF Next

-----------------------------------------------------------------------------
(* While a policy has no decision at most one call is beyond its lock.     *)
THEOREM PolicyInvariance == Spec => []PolicyInv
<1>1. Init => PolicyInv
  BY PolicyInit
<1>2. PolicyInv /\ [Next]_vars => PolicyInv'
  BY PolicyInductive
<1>. QED BY <1>1, <1>2, PTL DEF Spec

(* The variables of the callers, the policies and the directories keep     *)
(* their types, and the loop of the initializer stays in its list of       *)
(* extractors (squashfs.go:507-552).                                       *)
THEOREM PolicyTypeCorrect == Spec => []PolicyTypeOK
<1>1. PolicyInv => PolicyTypeOK
  BY DEF PolicyInv
<1>. QED BY <1>1, PolicyInvariance, PTL

(* A call that finds the policy initialized, with or without the lock,     *)
(* finds an extractor or an excuse there, unless the initializer returned  *)
(* before it tried anything (squashfs.go:492-521).                         *)
THEOREM PolicyReady == Spec => []ReadyOrAborted
<1>1. PolicyInv => ReadyOrAborted
  BY DEF PolicyInv
<1>. QED BY <1>1, PolicyInvariance, PTL

(* The extractor that the first call selects, or that there is none, is    *)
(* never changed afterwards, however many calls raced for the first        *)
(* (squashfs.go:492-505, 536-552).                                         *)
THEOREM PolicyDecidedOnce == Spec => DecidedOnce
<1>1. PolicyInv /\ [Next]_vars =>
        [\A x \in Policies : initialized[x] =>
           chosen'[x] = chosen[x] /\ hopeless'[x] = hopeless[x]]_vars
  BY DecisionStands
<1>. QED BY <1>1, PolicyInvariance, PTL DEF Spec, DecidedOnce

-----------------------------------------------------------------------------
(* What is in the directories.                                             *)

(* Two calls that extract to one directory are of one process.             *)
LEMMA SameProcess ==
  ASSUME OwnDirectories, NEW b \in Callers, NEW c \in Callers, DirOf[b] = DirOf[c],
         Extractors[PolicyOf[b]] # << >>, Extractors[PolicyOf[c]] # << >>
  PROVE  PolicyOf[b] = PolicyOf[c]
BY DEF OwnDirectories

(* Two calls of one process do not unpack at once.                         *)
LEMMA OneUnpacks ==
  ASSUME CompleteInv, OwnDirectories, NEW b \in Callers, NEW c \in Callers,
         DirOf[b] = DirOf[c], pc[b] = "unpacking", pc[c] \in {"unpack", "unpacking"}
  PROVE  b = c
<1>1. CallOK(b) /\ CallOK(c)
  BY DEF CompleteInv
<1>2. PolicyOf[b] = PolicyOf[c]
  BY <1>1, SameProcess DEF CallOK
<1>. QED BY <1>1, <1>2 DEF CallOK, Holding

(* A call that is about to unpack does not meet a part of the image.       *)
LEMMA NoPartMet ==
  ASSUME CompleteInv, OwnDirectories, NEW c \in Callers, pc[c] = "unpack"
  PROVE  content[DirOf[c]] # "partial"
<1>1. CallOK(c) /\ DirOf[c] \in Dirs
  BY PolicyAssumption DEF CompleteInv
<1>2. SUFFICES ASSUME content[DirOf[c]] = "partial" PROVE FALSE
  OBVIOUS
<1>3. PICK b \in Callers : /\ DirOf[b] = DirOf[c] /\ Extractors[PolicyOf[b]] # << >>
                           /\ pc[b] = "unpacking" \/ res[b] = "dead"
  BY <1>1, <1>2 DEF CompleteInv, PartIsExplained
<1>4. CallOK(b)
  BY DEF CompleteInv
<1>5. PolicyOf[b] = PolicyOf[c]
  BY <1>1, <1>3, SameProcess DEF CallOK
<1>6. res[b] # "dead"
  BY <1>4, <1>5 DEF CallOK
<1>. QED BY <1>3, <1>6, OneUnpacks

(* A call that makes a step: how the others see it.                        *)
LEMMA OthersOfCall ==
  ASSUME PolicyInv, NEW c \in Callers, Call(c), ~Die(PolicyOf[c])
  PROVE  \A b \in Callers \ {c} : pc'[b] = pc[b] /\ res'[b] = res[b] /\ using'[b] = using[b]
<1>0. /\ pc \in [Callers -> {"start", "lock", "mkdir", "choose", "wait", "look",
                            "mount", "unpack", "unpacking", "ended"}]
      /\ res \in [Callers -> Results]
      /\ using \in [Callers -> Kinds \cup {NoExtractor}]
  BY DEF PolicyInv, PolicyTypeOK
<1>. USE <1>0 DEF Return, Use, Works, Fails
<1>1. CASE ReadInitialized(c) \/ Lock(c) \/ MakeDir(c) \/ MakeDirFails(c)
  BY <1>1 DEF ReadInitialized, Lock, MakeDir, MakeDirFails
<1>2. CASE UseChosen(c) \/ TryFirst(c) \/ NothingToTry(c) \/ LockExtractor(c)
  BY <1>2 DEF UseChosen, TryFirst, NothingToTry, LockExtractor
<1>3. CASE LookMounted(c) \/ LookFails(c) \/ LookPanics(c)
       \/ MountImage(c) \/ MountUnserved(c) \/ MountImageFails(c)
  BY <1>3 DEF LookMounted, LookFails,
     LookPanics, MountImage, MountUnserved, MountImageFails
<1>4. CASE AlreadyUnpacked(c) \/ CannotUnpack(c) \/ Unpack(c)
  BY <1>4 DEF AlreadyUnpacked, CannotUnpack, Unpack
<1>5. CASE Unpacked(c) \/ UnpackedInVain(c) \/ UnpackFails(c)
  BY <1>5 DEF Unpacked, UnpackedInVain, UnpackFails
<1>. QED BY <1>1, <1>2, <1>3, <1>4, <1>5 DEF Call

(* What a call can do to its directory.                                    *)
LEMMA ContentChange ==
  ASSUME PolicyInv, CompleteInv, OwnDirectories, NEW c \in Callers, Call(c), NEW d \in Dirs
  PROVE  \/ content'[d] = content[d]
         \/ d = DirOf[c] /\ content[d] = "absent" /\ content'[d] = "empty"
         \/ d = DirOf[c] /\ pc[c] = "mount" /\ content'[d] \in {"mounted", "broken"}
         \/ d = DirOf[c] /\ content[d] = "empty" /\ content'[d] = "partial" /\ Unpack(c)
         \/ /\ d = DirOf[c] /\ pc[c] = "unpacking" /\ content[d] = "partial"
            /\ content'[d] = "full"
         \/ /\ d = DirOf[c] /\ pc[c] = "unpacking" /\ content[d] \in {"empty", "partial"}
            /\ content'[d] \in {"absent", "left", "empty"}
<1>0. content \in [Dirs -> Contents] /\ CallOK(c)
  BY DEF PolicyInv, PolicyTypeOK, CompleteInv
<1>1. CASE MakeDir(c)
  BY <1>0, <1>1 DEF MakeDir
<1>2. CASE MountImage(c) \/ MountUnserved(c) \/ MountImageFails(c)
  BY <1>0, <1>2 DEF MountImage, MountUnserved, MountImageFails
<1>3. CASE Unpack(c)
  BY <1>0, <1>3 DEF Unpack
<1>4. CASE Unpacked(c) \/ UnpackedInVain(c)
  BY <1>0, <1>4 DEF Unpacked, UnpackedInVain
<1>5. CASE UnpackFails(c)
  BY <1>0, <1>5 DEF UnpackFails, Removed, CallOK
<1>6. CASE UNCHANGED content
  BY <1>6
<1>. QED
  BY <1>1, <1>2, <1>3, <1>4, <1>5, <1>6 DEF Call, ReadInitialized, Lock, MakeDirFails,
     UseChosen, Use, Die, TryFirst, NothingToTry, LockExtractor, LookMounted, LookFails,
     LookPanics, AlreadyUnpacked, CannotUnpack

(* Of the calls of a process that unpack to a directory one is alone.      *)
LEMMA AloneThere ==
  ASSUME CompleteInv, OwnDirectories, NEW c \in Callers, pc[c] = "unpacking"
  PROVE  Alone(c)
BY OneUnpacks DEF Alone

(* A call that returns with success has found, or made, the whole image,   *)
(* or what an os.RemoveAll has left.                                       *)
LEMMA SuccessIsComplete ==
  ASSUME PolicyInv, CompleteInv, OwnDirectories, NEW c \in Callers, Call(c), ~Die(PolicyOf[c]),
         res'[c] = "ok", res[c] # "ok"
  PROVE  /\ content'[DirOf[c]] \in {"full", "mounted", "left"}
         /\ using[c] # "unpack" => content'[DirOf[c]] = "mounted"
         /\ pc[c] \in InExtractor /\ Works(c)
<1>0. /\ content \in [Dirs -> Contents] /\ res \in [Callers -> Results]
      /\ DirOf[c] \in Dirs /\ CallOK(c)
  BY PolicyAssumption DEF PolicyInv, PolicyTypeOK, CompleteInv
<1>. USE <1>0 DEF Return, Use, Works, Fails
<1>1. CASE ReadInitialized(c) \/ Lock(c) \/ MakeDir(c) \/ MakeDirFails(c)
  BY <1>1 DEF ReadInitialized, Lock, MakeDir, MakeDirFails
<1>2. CASE UseChosen(c) \/ TryFirst(c) \/ NothingToTry(c) \/ LockExtractor(c)
  BY <1>2 DEF UseChosen, TryFirst, NothingToTry, LockExtractor
<1>3. CASE LookMounted(c) \/ MountImage(c)
  BY <1>3 DEF LookMounted, MountImage
<1>4. CASE LookFails(c) \/ LookPanics(c) \/ MountUnserved(c) \/ MountImageFails(c)
  BY <1>4 DEF LookFails, LookPanics, MountUnserved, MountImageFails
<1>5. CASE AlreadyUnpacked(c)
  BY <1>5, NoPartMet DEF AlreadyUnpacked, CallOK
<1>6. CASE CannotUnpack(c) \/ Unpack(c) \/ UnpackedInVain(c) \/ UnpackFails(c)
  BY <1>6 DEF CannotUnpack, Unpack, UnpackedInVain, UnpackFails
<1>7. CASE Unpacked(c)
  <2>1. pc[c] = "unpacking" /\ content[DirOf[c]] \in {"partial", "full", "left"}
    BY <1>7 DEF Unpacked
  <2>. QED BY <1>7, <2>1, AloneThere DEF Unpacked, CallOK
<1>. QED BY <1>1, <1>2, <1>3, <1>4, <1>5, <1>6, <1>7 DEF Call

(* The call's own part of the invariant.                                   *)
LEMMA OwnCallOK ==
  ASSUME PolicyInv, CompleteInv, OwnDirectories, NEW c \in Callers, Call(c), ~Die(PolicyOf[c])
  PROVE  CallOK(c)'
<1>. DEFINE x == PolicyOf[c]
<1>0. /\ pc \in [Callers -> {"start", "lock", "mkdir", "choose", "wait", "look",
                            "mount", "unpack", "unpacking", "ended"}]
      /\ res \in [Callers -> Results]
      /\ using \in [Callers -> Kinds \cup {NoExtractor}]
      /\ busy \in [Policies -> [Kinds -> Callers \cup {Nobody}]]
      /\ content \in [Dirs -> Contents]
      /\ CallOK(c) /\ x \in Policies /\ DirOf[c] \in Dirs
      /\ pc[c] \in InExtractor => using[c] \in Kinds
      /\ chosen[x] # NoExtractor => Extractors[x] # << >>
  BY PolicyAssumption DEF PolicyInv, PolicyTypeOK, CompleteInv
<1>1. pc[c] # "ended" /\ res[c] = "none"
  BY <1>0 DEF Call, CallOK, ReadInitialized, Lock, MakeDir, MakeDirFails, UseChosen, TryFirst,
     NothingToTry, LockExtractor, LookMounted, LookFails,
     LookPanics, MountImage, MountUnserved, MountImageFails,
     AlreadyUnpacked, CannotUnpack, Unpack, Unpacked, UnpackedInVain, UnpackFails
<1>. SUFFICES /\ pc'[c] # "ended" => res'[c] = "none"
              /\ res'[c] # "dead"
              /\ pc'[c] \in InExtractor => Extractors[x] # << >>
              /\ pc'[c] \in Holding => busy'[x][using'[c]] = c
              /\ pc'[c] \in {"unpack", "unpacking"} => using'[c] = "unpack"
              /\ pc'[c] = "unpacking" =>
                   content'[DirOf[c]] \in {"empty", "partial", "mounted", "broken"}
  BY DEF CallOK
<1>. USE <1>0, <1>1 DEF Return, Use, Holding
<1>2. CASE ReadInitialized(c) \/ Lock(c) \/ MakeDir(c) \/ MakeDirFails(c)
  BY <1>2 DEF ReadInitialized, Lock, MakeDir, MakeDirFails
<1>3. CASE UseChosen(c) \/ TryFirst(c) \/ NothingToTry(c)
  BY <1>3 DEF UseChosen, TryFirst, NothingToTry
<1>4. CASE LockExtractor(c)
  BY <1>4 DEF LockExtractor, CallOK
<1>5. ASSUME Works(c) \/ Succeeds(c, "unserved") \/ Fails(c), pc[c] \in InExtractor
      PROVE  /\ pc'[c] \in {"ended", "wait"} /\ (pc'[c] # "ended" => res'[c] = "none")
             /\ res'[c] # "dead" /\ Extractors[x] # << >>
  BY <1>5 DEF Works, Fails, CallOK
<1>6. CASE LookMounted(c) \/ LookFails(c) \/ LookPanics(c)
       \/ MountImage(c) \/ MountUnserved(c) \/ MountImageFails(c)
  <2>1. CASE Works(c) \/ Succeeds(c, "unserved") \/ Fails(c)
    BY <1>5, <1>6, <2>1 DEF LookMounted, LookFails,
     LookPanics, MountImage, MountUnserved, MountImageFails
  <2>2. CASE pc[c] = "look" /\ Goto(c, "mount") /\ UNCHANGED <<idx, using, policy, busy>>
    BY <2>2 DEF CallOK
  <2>. QED BY <1>6, <2>1, <2>2 DEF LookMounted, LookFails,
     LookPanics, MountImage, MountUnserved, MountImageFails
<1>7. CASE Unpack(c)
  BY <1>7 DEF Unpack, CallOK
<1>8. CASE AlreadyUnpacked(c) \/ CannotUnpack(c) \/ Unpacked(c) \/ UnpackedInVain(c)
           \/ UnpackFails(c)
  BY <1>5, <1>8 DEF AlreadyUnpacked, CannotUnpack, Unpacked, UnpackedInVain, UnpackFails
<1>. QED BY <1>2, <1>3, <1>4, <1>6, <1>7, <1>8 DEF Call

(* The mutex of an extractor is taken from Nobody and given back by who    *)
(* holds it.                                                               *)
LEMMA MutexStep ==
  ASSUME PolicyInv, CompleteInv, NEW c \in Callers, Call(c), ~Die(PolicyOf[c]),
         NEW b \in Callers, b # c, pc[b] \in Holding
  PROVE  busy'[PolicyOf[b]][using[b]] = b
<1>0. /\ busy \in [Policies -> [Kinds -> Callers \cup {Nobody}]]
      /\ busy[PolicyOf[b]][using[b]] = b /\ using[b] \in Kinds
      /\ PolicyOf[b] \in Policies /\ PolicyOf[c] \in Policies /\ Nobody # b
      /\ pc[c] \in InExtractor => using[c] \in Kinds
      /\ pc[c] \in Holding => busy[PolicyOf[c]][using[c]] = c
  BY PolicyAssumption DEF PolicyInv, PolicyTypeOK, CompleteInv, CallOK, Holding
<1>1. CASE busy' = busy
  BY <1>0, <1>1
<1>2. CASE LockExtractor(c)
  BY <1>0, <1>2 DEF LockExtractor
<1>3. CASE Unlocked(c) /\ pc[c] \in Holding
  BY <1>0, <1>3 DEF Unlocked, Holding
<1>. QED
  BY <1>1, <1>2, <1>3 DEF Call, ReadInitialized, Lock, MakeDir, MakeDirFails, UseChosen, TryFirst,
     NothingToTry, LookMounted, LookFails,
     LookPanics, MountImage, MountUnserved, MountImageFails, AlreadyUnpacked, CannotUnpack,
     Unpack, Unpacked, UnpackedInVain, UnpackFails, Works, Fails, Holding

(* The part of another call.                                               *)
LEMMA OtherCallOK ==
  ASSUME PolicyInv, CompleteInv, OwnDirectories, NEW c \in Callers, Call(c), ~Die(PolicyOf[c]),
         NEW b \in Callers, b # c
  PROVE  CallOK(b)'
<1>0. /\ CallOK(b) /\ DirOf[b] \in Dirs
      /\ pc'[b] = pc[b] /\ res'[b] = res[b] /\ using'[b] = using[b]
  BY OthersOfCall, PolicyAssumption DEF CompleteInv
<1>1. res[b] = "dead" => \A e \in Callers : PolicyOf[e] = PolicyOf[b] => pc'[e] = "ended"
  <2>1. pc[c] # "ended"
    BY DEF Call, ReadInitialized, Lock, MakeDir, MakeDirFails, UseChosen, TryFirst,
       NothingToTry, LockExtractor, LookMounted, LookFails,
     LookPanics, MountImage, MountUnserved, MountImageFails,
       AlreadyUnpacked, CannotUnpack, Unpack, Unpacked, UnpackedInVain, UnpackFails
  <2>. QED BY <1>0, <2>1, OthersOfCall DEF CallOK
<1>2. pc[b] \in Holding => busy'[PolicyOf[b]][using[b]] = b
  BY MutexStep
<1>3. pc[b] = "unpacking" => content'[DirOf[b]] \in {"empty", "partial", "mounted", "broken"}
  <2>. SUFFICES ASSUME pc[b] = "unpacking" , ~(pc[c] = "unpacking" /\ DirOf[c] = DirOf[b])
                PROVE  content'[DirOf[b]] \in {"empty", "partial", "mounted", "broken"}
    BY OneUnpacks
  <2>1. content[DirOf[b]] \in {"empty", "partial", "mounted", "broken"}
    BY <1>0 DEF CallOK
  <2>. QED BY <1>0, <2>1, ContentChange
<1>. QED BY <1>0, <1>1, <1>2, <1>3 DEF CallOK

(* What was unpacked in part is explained as before, or by this call.      *)
LEMMA PartStep ==
  ASSUME PolicyInv, CompleteInv, OwnDirectories, NEW c \in Callers, Call(c), ~Die(PolicyOf[c])
  PROVE  PartIsExplained'
<1>. SUFFICES ASSUME NEW d \in Dirs, content'[d] = "partial"
              PROVE  \E b \in Callers : /\ DirOf[b] = d /\ Extractors[PolicyOf[b]] # << >>
                                        /\ pc'[b] = "unpacking" \/ res'[b] = "dead"
  BY DEF PartIsExplained
<1>0. /\ content \in [Dirs -> Contents]
      /\ pc \in [Callers -> {"start", "lock", "mkdir", "choose", "wait", "look",
                            "mount", "unpack", "unpacking", "ended"}]
      /\ CallOK(c)
  BY DEF PolicyInv, PolicyTypeOK, CompleteInv
<1>1. CASE content[d] # "partial"
  <2>1. d = DirOf[c] /\ Unpack(c)
    BY <1>1, ContentChange
  <2>2. Extractors[PolicyOf[c]] # << >> /\ pc'[c] = "unpacking"
    BY <1>0, <2>1 DEF Unpack, CallOK
  <2>. QED BY <2>1, <2>2
<1>2. CASE content[d] = "partial"
  <2>1. PICK b \in Callers : /\ DirOf[b] = d /\ Extractors[PolicyOf[b]] # << >>
                             /\ pc[b] = "unpacking" \/ res[b] = "dead"
    BY <1>2 DEF CompleteInv, PartIsExplained
  <2>2. CASE b # c
    BY <2>1, <2>2, OthersOfCall
  <2>3. CASE b = c
    <3>1. pc[c] = "unpacking"
      <4>1. pc[c] # "ended"
        BY DEF Call, ReadInitialized, Lock, MakeDir, MakeDirFails, UseChosen, TryFirst,
           NothingToTry, LockExtractor, LookMounted, LookFails,
     LookPanics, MountImage, MountUnserved, MountImageFails,
           AlreadyUnpacked, CannotUnpack, Unpack, Unpacked, UnpackedInVain, UnpackFails
      <4>. QED BY <1>0, <2>1, <2>3, <4>1 DEF CallOK
    <3>2. Unpacked(c) \/ UnpackedInVain(c) \/ UnpackFails(c)
      BY <3>1 DEF Call, ReadInitialized, Lock, MakeDir, MakeDirFails, UseChosen, TryFirst,
         NothingToTry, LockExtractor, LookMounted, LookFails,
     LookPanics, MountImage, MountUnserved, MountImageFails,
         AlreadyUnpacked, CannotUnpack, Unpack
    <3>3. ~UnpackFails(c)
      BY <1>0, <1>2, <2>1, <2>3 DEF UnpackFails, Removed
    <3>4. Alone(c)
      BY <3>1, AloneThere
    <3>5. content'[d] = "full"
      BY <1>0, <1>2, <2>1, <2>3, <3>2, <3>3, <3>4 DEF Unpacked, UnpackedInVain
    <3>. QED BY <3>5
  <2>. QED BY <2>2, <2>3
<1>. QED BY <1>1, <1>2

(* An extractor is only chosen by a call that uses one.                    *)
LEMMA ChosenStep ==
  ASSUME PolicyInv, CompleteInv, NEW c \in Callers, Call(c), NEW x \in Policies,
         chosen'[x] # NoExtractor
  PROVE  Extractors[x] # << >>
<1>0. /\ chosen \in [Policies -> Kinds \cup {NoExtractor}] /\ CallOK(c)
      /\ chosen[x] # NoExtractor => Extractors[x] # << >>
  BY DEF PolicyInv, PolicyTypeOK, CompleteInv
<1>1. CASE chosen' = chosen
  BY <1>0, <1>1
<1>2. CASE \E r \in {"ok", "unserved"} : Succeeds(c, r) /\ pc[c] \in InExtractor
  <2>1. CASE x = PolicyOf[c]
    BY <1>0, <1>2, <2>1 DEF CallOK
  <2>2. CASE x # PolicyOf[c]
    BY <1>0, <1>2, <2>2
  <2>. QED BY <2>1, <2>2
<1>. QED
  BY <1>1, <1>2 DEF Call, ReadInitialized, Lock, MakeDir, MakeDirFails, UseChosen, Use, Die,
     TryFirst, NothingToTry, LockExtractor, LookMounted, LookFails,
     LookPanics, MountImage, MountUnserved, MountImageFails,
     AlreadyUnpacked, CannotUnpack, Unpack, Unpacked, UnpackedInVain,
     UnpackFails, Works, Fails, policy

(* The end of a process leaves the directories as they are, and explains   *)
(* what it was unpacking.                                                  *)
LEMMA DieIsExplained ==
  ASSUME PolicyInv, CompleteInv, NEW x \in Policies, Die(x)
  PROVE  CompleteInv'
<1>0. /\ pc' = [c \in Callers |-> IF PolicyOf[c] = x THEN "ended" ELSE pc[c]]
      /\ res' = [c \in Callers |-> IF PolicyOf[c] = x /\ res[c] = "none" THEN "dead" ELSE res[c]]
      /\ using' = [c \in Callers |-> IF PolicyOf[c] = x THEN NoExtractor ELSE using[c]]
      /\ busy' = [busy EXCEPT ![x] = [k \in Kinds |-> Nobody]]
      /\ chosen' = chosen /\ content' = content
      /\ busy \in [Policies -> [Kinds -> Callers \cup {Nobody}]]
      /\ \A c \in Callers : CallOK(c) /\ PolicyOf[c] \in Policies
  BY PolicyAssumption DEF Die, PolicyInv, PolicyTypeOK, CompleteInv
<1>1. OkUnlessLeft'
  BY <1>0 DEF CompleteInv, OkUnlessLeft
<1>2. PartIsExplained'
  <2>1. \A c \in Callers : pc[c] = "unpacking" \/ res[c] = "dead"
                             => pc'[c] = "unpacking" \/ res'[c] = "dead"
    BY <1>0 DEF CallOK
  <2>. QED BY <1>0, <2>1 DEF CompleteInv, PartIsExplained
<1>3. ASSUME NEW c \in Callers PROVE CallOK(c)'
  <2>1. CASE PolicyOf[c] = x
    BY <1>0, <2>1 DEF CallOK, Holding
  <2>2. CASE PolicyOf[c] # x
    BY <1>0, <2>2 DEF CallOK
  <2>. QED BY <2>1, <2>2
<1>4. ASSUME NEW c \in Callers PROVE OneKind(c)'
  <2>1. \A b \in Callers : res'[b] = "ok" => res[b] = "ok"
    BY <1>0
  <2>2. OneKind(c) /\ initialized' = initialized
    BY DEF CompleteInv, Die
  <2>3. CASE PolicyOf[c] = x
    BY <1>0, <2>1, <2>2, <2>3 DEF OneKind
  <2>4. CASE PolicyOf[c] # x
    BY <1>0, <2>1, <2>2, <2>4 DEF OneKind
  <2>. QED BY <2>3, <2>4
<1>. QED BY <1>0, <1>1, <1>2, <1>3, <1>4 DEF CompleteInv

(* A policy is initialized once, by the return of its initializer.         *)
LEMMA InitializedStays ==
  ASSUME PolicyInv, NEW c \in Callers, Call(c), ~Die(PolicyOf[c]), NEW x \in Policies
  PROVE  /\ initialized[x] => initialized'[x]
         /\ ~initialized[x] /\ initialized'[x] => owner[x] = c /\ pc'[c] = "ended"
<1>0. /\ initialized \in [Policies -> BOOLEAN] /\ pc \in [Callers -> {"start", "lock",
           "mkdir", "choose", "wait", "look", "mount", "unpack", "unpacking", "ended"}]
      /\ PolicyOf[c] \in Policies
  BY PolicyAssumption DEF PolicyInv, PolicyTypeOK
<1>1. CASE initialized' = initialized
  BY <1>1
<1>2. CASE \E r \in Results : Return(c, r)
  <2>1. /\ initialized' = [initialized EXCEPT ![PolicyOf[c]] =
                            initialized[PolicyOf[c]] \/ owner[PolicyOf[c]] = c]
        /\ pc' = [pc EXCEPT ![c] = "ended"]
    BY <1>2 DEF Return
  <2>2. CASE x = PolicyOf[c]
    <3>1. initialized'[x] <=> initialized[x] \/ owner[x] = c
      BY <1>0, <2>1, <2>2
    <3>. QED BY <1>0, <2>1, <2>2, <3>1
  <2>3. CASE x # PolicyOf[c]
    BY <1>0, <2>1, <2>3
  <2>. QED BY <2>2, <2>3
<1>. QED
  BY <1>1, <1>2 DEF Call, ReadInitialized, Lock, MakeDir, MakeDirFails, UseChosen, Use,
     TryFirst, NothingToTry, LockExtractor, LookMounted, LookFails, LookPanics, MountImage,
     MountUnserved, MountImageFails, AlreadyUnpacked, CannotUnpack, Unpack, Unpacked,
     UnpackedInVain, UnpackFails, Works, Fails, policy

(* Nothing is mounted over what a call has reported.                       *)
LEMMA ReportedStays ==
  ASSUME PolicyInv, CompleteInv, OwnDirectories, NEW c \in Callers, Call(c),
         NEW b \in Callers, res[b] = "ok"
  PROVE  content'[DirOf[b]] = content[DirOf[b]]
<1>0. /\ DirOf[b] \in Dirs /\ content[DirOf[b]] \in {"full", "mounted", "left"}
      /\ CallOK(c) /\ OneKind(b) /\ OneKind(c)
  BY PolicyAssumption DEF CompleteInv, OkUnlessLeft
<1>1. ~(pc[c] = "mount" /\ DirOf[c] = DirOf[b])
  <2>. SUFFICES ASSUME pc[c] = "mount", DirOf[c] = DirOf[b] PROVE FALSE
    OBVIOUS
  <2>1. PolicyOf[b] = PolicyOf[c]
    BY <1>0, SameProcess DEF CallOK, OneKind
  <2>. QED BY <1>0, <2>1 DEF OneKind
<1>. QED BY <1>0, <1>1, ContentChange

(* A call that is in an extractor before and after its step.               *)
LEMMA OwnExtractor ==
  ASSUME PolicyInv, CompleteInv, NEW c \in Callers, Call(c), ~Die(PolicyOf[c]),
         pc'[c] \in InExtractor
  PROVE  /\ initialized' = initialized /\ chosen' = chosen /\ res' = res
         /\ initialized[PolicyOf[c]] => using'[c] = chosen[PolicyOf[c]]
         /\ pc'[c] \in {"look", "mount"} => using'[c] # "unpack"
         /\ pc'[c] = "mount" => /\ pc[c] = "look" /\ using'[c] = using[c]
                                /\ content[DirOf[c]] # "mounted"
<1>0. /\ pc \in [Callers -> {"start", "lock", "mkdir", "choose", "wait", "look",
                            "mount", "unpack", "unpacking", "ended"}]
      /\ using \in [Callers -> Kinds \cup {NoExtractor}] /\ OneKind(c)
      /\ pc[c] \in InExtractor => (idx[c] > 0 => ~initialized[PolicyOf[c]])
  BY PolicyAssumption DEF PolicyInv, PolicyTypeOK, CompleteInv
<1>. USE <1>0 DEF Return, Use, OneKind
<1>1. CASE ReadInitialized(c) \/ Lock(c) \/ MakeDir(c) \/ MakeDirFails(c)
  BY <1>1 DEF ReadInitialized, Lock, MakeDir, MakeDirFails
<1>2. CASE UseChosen(c) \/ TryFirst(c) \/ NothingToTry(c)
  BY <1>2 DEF UseChosen, TryFirst, NothingToTry, policy
<1>3. CASE LockExtractor(c) \/ Unpack(c)
  BY <1>3 DEF LockExtractor, Unpack, policy
<1>4. CASE LookMounted(c)
  BY <1>4 DEF LookMounted, Works, policy
<1>5. CASE MountImage(c) \/ MountUnserved(c) \/ AlreadyUnpacked(c) \/ Unpacked(c)
  BY <1>5 DEF MountImage, MountUnserved, AlreadyUnpacked, Unpacked, Works
<1>6. CASE LookFails(c) \/ MountImageFails(c) \/ CannotUnpack(c)
  BY <1>6 DEF LookFails, MountImageFails, CannotUnpack, Fails, policy
<1>7. CASE UnpackedInVain(c) \/ UnpackFails(c)
  BY <1>7 DEF UnpackedInVain, UnpackFails, Fails, policy
<1>. QED BY <1>1, <1>2, <1>3, <1>4, <1>5, <1>6, <1>7 DEF Call, LookPanics

(* Two calls of one process that are in an extractor use the same one.     *)
LEMMA SameKind ==
  ASSUME PolicyInv, CompleteInv, NEW b \in Callers, NEW c \in Callers, b # c,
         PolicyOf[b] = PolicyOf[c], pc[b] \in InExtractor, pc[c] \in InExtractor
  PROVE  initialized[PolicyOf[c]] /\ using[b] = using[c]
<1>1. initialized[PolicyOf[c]]
  BY DEF PolicyInv
<1>. QED BY <1>1 DEF CompleteInv, OneKind

(* The decision is what each call uses, and what it has reported stays.    *)
LEMMA OneKindStep ==
  ASSUME PolicyInv, CompleteInv, OwnDirectories, NEW c \in Callers, Call(c), ~Die(PolicyOf[c]),
         NEW b \in Callers
  PROVE  OneKind(b)'
<1>. DEFINE x == PolicyOf[b]
<1>0. /\ x \in Policies /\ DirOf[b] \in Dirs /\ OneKind(b) /\ CallOK(b) /\ CallOK(c)
      /\ initialized[x] => initialized'[x] /\ chosen'[x] = chosen[x]
      /\ b # c => pc'[b] = pc[b] /\ res'[b] = res[b] /\ using'[b] = using[b]
  BY PolicyAssumption, InitializedStays, DecisionStands, OthersOfCall DEF CompleteInv, Next
<1>1. pc'[b] \in InExtractor /\ initialized'[x] => using'[b] = chosen'[x]
  <2>1. CASE b = c
    BY <2>1, OwnExtractor
  <2>2. CASE b # c
    <3>1. pc[b] \in InExtractor /\ initialized'[x] => initialized[x]
      BY <1>0, <2>2, InitializedStays DEF PolicyInv
    <3>. QED BY <1>0, <2>2, <3>1 DEF OneKind
  <2>. QED BY <2>1, <2>2
<1>2. pc'[b] \in {"look", "mount"} => using'[b] # "unpack"
  BY <1>0, OwnExtractor DEF OneKind
<1>3. res'[b] = "ok" => initialized'[x] /\ Extractors[x] # << >>
  <2>1. CASE res[b] = "ok"
    BY <1>0, <2>1 DEF OneKind
  <2>2. CASE res[b] # "ok" /\ res'[b] = "ok"
    <3>1. b = c /\ pc[c] \in InExtractor /\ Works(c)
      BY <1>0, <2>2, SuccessIsComplete
    <3>2. initialized[x] \/ owner[x] = c
      BY <3>1 DEF PolicyInv
    <3>3. initialized'[x]
      <4>1. /\ initialized' = [initialized EXCEPT ![x] = initialized[x] \/ owner[x] = c]
            /\ initialized \in [Policies -> BOOLEAN]
        BY <3>1 DEF Works, Return, PolicyInv, PolicyTypeOK
      <4>2. initialized'[x] <=> initialized[x] \/ owner[x] = c
        BY <1>0, <4>1
      <4>. QED BY <3>2, <4>2
    <3>. QED BY <1>0, <3>1, <3>3 DEF CallOK
  <2>. QED BY <2>1, <2>2
<1>4. res'[b] = "ok" /\ chosen'[x] # "unpack" => content'[DirOf[b]] = "mounted"
  <2>1. CASE res[b] = "ok"
    BY <1>0, <2>1, ReportedStays DEF OneKind
  <2>2. CASE res[b] # "ok" /\ res'[b] = "ok"
    <3>1. b = c /\ pc[c] \in InExtractor /\ Works(c)
      BY <1>0, <2>2, SuccessIsComplete
    <3>2. chosen'[x] = using[c]
      <4>1. CASE idx[c] > 0
        BY <1>0, <3>1, <4>1 DEF Works, PolicyInv, PolicyTypeOK
      <4>2. CASE ~(idx[c] > 0)
        <5>1. initialized[x] /\ chosen' = chosen
          BY <3>1, <4>2 DEF Works, PolicyInv
        <5>. QED BY <1>0, <3>1, <5>1 DEF OneKind
      <4>. QED BY <4>1, <4>2
    <3>. QED BY <2>2, <3>1, <3>2, SuccessIsComplete
  <2>. QED BY <2>1, <2>2
<1>5. ASSUME pc'[b] = "mount", NEW a \in Callers, PolicyOf[a] = x, DirOf[a] = DirOf[b],
             res'[a] = "ok"
      PROVE  FALSE
  <2>1. CASE b = c
    <3>1. /\ res[a] = "ok" /\ pc[c] = "look" /\ content[DirOf[c]] # "mounted"
      BY <1>5, <2>1, OwnExtractor
    <3>. QED BY <1>0, <1>5, <2>1, <3>1 DEF CompleteInv, OneKind
  <2>2. CASE b # c
    <3>1. pc[b] = "mount" /\ res[a] # "ok"
      BY <1>0, <1>5, <2>2 DEF OneKind
    <3>2. a = c
      BY <1>5, <3>1, OthersOfCall
    <3>3. pc[c] \in InExtractor /\ Works(c)
      BY <1>5, <3>1, <3>2, SuccessIsComplete
    <3>4. pc[c] \in Holding
      <4>1. pc[c] # "wait"
        BY <1>5, <3>1, <3>2 DEF Call, ReadInitialized, Lock, MakeDir, MakeDirFails, UseChosen,
           TryFirst, NothingToTry, LockExtractor, LookMounted, LookFails, LookPanics, MountImage,
           MountUnserved, MountImageFails, AlreadyUnpacked, CannotUnpack, Unpack, Unpacked,
           UnpackedInVain, UnpackFails
      <4>. QED BY <3>3, <4>1 DEF Holding
    <3>5. using[b] = using[c]
      BY <1>5, <2>2, <3>1, <3>2, <3>3, SameKind
    <3>. QED BY <1>0, <1>5, <2>2, <3>1, <3>2, <3>4, <3>5 DEF CallOK, Holding
  <2>. QED BY <2>1, <2>2
<1>. QED BY <1>1, <1>2, <1>3, <1>4, <1>5 DEF OneKind

LEMMA CompleteInductive ==
  ASSUME OwnDirectories, PolicyInv, CompleteInv, [Next]_vars
  PROVE  CompleteInv'
<1>1. ASSUME NEW c \in Callers, Call(c), ~Die(PolicyOf[c])
      PROVE  CompleteInv'
  <2>1. ASSUME NEW b \in Callers, res'[b] = "ok"
        PROVE  content'[DirOf[b]] \in {"full", "mounted", "left"}
    <3>1. CASE res[b] = "ok"
      BY <1>1, <3>1, ReportedStays DEF CompleteInv, OkUnlessLeft
    <3>2. CASE res[b] # "ok"
      <4>1. b = c
        BY <1>1, <2>1, <3>2, OthersOfCall
      <4>. QED BY <1>1, <2>1, <3>2, <4>1, SuccessIsComplete
    <3>. QED BY <3>1, <3>2
  <2>2. \A b \in Callers : CallOK(b)'
    BY <1>1, OwnCallOK, OtherCallOK
  <2>3. \A x \in Policies : chosen'[x] # NoExtractor => Extractors[x] # << >>
    BY <1>1, ChosenStep
  <2>4. PartIsExplained'
    BY <1>1, PartStep
  <2>5. \A b \in Callers : OneKind(b)'
    BY <1>1, OneKindStep
  <2>. QED BY <2>1, <2>2, <2>3, <2>4, <2>5 DEF CompleteInv, OkUnlessLeft
<1>2. ASSUME NEW x \in Policies, Die(x) PROVE CompleteInv'
  BY <1>2, DieIsExplained
<1>3. CASE UNCHANGED vars
  BY <1>3 DEF vars, CompleteInv, OkUnlessLeft, PartIsExplained, CallOK, OneKind
<1>4. CASE \E c \in Callers : Call(c)
  BY <1>1, <1>2, <1>4, PolicyAssumption
<1>5. CASE \E x \in Policies : Crash(x)
  BY <1>2, <1>5 DEF Crash
<1>. QED BY <1>3, <1>4, <1>5 DEF Next, Ended

LEMMA CompleteInitially ==
  ASSUME Init
  PROVE  CompleteInv
<1>1. /\ \A c \in Callers : pc[c] = "start" /\ res[c] = "none"
      /\ \A x \in Policies : chosen[x] = NoExtractor
      /\ \A d \in Dirs : content[d] \in {"absent", "empty"}
  BY DEF Init
<1>. QED BY <1>1 DEF CompleteInv, OkUnlessLeft, PartIsExplained, CallOK, OneKind, Holding

(* Of processes that do not extract to the directories of others: what a   *)
(* directory holds only in part is being unpacked by a call that has the   *)
(* mutex of the extractor, or was when its process was killed              *)
(* (squashfs.go:355-392; erofs.go:300-334).                                *)
THEOREM CompleteInvariance ==
  ASSUME OwnDirectories
  PROVE  Spec => []CompleteInv
<1>1. Init => CompleteInv
  BY CompleteInitially
<1>2. PolicyInv /\ CompleteInv /\ [Next]_vars => CompleteInv'
  BY CompleteInductive
<1>. QED BY <1>1, <1>2, PolicyInvariance, PTL DEF Spec

(* What a call of such a process reports as a success is the whole image,  *)
(* and stays so, whatever other calls do or have failed to do, killed ones *)
(* included; it is a part of one only where an os.RemoveAll has failed,    *)
(* and may be nothing only where the FUSE extractor was at work without    *)
(* success (squashfs.go:355-392, 410-443; erofs.go:300-334).               *)
THEOREM SuccessUnlessLeft ==
  ASSUME OwnDirectories
  PROVE  Spec => []OkUnlessLeft
<1>1. CompleteInv => OkUnlessLeft
  BY DEF CompleteInv
<1>. QED BY <1>1, CompleteInvariance, PTL

-----------------------------------------------------------------------------
(* Who waits for whom.                                                     *)

(* What the step of a call does to the mutexes of the extractors: nothing, *)
(* or it takes a free one, or gives back its own.                          *)
LEMMA MutexChange ==
  ASSUME PolicyInv, NEW c \in Callers, Call(c), ~Die(PolicyOf[c])
  PROVE  \/ busy' = busy /\ using'[c] = using[c] /\ (pc[c] \in Holding => pc'[c] \in Holding)
         \/ busy' = busy /\ pc[c] \notin Holding
         \/ LockExtractor(c)
         \/ Unlocked(c) /\ pc[c] \in Holding
<1>0. /\ pc \in [Callers -> {"start", "lock", "mkdir", "choose", "wait", "look",
                            "mount", "unpack", "unpacking", "ended"}]
  BY DEF PolicyInv, PolicyTypeOK
<1>. USE <1>0 DEF Holding, policy
<1>1. CASE ReadInitialized(c) \/ Lock(c) \/ MakeDir(c) \/ MakeDirFails(c)
  BY <1>1 DEF ReadInitialized, Lock, MakeDir, MakeDirFails
<1>2. CASE UseChosen(c) \/ TryFirst(c) \/ NothingToTry(c) \/ LockExtractor(c)
  BY <1>2 DEF UseChosen, TryFirst, NothingToTry
<1>3. CASE LookMounted(c) \/ LookFails(c) \/ LookPanics(c)
       \/ MountImage(c) \/ MountUnserved(c) \/ MountImageFails(c)
  BY <1>3 DEF LookMounted, LookFails,
     LookPanics, MountImage, MountUnserved, MountImageFails, Works, Fails
<1>4. CASE AlreadyUnpacked(c) \/ CannotUnpack(c) \/ Unpack(c) \/ Unpacked(c) \/ UnpackedInVain(c)
           \/ UnpackFails(c)
  BY <1>4 DEF AlreadyUnpacked, CannotUnpack, Unpack, Unpacked, UnpackedInVain, UnpackFails, Works, Fails
<1>. QED BY <1>1, <1>2, <1>3, <1>4 DEF Call

(* The step of a call leaves each mutex with a call that is in Mount.      *)
LEMMA MutexCall ==
  ASSUME PolicyInv, MutexInv, NEW c \in Callers, Call(c), ~Die(PolicyOf[c])
  PROVE  MutexInv'
<1>. SUFFICES ASSUME NEW x \in Policies, NEW k \in Kinds, busy'[x][k] # Nobody
              PROVE  /\ PolicyOf[busy'[x][k]] = x /\ using'[busy'[x][k]] = k
                     /\ pc'[busy'[x][k]] \in Holding
  BY DEF MutexInv
<1>0. /\ busy \in [Policies -> [Kinds -> Callers \cup {Nobody}]]
      /\ pc \in [Callers -> {"start", "lock", "mkdir", "choose", "wait", "look",
                            "mount", "unpack", "unpacking", "ended"}]
      /\ PolicyOf[c] \in Policies /\ (pc[c] \in InExtractor => using[c] \in Kinds)
      /\ Nobody \notin Callers
  BY PolicyAssumption DEF PolicyInv, PolicyTypeOK
<1>1. CASE busy'[x][k] = busy[x][k] /\ busy[x][k] # c
  <2>1. busy[x][k] \in Callers \ {c}
    BY <1>0, <1>1
  <2>2. /\ PolicyOf[busy[x][k]] = x /\ using[busy[x][k]] = k
        /\ pc[busy[x][k]] \in Holding
    BY <2>1, <1>0 DEF MutexInv
  <2>. QED BY <1>1, <2>1, <2>2, OthersOfCall
<1>2. CASE busy'[x][k] = busy[x][k] /\ busy[x][k] = c
  <2>1. PolicyOf[c] = x /\ using[c] = k /\ pc[c] \in Holding
    BY <1>0, <1>2 DEF MutexInv
  <2>2. busy' = busy /\ using'[c] = using[c] /\ pc'[c] \in Holding
    <3>1. ~LockExtractor(c)
      BY <2>1 DEF LockExtractor, Holding
    <3>2. ~Unlocked(c)
      BY <1>0, <1>2, <2>1 DEF Unlocked
    <3>. QED BY <2>1, <3>1, <3>2, MutexChange
  <2>. QED BY <1>2, <2>1, <2>2
<1>3. CASE busy'[x][k] # busy[x][k]
  <2>1. LockExtractor(c)
    <3>1. ~Unlocked(c) \/ pc[c] \notin Holding
      BY <1>0, <1>3 DEF Unlocked, Holding
    <3>. QED BY <1>3, <3>1, MutexChange
  <2>2. x = PolicyOf[c] /\ k = using[c] /\ busy'[x][k] = c
    BY <1>0, <1>3, <2>1 DEF LockExtractor
  <2>3. using'[c] = using[c] /\ pc'[c] \in Holding
    BY <1>0, <2>1 DEF LockExtractor, Holding
  <2>. QED BY <2>2, <2>3
<1>. QED BY <1>1, <1>2, <1>3

(* The end of a process frees its mutexes and no others.                   *)
LEMMA MutexDie ==
  ASSUME PolicyInv, MutexInv, NEW y \in Policies, Die(y)
  PROVE  MutexInv'
<1>. SUFFICES ASSUME NEW x \in Policies, NEW k \in Kinds, busy'[x][k] # Nobody
              PROVE  /\ PolicyOf[busy'[x][k]] = x /\ using'[busy'[x][k]] = k
                     /\ pc'[busy'[x][k]] \in Holding
  BY DEF MutexInv
<1>1. busy \in [Policies -> [Kinds -> Callers \cup {Nobody}]]
  BY DEF PolicyInv, PolicyTypeOK
<1>2. x # y /\ busy'[x][k] = busy[x][k] /\ busy[x][k] \in Callers
  BY <1>1 DEF Die
<1>3. /\ PolicyOf[busy[x][k]] = x /\ using[busy[x][k]] = k
      /\ pc[busy[x][k]] \in Holding
  BY <1>2 DEF MutexInv
<1>. QED BY <1>2, <1>3 DEF Die

LEMMA MutexInductive ==
  ASSUME PolicyInv, MutexInv, [Next]_vars
  PROVE  MutexInv'
<1>1. CASE \E c \in Callers : Call(c)
  BY <1>1, MutexCall, MutexDie, PolicyAssumption
<1>2. CASE \E x \in Policies : Crash(x)
  BY <1>2, MutexDie DEF Crash
<1>3. CASE UNCHANGED vars
  BY <1>3 DEF vars, MutexInv
<1>. QED BY <1>1, <1>2, <1>3 DEF Next, Ended

(* Who holds a mutex goes on, or waits for one that does.                  *)
LEMMA SomebodyGoesOn ==
  ASSUME PolicyInv, MutexInv
  PROVE  NoDeadlock
<1>0. /\ busy \in [Policies -> [Kinds -> Callers \cup {Nobody}]]
      /\ owner \in [Policies -> Callers \cup {Nobody}]
      /\ \A c \in Callers : /\ PolicyOf[c] \in Policies
                            /\ pc[c] \in InExtractor => using[c] \in Kinds
  BY PolicyAssumption DEF PolicyInv, PolicyTypeOK
<1>1. ASSUME NEW c \in Callers, pc[c] = "wait", Blocked(c)
      PROVE  \E b \in Callers : PolicyOf[b] = PolicyOf[c] /\ pc[b] # "ended" /\ ~Blocked(b)
  <2>. DEFINE b == busy[PolicyOf[c]][using[c]]
  <2>1. b \in Callers /\ PolicyOf[b] = PolicyOf[c] /\ pc[b] \in Holding
    BY <1>0, <1>1 DEF Blocked, MutexInv
  <2>2. pc[b] # "ended" /\ ~Blocked(b)
    BY <2>1 DEF Holding, Blocked
  <2>. QED BY <2>1, <2>2
<1>2. ASSUME NEW c \in Callers, pc[c] = "lock", Blocked(c)
      PROVE  \E b \in Callers : PolicyOf[b] = PolicyOf[c] /\ pc[b] # "ended" /\ ~Blocked(b)
  <2>. DEFINE a == owner[PolicyOf[c]]
  <2>1. a \in Callers /\ PolicyOf[a] = PolicyOf[c] /\ pc[a] \in BeyondLock
    BY <1>0, <1>2 DEF Blocked, PolicyInv
  <2>2. CASE Blocked(a)
    <3>1. pc[a] = "wait"
      BY <2>1, <2>2 DEF Blocked
    <3>. QED BY <1>1, <2>1, <2>2, <3>1
  <2>3. CASE ~Blocked(a)
    <3>1. pc[a] # "ended"
      BY <2>1
    <3>. QED BY <2>1, <2>3, <3>1
  <2>. QED BY <2>2, <2>3
<1>. QED BY <1>1, <1>2 DEF NoDeadlock, Blocked

(* The mutex of an extractor is held by a call that is in its Mount, and   *)
(* by nobody when that call has returned, in whatever way                  *)
(* (squashfs.go:353-354, 410-411, 463-464).                                *)
THEOREM MutexInvariance == Spec => []MutexInv
<1>1. Init => MutexInv
  BY DEF Init, MutexInv
<1>2. PolicyInv /\ MutexInv /\ [Next]_vars => MutexInv'
  BY MutexInductive
<1>. QED BY <1>1, <1>2, PolicyInvariance, PTL DEF Spec

(* The calls of a process do not wait for each other in a circle: the      *)
(* initializer takes the mutex of an extractor while it holds that of the  *)
(* policy, and no call takes them the other way round                      *)
(* (squashfs.go:463-464, 493-505, 534-537).                                *)
THEOREM CallsDoNotDeadlock == Spec => []NoDeadlock
<1>1. PolicyInv /\ MutexInv => NoDeadlock
  BY SomebodyGoesOn
<1>. QED BY <1>1, PolicyInvariance, MutexInvariance, PTL

-----------------------------------------------------------------------------
(* Each step goes forward.                                                 *)

LEMMA Stages ==
  /\ Stage("start") = 0 /\ Stage("lock") = 1 /\ Stage("mkdir") = 2 /\ Stage("choose") = 3
  /\ Stage("ended") = 5 /\ \A step \in InExtractor : Stage(step) = 4
  /\ Turn("wait") = 0 /\ Turn("look") = 1 /\ Turn("unpack") = 1
  /\ Turn("mount") = 2 /\ Turn("unpacking") = 2
BY DEF Stage, Turn

(* The ways to come forward.                                               *)
LEMMA Forwards ==
  ASSUME NEW c \in Callers,
         \/ Stage(pc[c]) < Stage(pc'[c])
         \/ /\ Stage(pc[c]) = Stage(pc'[c])
            /\ \/ idx[c] < idx'[c]
               \/ idx[c] = idx'[c] /\ Turn(pc[c]) < Turn(pc'[c])
  PROVE  Before(Position(c), Position(c)')
<1>. DEFINE x == Position(c)
            y == Position(c)'
<1>1. /\ x[1] = Stage(pc[c]) /\ x[2] = idx[c] /\ x[3] = Turn(pc[c])
      /\ y[1] = Stage(pc'[c]) /\ y[2] = idx'[c] /\ y[3] = Turn(pc'[c])
  BY DEF Position
<1>2. \E k \in 1 .. 3 : x[k] < y[k] /\ \A j \in 1 .. k - 1 : x[j] = y[j]
  <2>. HIDE DEF x, y
  <2>1. CASE x[1] < y[1]
    BY <2>1
  <2>2. CASE x[1] = y[1] /\ x[2] < y[2]
    <3>1. \A j \in 1 .. 2 - 1 : x[j] = y[j]
      BY <2>2
    <3>. QED BY <2>2, <3>1
  <2>3. CASE x[1] = y[1] /\ x[2] = y[2] /\ x[3] < y[3]
    <3>1. \A j \in 1 .. 3 - 1 : x[j] = y[j]
      BY <2>3
    <3>. QED BY <2>3, <3>1
  <2>. QED BY <1>1, <2>1, <2>2, <2>3
<1>. QED BY <1>2 DEF Before

(* An extractor that fails is followed by the next one, or by none.        *)
LEMMA ReturnsForward ==
  ASSUME PolicyInv, NEW c \in Callers, pc[c] \in InExtractor,
         (\E r \in {"ok", "unserved"} : Succeeds(c, r)) \/ Fails(c)
  PROVE  Before(Position(c), Position(c)')
<1>0. /\ pc \in [Callers -> {"start", "lock", "mkdir", "choose", "wait", "look",
                            "mount", "unpack", "unpacking", "ended"}]
      /\ idx \in [Callers -> Nat]
  BY DEF PolicyInv, PolicyTypeOK
<1>1. CASE pc'[c] = "ended"
  BY <1>1, Stages, Forwards
<1>2. CASE pc'[c] # "ended"
  <2>1. pc'[c] = "wait" /\ idx'[c] = idx[c] + 1
    BY <1>0, <1>2 DEF Works, Fails, Return, Use
  <2>. QED BY <1>0, <2>1, Stages, Forwards
<1>. QED BY <1>1, <1>2

LEMMA CallForward ==
  ASSUME PolicyInv, NEW c \in Callers, Call(c)
  PROVE  Before(Position(c), Position(c)')
<1>0. /\ pc \in [Callers -> {"start", "lock", "mkdir", "choose", "wait", "look",
                            "mount", "unpack", "unpacking", "ended"}]
      /\ idx \in [Callers -> Nat]
  BY DEF PolicyInv, PolicyTypeOK
<1>. USE <1>0, Stages, Forwards, ReturnsForward
<1>1. CASE ReadInitialized(c) \/ Lock(c) \/ MakeDir(c) \/ MakeDirFails(c)
  BY <1>1 DEF ReadInitialized, Lock, MakeDir, MakeDirFails, Return
<1>2. CASE UseChosen(c)
  BY <1>2 DEF UseChosen, Use, Return, Die
<1>3. CASE TryFirst(c) \/ NothingToTry(c)
  BY <1>3 DEF TryFirst, NothingToTry, Use, Return
<1>4. CASE LockExtractor(c)
  BY <1>4 DEF LockExtractor
<1>5. CASE LookMounted(c) \/ LookFails(c)
  BY <1>5 DEF LookMounted, LookFails, Works
<1>6. CASE LookPanics(c)
  BY <1>6 DEF LookPanics, Die
<1>7. CASE MountImage(c) \/ MountUnserved(c) \/ MountImageFails(c)
  BY <1>7 DEF MountImage, MountUnserved, MountImageFails, Works
<1>8. CASE AlreadyUnpacked(c) \/ CannotUnpack(c) \/ Unpacked(c)
  BY <1>8 DEF AlreadyUnpacked, CannotUnpack, Unpacked, Works
<1>9. CASE UnpackedInVain(c) \/ UnpackFails(c)
  BY <1>9 DEF UnpackedInVain, UnpackFails
<1>10. CASE Unpack(c)
  BY <1>10 DEF Unpack
<1>. QED BY <1>1, <1>2, <1>3, <1>4, <1>5, <1>6, <1>7, <1>8, <1>9, <1>10 DEF Call

(* The end of a process brings its calls to their end.                     *)
LEMMA DieForward ==
  ASSUME PolicyInv, NEW x \in Policies, Die(x), NEW c \in Callers
  PROVE  Before(Position(c), Position(c)') \/ Position(c)' = Position(c)
<1>0. /\ pc \in [Callers -> {"start", "lock", "mkdir", "choose", "wait", "look",
                            "mount", "unpack", "unpacking", "ended"}]
      /\ idx \in [Callers -> Nat] /\ (idx[c] > 0 => pc[c] \in InExtractor)
  BY DEF PolicyInv, PolicyTypeOK
<1>1. CASE PolicyOf[c] = x /\ pc[c] # "ended"
  <2>1. pc'[c] = "ended"
    BY <1>1 DEF Die
  <2>. QED BY <1>0, <1>1, <2>1, Stages, Forwards
<1>2. CASE PolicyOf[c] # x \/ pc[c] = "ended"
  <2>1. pc'[c] = pc[c] /\ idx'[c] = idx[c]
    BY <1>0, <1>2 DEF Die
  <2>. QED BY <2>1 DEF Position
<1>. QED BY <1>1, <1>2

(* The step of another call leaves this one where it is, unless it ends    *)
(* the process of both.                                                    *)
LEMMA OtherForward ==
  ASSUME PolicyInv, NEW b \in Callers, Call(b), NEW c \in Callers, c # b
  PROVE  Before(Position(c), Position(c)') \/ Position(c)' = Position(c)
<1>1. CASE Die(PolicyOf[b])
  BY <1>1, DieForward, PolicyAssumption
<1>2. CASE ~Die(PolicyOf[b])
  <2>0. idx \in [Callers -> Nat]
    BY DEF PolicyInv, PolicyTypeOK
  <2>1. idx'[c] = idx[c]
    <3>. USE <1>2, <2>0 DEF Return, Use
    <3>1. CASE idx' = idx
      BY <3>1
    <3>2. CASE MakeDirFails(b) \/ UseChosen(b) \/ TryFirst(b) \/ NothingToTry(b)
      BY <3>2 DEF MakeDirFails, UseChosen, TryFirst, NothingToTry
    <3>3. CASE Works(b)
      BY <3>3 DEF Works
    <3>4. CASE Fails(b)
      BY <3>4 DEF Fails
    <3>. QED
      BY <3>1, <3>2, <3>3, <3>4 DEF Call, ReadInitialized, Lock, MakeDir, LockExtractor,
         LookMounted, LookFails,
     LookPanics, MountImage, MountUnserved, MountImageFails, AlreadyUnpacked, CannotUnpack, Unpack,
         Unpacked, UnpackedInVain, UnpackFails
  <2>2. pc'[c] = pc[c]
    BY <1>2, OthersOfCall
  <2>. QED BY <2>1, <2>2 DEF Position
<1>. QED BY <1>1, <1>2

(* A call whose position stays has not made a step.                        *)
LEMMA StaysPut ==
  ASSUME PolicyInv, NEW c \in Callers, Position(c)' = Position(c)
  PROVE  ~Call(c)
<1>1. Position(c) \in Nat \X Nat \X Nat
  <2>1. idx[c] \in Nat
    BY DEF PolicyInv, PolicyTypeOK
  <2>2. Stage(pc[c]) \in Nat /\ Turn(pc[c]) \in Nat
    BY DEF Stage, Turn
  <2>. QED BY <2>1, <2>2 DEF Position
<1>2. ~Before(Position(c), Position(c))
  BY <1>1 DEF Before
<1>. QED BY <1>2, CallForward

(* Every step of a call brings it forward, for any number of calls, of     *)
(* processes that are killed and of extractors that fail: the list of      *)
(* extractors is gone through once (squashfs.go:485-552).                  *)
THEOREM CallsGoForward == Spec => CallsForward
<1>1. PolicyInv => PolicyTypeOK
  BY DEF PolicyInv
<1>2. PolicyInv /\ PolicyTypeOK' /\ [Next]_vars =>
        [\A c \in Callers :
           /\ idx'[c] <= Len(Extractors[PolicyOf[c]])
           /\ \/ Before(Position(c), Position(c)')
              \/ Position(c)' = Position(c) /\ ~Call(c)]_vars
  <2>. SUFFICES ASSUME PolicyInv, PolicyTypeOK', Next, NEW c \in Callers
                PROVE  /\ idx'[c] <= Len(Extractors[PolicyOf[c]])
                       /\ \/ Before(Position(c), Position(c)')
                          \/ Position(c)' = Position(c) /\ ~Call(c)
    OBVIOUS
  <2>1. idx'[c] <= Len(Extractors[PolicyOf[c]])
    BY DEF PolicyTypeOK
  <2>2. Before(Position(c), Position(c)') \/ Position(c)' = Position(c)
    <3>1. CASE \E b \in Callers : Call(b)
      BY <3>1, CallForward, OtherForward
    <3>2. CASE \E x \in Policies : Crash(x)
      BY <3>2, DieForward DEF Crash
    <3>3. CASE UNCHANGED vars
      BY <3>3 DEF vars, Position
    <3>. QED BY <3>1, <3>2, <3>3 DEF Next, Ended
  <2>. QED BY <2>1, <2>2, StaysPut
<1>. QED BY <1>1, <1>2, PolicyInvariance, PTL DEF Spec, CallsForward
=============================================================================
