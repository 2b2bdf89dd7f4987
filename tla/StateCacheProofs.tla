-------------------------- MODULE StateCacheProofs --------------------------
(***************************************************************************)
(* Theorems about StateCache, for every number of runners, sessions,       *)
(* blocks and failures, every reorganisation depth, and with or without    *)
(* regressing heads and returning blocks.                                  *)
(***************************************************************************)
EXTENDS StateCache, EvmChainProofs

-----------------------------------------------------------------------------
(* Types. *)

LEMMA TypeInit == Init => TypeOK
<1> SUFFICES ASSUME Init PROVE TypeOK
  OBVIOUS
<1>1. ChainTypeOK
  BY ChainInitType DEF Init
<1>2. rpcHead \in 1..Height /\ wire \in Seq(Logs)
  BY DEF Init, ChainInit, Height
<1>3. NoHeader \in Headers /\ NoSnapshot \in Snapshots
  BY DEF NoHeader, NoSnapshot, Headers, Snapshots, EmptyHash
<1> QED
  BY <1>1, <1>2, <1>3 DEF Init, TypeOK, Idle, Phases, EmptyHash

LEMMA TypeStep == TypeOK /\ Fence /\ [Next]_vars => TypeOK'
<1> SUFFICES ASSUME TypeOK, Fence, [Next]_vars PROVE TypeOK'
  OBVIOUS
<1> USE DEF TypeOK
<1>1. CASE NewBlock
  <2>1. PICK n \in 1..Height, log \in Effects :
           /\ Grow(n, log)
           /\ Send(Notices(n, Len(block) + 1, Child(n, log)))
           /\ rpcHead' = IF rpcHead > n + 1 THEN n + 1 ELSE rpcHead
    BY <1>1 DEF NewBlock
  <2>2. ChainTypeOK' /\ Height' = n + 1
    BY <2>1, GrowType
  <2>3. Child(n, log) \in Blocks
    BY <2>1, ChildType DEF Grow
  <2>4. Len(block) + 1 \in Hash
    BY <2>1, ChainAssumption DEF Grow, ChainTypeOK, Hash
  <2>5. wire' \in Seq(Logs)
    <3>1. Notices(n, Len(block) + 1, Child(n, log)) \in Seq(Logs)
      BY <2>3, <2>4, NoticesType DEF Height, ChainTypeOK
    <3> QED
      BY <2>1, <3>1 DEF Send
  <2>6. rpcHead' \in 1..Height'
    BY <2>1, <2>2 DEF Height, ChainTypeOK
  <2> QED
    BY <1>1, <2>2, <2>5, <2>6
    DEF NewBlock, boundVars, lockVars, pubVars, gateVars, ghostVars
<1>2. CASE OldBlock
  <2>1. PICK h \in Hash : Return(h) /\ Send(Notices(Height - 1, h, block[h]))
    BY <1>2 DEF OldBlock
  <2>2. ChainTypeOK' /\ Height' = Height
    BY <2>1, ReturnType
  <2>3. wire' \in Seq(Logs)
    <3>1. block[h] \in Blocks /\ Height - 1 \in 0..Height
      BY <2>1 DEF Return, ChainTypeOK, Height
    <3>2. Notices(Height - 1, h, block[h]) \in Seq(Logs)
      BY <3>1, NoticesType
    <3> QED
      BY <2>1, <3>2 DEF Send
  <2> QED
    BY <1>2, <2>2, <2>3
    DEF OldBlock, boundVars, lockVars, pubVars, gateVars, ghostVars
<1>3. CASE HeadMoves
  BY <1>3 DEF HeadMoves, chainVars, boundVars, lockVars, pubVars, gateVars, ghostVars,
              ChainTypeOK, Height
<1>4. ASSUME NEW r \in Runners, RunStep(r) PROVE TypeOK'
  <2>0. ChainTypeOK' /\ Height' = Height
    BY <1>4, ChainSame DEF RunStep, RunStart, RunSubscribe, RunSubscribeFails, RunActivate,
       RunLog, RunDisconnect, RunReturn
  <2> USE <2>0 DEF nodeVars, boundVars, pubVars, gateVars, ghostVars
  <2>1. CASE RunStart(r)
    BY <2>1 DEF RunStart
  <2>2. CASE RunSubscribe(r)
    BY <2>2 DEF RunSubscribe, lockVars
  <2>3. CASE RunSubscribeFails(r)
    BY <2>3 DEF RunSubscribeFails
  <2>4. CASE RunActivate(r)
    BY <2>4 DEF RunActivate, Signal, EmptyHash
  <2>5. CASE RunLog(r)
    <3>1. Head(wire) \in Logs /\ wire' \in Seq(Logs)
      BY <2>5 DEF RunLog
    <3>2. Head(wire).num \in Nat /\ Head(wire).hash \in Hash
      BY <3>1 DEF Logs, Hash
    <3>3. /\ generation' \in Nat /\ floor' \in Nat /\ verificationEpoch' \in Nat
          /\ floorHash' \in Hash \cup {EmptyHash}
          /\ updates' \in {"nil", "empty", "full"}
      BY <2>5, <3>2 DEF RunLog, Invalidate, Signal
    <3>4. delivered' \subseteq Hash
      BY <2>5, <3>2 DEF RunLog
    <3> QED
      BY <2>5, <3>1, <3>3, <3>4 DEF RunLog
  <2>6. CASE RunDisconnect(r)
    <3>1. run' \in [Runners -> {"idle", "starting", "subscribed", "watching", "closing"}]
      BY <2>6 DEF RunDisconnect
    <3>2. updates' \in {"nil", "empty", "full"} /\ generation' \in Nat
      BY <2>6 DEF RunDisconnect, Signal
    <3> QED
      BY <2>6, <3>1, <3>2 DEF RunDisconnect
  <2>7. CASE RunReturn(r)
    <3>1. run' \in [Runners -> {"idle", "starting", "subscribed", "watching", "closing"}]
      BY <2>7 DEF RunReturn
    <3>2. wire' \in Seq(Logs)
      BY <2>7 DEF RunReturn
    <3> QED
      BY <2>7, <3>1, <3>2 DEF RunReturn
  <2> QED
    BY <1>4, <2>1, <2>2, <2>3, <2>4, <2>5, <2>6, <2>7 DEF RunStep
<1>5. CASE Changes \/ ReceiveChange
  BY <1>5 DEF Changes, ReceiveChange, chainVars, nodeVars, boundVars, pubVars, gateVars,
              ChainTypeOK, Height
<1>6. CASE Call
  <2>0. ChainTypeOK' /\ Height' = Height
    BY <1>6, ChainSame DEF Call, CallFrame, QuoteBegin, CheckBegin, CallFails, Latest,
       ObservedHeader, ReadSlot0, ReadLiquidity, ReadTicks, ReadsDone, Verify, VerifyPrevious,
       QuoteCommit, CheckCommit
  <2> DEFINE OpType(o) ==
        o \in [pc : Phases, kind : {"none", "quote", "check"}, gen : Nat, floor : Nat,
               floorHash : Hash \cup {EmptyHash}, s : Snapshots,
               read : BOOLEAN, reorg : BOOLEAN]
  <2>i. OpType(Idle) /\ NoSnapshot \in Snapshots
    BY DEF Idle, NoSnapshot, Snapshots, Phases, EmptyHash
  \* A step that leaves the lock's variables alone needs only its new locals typed.
  <2>f. ASSUME CallFrame, failures' \in Nat, OpType(op'), snapshot' \in Snapshots,
               cachedGeneration' \in Nat, outcome' \in {"none", "quoted", "checked", "failed"}
        PROVE  TypeOK'
    BY <2>0, <2>f DEF CallFrame, nodeVars, lockVars, pubVars, ghostVars
  <2>r. ASSUME Reject
        PROVE  /\ OpType(op') /\ snapshot' \in Snapshots /\ cachedGeneration' \in Nat
               /\ outcome' \in {"none", "quoted", "checked", "failed"}
    BY <2>i, <2>r DEF Reject
  <2>w. ASSUME Working
        PROVE  /\ snapshot' \in Snapshots /\ cachedGeneration' \in Nat
               /\ outcome' \in {"none", "quoted", "checked", "failed"}
    BY <2>w DEF Working
  <2>d. ASSUME NEW next \in Phases, Read(next), op.pc \in Captured
        PROVE  /\ OpType(op') /\ snapshot' \in Snapshots /\ cachedGeneration' \in Nat
               /\ outcome' \in {"none", "quoted", "checked", "failed"}
    <3>1. CASE op.s.num <= Height
      <4>1. op.s \in Snapshots /\ op.s.num \in 1..Height
        BY <2>d, <3>1 DEF Fence, Snapshots, Height, ChainTypeOK
      <4>2. StateAt(op.s.num) \in Hash
        BY <4>1, StateAtType
      <4>3. [op.s EXCEPT !.reads = @ \cup {StateAt(op.s.num)}] \in Snapshots
        BY <4>1, <4>2 DEF Snapshots
      <4>4. op' = [op EXCEPT !.pc = next, !.read = TRUE,
                             !.s = [op.s EXCEPT !.reads = @ \cup {StateAt(op.s.num)}]]
        BY <2>d, <3>1 DEF Read
      <4>5. OpType(op')
        BY <4>3, <4>4
      <4> QED
        BY <2>d, <3>1, <2>w, <4>5 DEF Read
    <3>2. CASE ~(op.s.num <= Height)
      BY <2>d, <3>2, <2>r DEF Read
    <3> QED
      BY <3>1, <3>2
  <2> HIDE DEF TypeOK
  <2>t. /\ OpType(op) /\ snapshot \in Snapshots /\ rpcHead \in 1..Height /\ ChainTypeOK
        /\ generation \in Nat /\ floor \in Nat /\ floorHash \in Hash \cup {EmptyHash}
        /\ cachedGeneration \in Nat /\ failures \in Nat /\ verificationEpoch \in Nat
    BY DEF TypeOK
  <2>1. CASE QuoteBegin
    <3>1. OpType(op')
      BY <2>1, <2>i, <2>t DEF QuoteBegin, Idle, Phases, EmptyHash
    <3> QED
      BY <2>1, <2>t, <2>f, <3>1 DEF QuoteBegin
  <2>2. CASE CheckBegin
    <3>1. OpType(op')
      BY <2>2, <2>i, <2>t DEF CheckBegin, Idle, Phases, EmptyHash
    <3> QED
      BY <2>2, <2>t, <2>f, <3>1 DEF CheckBegin
  <2>3. CASE CallFails
    BY <2>3, <2>t, <2>f, <2>r DEF CallFails
  <2>4. CASE Latest
    <3>1. chain[rpcHead] \in Hash /\ rpcHead \in Nat
      BY <2>t, StateAtType DEF Height, ChainTypeOK
    <3>2. [NoSnapshot EXCEPT !.num = rpcHead, !.hash = chain[rpcHead]] \in Snapshots
      BY <3>1 DEF NoSnapshot, Snapshots
    <3>3. Reject \/ (Working /\ OpType(op'))
      BY <2>4, <2>t, <3>2 DEF Latest, Goto, Phases
    <3> QED
      BY <2>4, <2>t, <2>f, <2>r, <2>w, <3>3 DEF Latest
  <2>5. CASE ObservedHeader
    <3>1. [NoSnapshot EXCEPT !.num = op.floor, !.hash = op.floorHash] \in Snapshots
      BY <2>t DEF NoSnapshot, Snapshots
    <3>2. Reject \/ (Working /\ OpType(op'))
      BY <2>5, <2>t, <3>1 DEF ObservedHeader, Phases
    <3> QED
      BY <2>5, <2>t, <2>f, <2>r, <2>w, <3>2 DEF ObservedHeader
  <2>6. CASE ReadSlot0
    BY <2>6, <2>t, <2>f, <2>d DEF ReadSlot0, Phases, Captured
  <2>7. CASE ReadLiquidity
    BY <2>7, <2>t, <2>f, <2>d DEF ReadLiquidity, Phases, Captured
  <2>8. CASE ReadTicks
    BY <2>8, <2>t, <2>f, <2>d DEF ReadTicks, Phases, Captured
  <2>9. CASE ReadsDone
    <3>1. Reject \/ (Working /\ OpType(op'))
      BY <2>9, <2>t DEF ReadsDone, Goto, Phases
    <3> QED
      BY <2>9, <2>t, <2>f, <2>r, <2>w, <3>1 DEF ReadsDone
  <2>10. CASE Verify
    <3>1. Reject \/ (Working /\ OpType(op'))
      <4>1. CASE HeaderIs(op.s.num, op.s.hash)
        <5>1. op'.pc \in Phases /\ op'.reorg \in BOOLEAN
          BY <2>10, <2>t, <4>1 DEF Verify, Phases
        <5>2. Working /\ op' = [op EXCEPT !.pc = op'.pc, !.reorg = op'.reorg]
          BY <2>10, <2>t, <4>1 DEF Verify
        <5> QED
          BY <2>t, <5>1, <5>2
      <4> QED
        BY <2>10, <4>1 DEF Verify
    <3> QED
      BY <2>10, <2>t, <2>f, <2>r, <2>w, <3>1 DEF Verify
  <2>11. CASE VerifyPrevious
    <3>1. Reject \/ (Working /\ OpType(op'))
      BY <2>11, <2>t DEF VerifyPrevious, Phases
    <3> QED
      BY <2>11, <2>t, <2>f, <2>r, <2>w, <3>1 DEF VerifyPrevious
  <2>s. op.s \in Snapshots /\ op.gen \in Nat /\ HeaderOf(op.s) \in Headers
    BY <2>t DEF HeaderOf, Headers, Snapshots
  <2>12. CASE QuoteCommit
    <3>1. covered' \in Headers /\ retained' \in Snapshots /\ failures' \in Nat
      BY <2>12, <2>s DEF QuoteCommit, TypeOK
    <3>2. /\ OpType(op') /\ snapshot' \in Snapshots /\ cachedGeneration' \in Nat
          /\ outcome' \in {"none", "quoted", "checked", "failed"}
      BY <2>12, <2>s, <2>i, <2>r DEF QuoteCommit
    <3> QED
      BY <2>12, <2>0, <3>1, <3>2 DEF QuoteCommit, TypeOK, nodeVars, lockVars, ghostVars
  <2>13. CASE CheckCommit
    <3>1. /\ covered' \in Headers /\ verificationEpoch' \in Nat
      BY <2>13, <2>s DEF CheckCommit, TypeOK
    <3>2. /\ OpType(op') /\ snapshot' \in Snapshots /\ cachedGeneration' \in Nat
          /\ outcome' \in {"none", "quoted", "checked", "failed"}
      BY <2>13, <2>s, <2>i, <2>r DEF CheckCommit
    <3> QED
      BY <2>13, <2>0, <3>1, <3>2 DEF CheckCommit, TypeOK, nodeVars, boundVars, ghostVars
  <2> QED
    BY <1>6, <2>1, <2>2, <2>3, <2>4, <2>5, <2>6, <2>7, <2>8, <2>9, <2>10, <2>11, <2>12, <2>13
    DEF Call
<1>7. CASE UNCHANGED vars
  BY <1>7 DEF vars, chainVars, nodeVars, boundVars, lockVars, pubVars, gateVars, ghostVars,
              ChainTypeOK, Height
<1> QED
  BY <1>1, <1>2, <1>3, <1>4, <1>5, <1>6, <1>7 DEF Next

-----------------------------------------------------------------------------
(* The generation fence. *)

LEMMA FenceInit == Init => Fence
  BY DEF Init, Fence, Idle, NoSnapshot, Captured

\* Only Run moves the floor, and never without moving the generation.
LEMMA FenceStep == TypeOK /\ Fence /\ [Next]_vars => Fence'
<1> SUFFICES ASSUME TypeOK, Fence, [Next]_vars PROVE Fence'
  OBVIOUS
<1>t. /\ generation \in Nat /\ cachedGeneration \in Nat /\ floor \in Nat
      /\ op.gen \in Nat /\ op.floor \in Nat /\ op.s.num \in Nat /\ snapshot.num \in Nat
      /\ rpcHead \in 1..Height /\ Height \in Nat
      /\ op \in [pc : Phases, kind : {"none", "quote", "check"}, gen : Nat, floor : Nat,
                floorHash : Hash \cup {EmptyHash}, s : Snapshots,
                read : BOOLEAN, reorg : BOOLEAN]
  BY DEF TypeOK, Snapshots, Height, ChainTypeOK
<1>f. ASSUME UNCHANGED <<generation, floor, op, snapshot, cachedGeneration>> PROVE Fence'
  BY <1>f DEF Fence
<1>g. ASSUME generation' = generation + 1, UNCHANGED <<op, snapshot, cachedGeneration>>
      PROVE  Fence'
  BY <1>g, <1>t DEF Fence
<1>1. CASE NewBlock \/ OldBlock \/ HeadMoves \/ Changes \/ ReceiveChange
  BY <1>1, <1>f DEF NewBlock, OldBlock, HeadMoves, Changes, ReceiveChange, lockVars, gateVars
<1>2. ASSUME NEW r \in Runners, RunStep(r) PROVE Fence'
  BY <1>2, <1>f, <1>g DEF RunStep, RunStart, RunSubscribe, RunSubscribeFails, RunActivate, RunLog,
     RunDisconnect, RunReturn, Invalidate, lockVars, gateVars
<1>3. CASE Call
  <2>r. ASSUME Reject, UNCHANGED <<generation, floor>> PROVE Fence'
    BY <2>r, <1>t DEF Reject, Fence, Idle, Captured
  \* A step of the call that keeps its start's copies and its block number.
  <2>k. ASSUME Working, UNCHANGED <<generation, floor>>,
               op'.gen = op.gen, op'.floor = op.floor, op.pc # "free",
               op'.pc = "floor" => op.floor >= 1,
               op'.pc \in Captured => op'.s.num >= op.floor /\ op'.s.num >= 1
        PROVE  Fence'
    BY <2>k, <1>t DEF Fence, Working
  <2>d. ASSUME NEW next \in Captured, Read(next), op.pc \in Captured, UNCHANGED <<generation, floor>>
        PROVE  Fence'
    <3>1. CASE op.s.num <= Height
      <4>1. /\ op'.gen = op.gen /\ op'.floor = op.floor /\ op'.s.num = op.s.num
            /\ op'.pc = next /\ Working
        <5>1. op.s \in Snapshots
          BY <1>t
        <5>2. [op.s EXCEPT !.reads = @ \cup {StateAt(op.s.num)}].num = op.s.num
          BY <5>1 DEF Snapshots
        <5> QED
          BY <2>d, <3>1, <1>t, <5>2 DEF Read
      <4> QED
        BY <4>1, <2>d, <2>k DEF Fence, Captured
    <3>2. CASE ~(op.s.num <= Height)
      BY <2>d, <3>2, <2>r DEF Read
    <3> QED
      BY <3>1, <3>2
  <2>u. UNCHANGED <<generation, floor>>
    BY <1>3 DEF Call, CallFrame, lockVars, QuoteBegin, CheckBegin, CallFails, Latest,
       ObservedHeader, ReadSlot0, ReadLiquidity, ReadTicks, ReadsDone, Verify, VerifyPrevious,
       QuoteCommit, CheckCommit
  <2>1. CASE QuoteBegin
    <3>1. PICK old \in BOOLEAN :
            op' = [Idle EXCEPT !.kind = "quote", !.gen = generation, !.floor = floor,
                             !.floorHash = IF active THEN floorHash ELSE EmptyHash,
                             !.pc = IF Reusable(old) THEN "ticks" ELSE "latest",
                             !.s = IF Reusable(old) THEN snapshot ELSE NoSnapshot]
      BY <2>1 DEF QuoteBegin
    <3>2. CASE Reusable(old)
      <4>1. /\ op'.gen = generation /\ op'.floor = floor /\ op'.pc = "ticks" /\ op'.s = snapshot
            /\ snapshot # NoSnapshot /\ generation = cachedGeneration
        BY <3>1, <3>2 DEF Reusable, Idle
      <4> QED
        BY <2>1, <2>u, <1>t, <4>1 DEF QuoteBegin, Fence
    <3>3. CASE ~Reusable(old)
      <4>1. op'.gen = generation /\ op'.floor = floor /\ op'.pc = "latest"
        BY <3>1, <3>3 DEF Idle
      <4> QED
        BY <2>1, <2>u, <1>t, <4>1 DEF QuoteBegin, Fence, Captured
    <3> QED
      BY <3>2, <3>3
  <2>2. CASE CheckBegin
    BY <2>2, <2>u, <1>t DEF CheckBegin, Fence, Idle, Captured
  <2>3. CASE CallFails
    BY <2>3, <2>u, <2>r DEF CallFails
  <2>4. CASE Latest
    <3>1. CASE rpcHead >= op.floor
      <4>1. /\ op'.gen = op.gen /\ op'.floor = op.floor /\ op'.pc = "slot0"
            /\ op'.s.num = rpcHead /\ Working
        <5>1. [NoSnapshot EXCEPT !.num = rpcHead, !.hash = chain[rpcHead]].num = rpcHead
          BY DEF NoSnapshot
        <5>2. ~(rpcHead < op.floor)
          BY <3>1, <1>t
        <5> QED
          BY <2>4, <1>t, <5>1, <5>2 DEF Latest
      <4> QED
        BY <2>4, <3>1, <2>u, <2>k, <1>t, <4>1 DEF Latest
    <3>2. CASE rpcHead < op.floor /\ op.floorHash # EmptyHash
      <4>1. op'.gen = op.gen /\ op'.floor = op.floor /\ op'.pc = "floor" /\ Working
        BY <2>4, <3>2, <1>t DEF Latest, Goto
      <4> QED
        BY <2>4, <3>2, <2>u, <2>k, <1>t, <4>1 DEF Latest, Captured
    <3>3. CASE rpcHead < op.floor /\ op.floorHash = EmptyHash
      BY <2>4, <3>3, <2>u, <2>r, <1>t DEF Latest
    <3> QED
      BY <3>1, <3>2, <3>3, <1>t
  <2>5. CASE ObservedHeader
    <3>1. CASE HeaderIs(op.floor, op.floorHash)
      <4>1. /\ op'.gen = op.gen /\ op'.floor = op.floor /\ op'.pc = "slot0"
            /\ op'.s.num = op.floor /\ Working
        BY <2>5, <3>1, <1>t DEF ObservedHeader, NoSnapshot
      <4> QED
        BY <2>5, <2>u, <2>k, <1>t, <4>1 DEF ObservedHeader, Fence
    <3>2. CASE ~HeaderIs(op.floor, op.floorHash)
      BY <2>5, <3>2, <2>u, <2>r DEF ObservedHeader
    <3> QED
      BY <3>1, <3>2
  <2>6. CASE ReadSlot0 \/ ReadLiquidity \/ ReadTicks
    BY <2>6, <2>u, <2>d DEF ReadSlot0, ReadLiquidity, ReadTicks, Captured
  <2>7. CASE ReadsDone
    BY <2>7, <2>u, <2>r, <2>k, <1>t DEF ReadsDone, Goto, Captured, Fence
  <2>8. CASE Verify
    BY <2>8, <2>u, <2>r, <2>k, <1>t DEF Verify, Captured, Fence
  <2>9. CASE VerifyPrevious
    BY <2>9, <2>u, <2>r, <2>k, <1>t DEF VerifyPrevious, Captured, Fence
  <2>10. CASE QuoteCommit
    BY <2>10, <2>u, <2>r, <1>t DEF QuoteCommit, Fence, Idle, Captured
  <2>11. CASE CheckCommit
    BY <2>11, <2>u, <2>r, <1>t DEF CheckCommit, Fence, Idle, Captured
  <2> QED
    BY <1>3, <2>1, <2>2, <2>3, <2>4, <2>5, <2>6, <2>7, <2>8, <2>9, <2>10, <2>11 DEF Call
<1>4. CASE UNCHANGED vars
  BY <1>4, <1>f DEF vars, lockVars, gateVars
<1> QED
  BY <1>1, <1>2, <1>3, <1>4 DEF Next

\* Type correctness of the cache.
THEOREM TypeCorrect == Spec => [](TypeOK /\ Fence)
<1>1. Init => TypeOK /\ Fence
  BY TypeInit, FenceInit
<1>2. TypeOK /\ Fence /\ [Next]_vars => (TypeOK /\ Fence)'
  BY TypeStep, FenceStep
<1> QED
  BY <1>1, <1>2, PTL DEF Spec

\* A snapshot QuotePair may hand out again is at least as new as every handled log
\* that raised the floor, for every interleaving of captures and logs.
THEOREM FloorSafe == Spec => []FloorRespected
<1>1. TypeOK /\ Fence => FloorRespected
  BY DEF TypeOK, Fence, FloorRespected, Reusable
<1> QED
  BY <1>1, TypeCorrect, PTL

-----------------------------------------------------------------------------
(* Sessions and notifications. *)

-----------------------------------------------------------------------------
(* The refinement of FencedCache. *)

Entry == IF Reusable(FALSE) THEN snapshot.num ELSE 0

LEMMA RefinesInit == Init => Abstract!Init
  BY DEF Init, Abstract!Init, Reusable

LEMMA LogNum == ASSUME NEW log \in Logs PROVE log.num \in Nat
  BY ChainAssumption DEF Logs, Hash

\* Every step drops the entry, installs one or leaves it and the floor alone.
LEMMA RefinesStep == TypeOK /\ Fence /\ [Next]_vars => [Abstract!Next]_<<floor, Entry>>
<1> SUFFICES ASSUME TypeOK, Fence, [Next]_vars PROVE [Abstract!Next]_<<floor, Entry>>
  OBVIOUS
<1>t. /\ generation \in Nat /\ cachedGeneration \in Nat /\ floor \in Nat
      /\ op.floor \in Nat /\ op.s.num \in Nat /\ snapshot.num \in Nat
      /\ cachedGeneration <= generation
  BY DEF TypeOK, Snapshots, Fence
<1>s. ASSUME UNCHANGED <<floor, snapshot, active, generation, cachedGeneration>>
      PROVE  UNCHANGED <<floor, Entry>>
  BY <1>s DEF Entry, Reusable
<1>d. ASSUME floor' \in Nat, floor' >= floor, ~Reusable(FALSE)' PROVE Abstract!Next
  BY <1>d DEF Abstract!Next, Abstract!Drop
\* The generation moves past the cached one.
<1>g. ASSUME generation' = generation + 1, UNCHANGED cachedGeneration PROVE ~Reusable(FALSE)'
  BY <1>g, <1>t DEF Reusable
<1>1. CASE NewBlock \/ OldBlock \/ HeadMoves \/ Changes \/ ReceiveChange
  BY <1>1, <1>s DEF NewBlock, OldBlock, HeadMoves, Changes, ReceiveChange, lockVars, gateVars
<1>2. ASSUME NEW r \in Runners, RunStep(r) PROVE [Abstract!Next]_<<floor, Entry>>
  <2>1. CASE RunStart(r) \/ RunSubscribe(r) \/ RunSubscribeFails(r) \/ RunReturn(r)
    BY <2>1, <1>s DEF RunStart, RunSubscribe, RunSubscribeFails, RunReturn, lockVars, gateVars
  <2>2. CASE RunActivate(r) \/ RunDisconnect(r)
    <3>1. generation' = generation + 1 /\ UNCHANGED <<floor, cachedGeneration>>
      BY <2>2 DEF RunActivate, RunDisconnect, gateVars
    <3> QED
      BY <3>1, <1>g, <1>d, <1>t
  <2>3. CASE RunLog(r)
    <3>1. Head(wire) \in Logs
      BY <2>3 DEF RunLog, TypeOK
    <3>2. Head(wire).num \in Nat
      BY <3>1, LogNum
    <3>3. UNCHANGED <<snapshot, cachedGeneration, active>>
      BY <2>3 DEF RunLog, gateVars
    <3>4. CASE UNCHANGED <<generation, floor>>
      BY <3>3, <3>4, <1>s
    <3>5. CASE Invalidate(Head(wire))
      <4>1. generation' = generation + 1 /\ floor' \in Nat /\ floor' >= floor
        BY <3>5, <3>2, <1>t DEF Invalidate
      <4> QED
        BY <4>1, <3>3, <1>g, <1>d
    <3> QED
      BY <2>3, <3>4, <3>5 DEF RunLog
  <2> QED
    BY <1>2, <2>1, <2>2, <2>3 DEF RunStep
<1>3. CASE Call
  <2>u. UNCHANGED <<generation, floor, active>>
    BY <1>3 DEF Call, CallFrame, lockVars, QuoteBegin, CheckBegin, CallFails, Latest,
       ObservedHeader, ReadSlot0, ReadLiquidity, ReadTicks, ReadsDone, Verify, VerifyPrevious,
       QuoteCommit, CheckCommit
  <2>r. CASE Reject
    BY <2>r, <2>u, <1>d, <1>t DEF Reject, Reusable
  <2>w. CASE UNCHANGED <<snapshot, cachedGeneration>>
    BY <2>w, <2>u, <1>s
  \* An accepted capture was not overtaken: it is not below the floor.
  <2>a. ASSUME op.pc = "commit", op.gen = generation, snapshot' = op.s,
               cachedGeneration' = op.gen
        PROVE  [Abstract!Next]_<<floor, Entry>>
    <3>1. op.s.num >= floor /\ op.s.num >= 1
      BY <2>a, <1>t DEF Fence, Captured
    <3>2. CASE Reusable(FALSE)'
      <4>1. snapshot'.num = op.s.num
        BY <2>a
      <4>2. Abstract!Install
        BY <4>1, <3>1, <3>2, <2>u, <1>t DEF Abstract!Install, Reusable
      <4> QED
        BY <4>2 DEF Abstract!Next
    <3>3. CASE ~Reusable(FALSE)'
      BY <3>3, <2>u, <1>d, <1>t
    <3> QED
      BY <3>2, <3>3
  <2>c. CASE QuoteCommit
    <3>1. CASE Reject
      BY <3>1, <2>r
    <3>2. CASE op.gen = generation /\ snapshot' = op.s /\ cachedGeneration' = op.gen
      BY <3>2, <2>c, <2>a DEF QuoteCommit
    <3> QED
      BY <2>c, <3>1, <3>2 DEF QuoteCommit
  <2>k. CASE CheckCommit
    <3>1. CASE Reject
      BY <3>1, <2>r
    <3>2. CASE op.gen = generation /\ snapshot' = op.s /\ cachedGeneration' = op.gen
      BY <3>2, <2>k, <2>a DEF CheckCommit
    <3> QED
      BY <2>k, <3>1, <3>2 DEF CheckCommit
  <2> QED
    BY <1>3, <2>r, <2>w, <2>c, <2>k DEF Call, QuoteBegin, CheckBegin, CallFails, Latest,
       ObservedHeader, ReadSlot0, ReadLiquidity, ReadTicks, Read, ReadsDone, Verify,
       VerifyPrevious, Working
<1>4. CASE UNCHANGED vars
  BY <1>4, <1>s DEF vars, lockVars, gateVars
<1> QED
  BY <1>1, <1>2, <1>3, <1>4 DEF Next

\* The cache is an implementation of FencedCache: whatever the calls and sessions do,
\* what QuotePair may hand out again was installed at or above the floor, and is gone
\* with the next log that is not already in it.
THEOREM CacheRefines == Spec => CacheFenced
<1>1. TypeOK /\ Fence /\ [Next]_vars => [Abstract!Next]_<<floor, Entry>>
  BY RefinesStep
<1>2. Spec => [](TypeOK /\ Fence)
  BY TypeCorrect
<1> QED
  BY <1>1, <1>2, RefinesInit, PTL DEF Spec, CacheFenced, Abstract!Spec, Entry

\* running is a lock on the whole of Run; active tells exactly when logs are handled.
THEOREM SessionSafe == Spec => []OneSession
<1>1. Init => OneSession
  BY DEF Init, OneSession
<1>2. TypeOK /\ OneSession /\ [Next]_vars => OneSession'
  <2> SUFFICES ASSUME TypeOK, OneSession, [Next]_vars PROVE OneSession'
    OBVIOUS
  <2>t. run \in [Runners -> {"idle", "starting", "subscribed", "watching", "closing"}]
    BY DEF TypeOK
  <2>1. ASSUME NEW r \in Runners, RunStep(r) PROVE OneSession'
    <3>1. CASE RunStart(r)
      BY <3>1, <2>t DEF RunStart, OneSession
    <3>2. CASE RunSubscribe(r)
      BY <3>2, <2>t DEF RunSubscribe, OneSession, lockVars
    <3>3. CASE RunSubscribeFails(r)
      BY <3>3, <2>t DEF RunSubscribeFails, OneSession
    <3>4. CASE RunActivate(r)
      BY <3>4, <2>t DEF RunActivate, OneSession
    <3>5. CASE RunLog(r)
      BY <3>5, <2>t DEF RunLog, OneSession
    <3>6. CASE RunDisconnect(r)
      BY <3>6, <2>t DEF RunDisconnect, OneSession
    <3>7. CASE RunReturn(r)
      BY <3>7, <2>t DEF RunReturn, OneSession
    <3> QED
      BY <2>1, <3>1, <3>2, <3>3, <3>4, <3>5, <3>6, <3>7 DEF RunStep
  <2>2. CASE UNCHANGED <<run, running, active>>
    BY <2>2 DEF OneSession
  <2>3. (\E r \in Runners : RunStep(r)) \/ UNCHANGED <<run, running, active>>
    BY DEF Next, vars, lockVars, NewBlock, OldBlock, HeadMoves, Changes, ReceiveChange, Call, CallFrame,
       QuoteBegin, CheckBegin, CallFails, Latest, ObservedHeader, ReadSlot0, ReadLiquidity,
       ReadTicks, ReadsDone, Verify, VerifyPrevious, QuoteCommit, CheckCommit
  <2> QED
    BY <2>1, <2>2, <2>3
<1> QED
  BY <1>1, <1>2, TypeCorrect, PTL DEF Spec

\* Every step that moves the generation leaves a notification behind.
THEOREM ChangesSafe == Spec => []NoLostChange
<1>1. Init => NoLostChange
  BY DEF Init, NoLostChange
<1>2. NoLostChange /\ [Next]_vars => NoLostChange'
  <2> SUFFICES ASSUME NoLostChange, [Next]_vars PROVE NoLostChange'
    OBVIOUS
  <2>1. ASSUME NEW r \in Runners, RunStep(r) PROVE NoLostChange'
    BY <2>1 DEF NoLostChange, RunStep, RunStart, RunSubscribe, RunSubscribeFails, RunActivate,
       RunLog, RunDisconnect, RunReturn, Invalidate, Signal, lockVars, ghostVars
  <2>2. CASE Changes \/ ReceiveChange
    BY <2>2 DEF Changes, ReceiveChange, NoLostChange
  <2>3. CASE UNCHANGED <<generation, updates, noted>>
    BY <2>3 DEF NoLostChange
  <2>4. \/ \E r \in Runners : RunStep(r)
        \/ Changes \/ ReceiveChange
        \/ UNCHANGED <<generation, updates, noted>>
    BY DEF Next, vars, lockVars, ghostVars, NewBlock, OldBlock, HeadMoves, Call, CallFrame,
       QuoteBegin, CheckBegin, CallFails, Latest, ObservedHeader, ReadSlot0, ReadLiquidity,
       ReadTicks, ReadsDone, Verify, VerifyPrevious, QuoteCommit, CheckCommit
  <2> QED
    BY <2>1, <2>2, <2>3, <2>4
<1> QED
  BY <1>1, <1>2, PTL DEF Spec

-----------------------------------------------------------------------------
(* Coherence of captures across reorganisations. *)

LEMMA GrowKeeps ==
  ASSUME ChainTypeOK, NEW n \in 1..Height, NEW log \in Effects, Grow(n, log),
         NEW h \in 1..Len(block), NEW m \in Nat \ {0}
  PROVE  /\ h \in 1..Len(block') /\ block'[h] = block[h]
         /\ HeaderIs(m, h)' => HeaderIs(m, h)
  BY ChainKeeps DEF HeaderIs, Height

\* A chain that has returned to a dropped block stays one that has.
LEMMA ReturnsKept == TypeOK /\ [Next]_vars /\ returns' = 0 => returns = 0
<1> SUFFICES ASSUME TypeOK, [Next]_vars, returns' = 0 PROVE returns = 0
  OBVIOUS
<1>1. CASE NewBlock
  BY <1>1 DEF NewBlock, Grow
<1>2. CASE OldBlock
  BY <1>2 DEF OldBlock, Return, TypeOK, ChainTypeOK
<1>3. ASSUME NEW r \in Runners, RunStep(r) PROVE returns = 0
  BY <1>3 DEF RunStep, RunStart, RunSubscribe, RunSubscribeFails, RunActivate, RunLog,
     RunDisconnect, RunReturn, chainVars
<1>4. CASE HeadMoves \/ Changes \/ ReceiveChange
  BY <1>4 DEF HeadMoves, Changes, ReceiveChange, chainVars
<1>5. CASE Call
  BY <1>5 DEF Call, CallFrame, chainVars, QuoteBegin, CheckBegin, CallFails, Latest,
     ObservedHeader, ReadSlot0, ReadLiquidity, ReadTicks, ReadsDone, Verify, VerifyPrevious,
     QuoteCommit, CheckCommit
<1>6. CASE UNCHANGED vars
  BY <1>6 DEF vars, chainVars
<1> QED
  BY <1>1, <1>2, <1>3, <1>4, <1>5, <1>6 DEF Next

LEMMA CoherentInit == Init => CallCoherent /\ SnapshotCoherent
  BY DEF Init, CallCoherent, SnapshotCoherent, Idle, Captured

LEMMA CoherentStep ==
  ASSUME returns' = 0, TypeOK, Fence, CallCoherent, SnapshotCoherent, [Next]_vars
  PROVE  CallCoherent' /\ SnapshotCoherent'
<1>t. /\ ChainTypeOK /\ rpcHead \in 1..Height /\ Height \in Nat
      /\ op.s \in Snapshots /\ snapshot \in Snapshots /\ op.s.num \in Nat /\ op.floor \in Nat
      /\ op \in [pc : Phases, kind : {"none", "quote", "check"}, gen : Nat, floor : Nat,
                floorHash : Hash \cup {EmptyHash}, s : Snapshots,
                read : BOOLEAN, reorg : BOOLEAN]
  BY DEF TypeOK, Snapshots, Height, ChainTypeOK
<1>1. CASE NewBlock
  <2>1. PICK n \in 1..Height, log \in Effects : Grow(n, log)
    BY <1>1 DEF NewBlock
  <2>2. UNCHANGED <<op, snapshot>>
    BY <1>1 DEF NewBlock, gateVars
  <2>3. ASSUME op.pc \in Captured
        PROVE  /\ op.s.hash \in 1..Len(block') /\ block'[op.s.hash] = block[op.s.hash]
               /\ HeaderIs(op.s.num, op.s.hash)' => HeaderIs(op.s.num, op.s.hash)
    <3>1. op.s.hash \in 1..Len(block) /\ op.s.num \in Nat \ {0}
      BY <2>3, <1>t DEF CallCoherent, Fence
    <3>2. HeaderIs(op.s.num, op.s.hash)' <=> op.s.num <= Height' /\ chain'[op.s.num] = op.s.hash
      BY <2>2 DEF HeaderIs
    <3>3. \A m \in Nat \ {0}, h \in 1..Len(block) :
             (m <= Height' /\ chain'[m] = h) => HeaderIs(m, h)
      BY <2>1, <1>t, GrowKeeps DEF HeaderIs
    <3> QED
      BY <2>1, <3>1, <3>2, <3>3, <1>t, GrowKeeps
  <2>4. ASSUME snapshot # NoSnapshot
        PROVE  /\ snapshot.hash \in 1..Len(block')
               /\ block'[snapshot.hash] = block[snapshot.hash]
    BY <2>1, <2>4, <1>t, GrowKeeps DEF CallCoherent, Fence
  <2> QED
    BY <2>2, <2>3, <2>4 DEF CallCoherent, SnapshotCoherent
<1>2. CASE OldBlock
  BY <1>2, <1>t DEF OldBlock, Return, ChainTypeOK
<1>f. ASSUME UNCHANGED <<chain, block, op, snapshot>> PROVE CallCoherent' /\ SnapshotCoherent'
  BY <1>f DEF CallCoherent, SnapshotCoherent, HeaderIs, Height
<1>3. CASE HeadMoves \/ Changes \/ ReceiveChange
  BY <1>3, <1>f DEF HeadMoves, Changes, ReceiveChange, chainVars, gateVars
<1>4. ASSUME NEW r \in Runners, RunStep(r) PROVE CallCoherent' /\ SnapshotCoherent'
  BY <1>4, <1>f DEF RunStep, RunStart, RunSubscribe, RunSubscribeFails, RunActivate, RunLog,
     RunDisconnect, RunReturn, chainVars, gateVars
<1>5. CASE Call
  <2>u. UNCHANGED <<chain, block>>
    BY <1>5 DEF Call, CallFrame, chainVars, QuoteBegin, CheckBegin, CallFails, Latest,
       ObservedHeader, ReadSlot0, ReadLiquidity, ReadTicks, ReadsDone, Verify, VerifyPrevious,
       QuoteCommit, CheckCommit
  <2>r. ASSUME Reject PROVE CallCoherent' /\ SnapshotCoherent'
    BY <2>r DEF Reject, CallCoherent, SnapshotCoherent, Idle, Captured
  <2>b. ASSUME UNCHANGED snapshot
        PROVE  SnapshotCoherent' /\ (snapshot' # NoSnapshot => snapshot'.hash \in 1..Len(block'))
    BY <2>b, <2>u DEF SnapshotCoherent, CallCoherent
  <2>h. \A m, h : HeaderIs(m, h)' <=> HeaderIs(m, h)
    BY <2>u DEF HeaderIs, Height
  \* A step that keeps the working snapshot and adds no claim about it.
  <2>k. ASSUME UNCHANGED snapshot, op.pc \in Captured \ {"slot0"}, op'.s = op.s, op'.read = op.read,
               (op'.pc \in {"previous", "commit"}) =>
                  \/ op.pc \in {"previous", "commit"} \/ ~op.read
                  \/ HeaderIs(op.s.num, op.s.hash)
        PROVE  CallCoherent' /\ SnapshotCoherent'
    <3>1. \/ op'.pc \in {"previous", "commit"} \/ ~op'.read \/ HeaderIs(op.s.num, op.s.hash)'
          => op.s.reads \subseteq {block[op.s.hash].state}
      BY <2>k, <2>u DEF CallCoherent, HeaderIs, Height
    <3> QED
      BY <2>k, <2>b, <2>u, <3>1 DEF CallCoherent
  <2>d. ASSUME NEW next \in {"liquidity", "ticks"}, Read(next),
               op.pc \in {"slot0", "liquidity", "ticks"}
        PROVE  CallCoherent' /\ SnapshotCoherent'
    <3>1. CASE op.s.num <= Height
      <4>1. /\ op'.s.num = op.s.num /\ op'.s.hash = op.s.hash /\ op'.read /\ op'.pc = next
            /\ op'.s.reads = op.s.reads \cup {StateAt(op.s.num)} /\ UNCHANGED snapshot
        <5>1. /\ [op.s EXCEPT !.reads = @ \cup {StateAt(op.s.num)}].num = op.s.num
              /\ [op.s EXCEPT !.reads = @ \cup {StateAt(op.s.num)}].hash = op.s.hash
              /\ [op.s EXCEPT !.reads = @ \cup {StateAt(op.s.num)}].reads
                   = op.s.reads \cup {StateAt(op.s.num)}
          BY <1>t DEF Snapshots
        <5> QED
          BY <2>d, <3>1, <1>t, <5>1 DEF Read, Working
      <4>2. ASSUME HeaderIs(op.s.num, op.s.hash)
            PROVE  op'.s.reads \subseteq {block[op.s.hash].state}
        BY <4>1, <4>2, <2>d DEF HeaderIs, StateAt, CallCoherent, Captured
      <4>3. op.s.hash \in 1..Len(block)
        BY <2>d DEF CallCoherent, Captured
      <4> QED
        BY <4>1, <4>2, <4>3, <2>b, <2>u, <2>h DEF CallCoherent
    <3>2. CASE ~(op.s.num <= Height)
      BY <2>d, <3>2, <2>r DEF Read
    <3> QED
      BY <3>1, <3>2
  \* A step that starts over with an empty snapshot of a block that exists.
  <2>e. ASSUME UNCHANGED snapshot, op'.pc = "slot0", op'.s.hash \in 1..Len(block), op'.s.reads = {}
        PROVE  CallCoherent' /\ SnapshotCoherent'
    BY <2>e, <2>b, <2>u DEF CallCoherent
  <2>n. ASSUME UNCHANGED snapshot, op'.pc \in {"latest", "floor"}
        PROVE  CallCoherent' /\ SnapshotCoherent'
    BY <2>n, <2>b DEF CallCoherent, Captured
  <2>1. CASE QuoteBegin
    <3>1. PICK old \in BOOLEAN :
            op' = [Idle EXCEPT !.kind = "quote", !.gen = generation, !.floor = floor,
                             !.floorHash = IF active THEN floorHash ELSE EmptyHash,
                             !.pc = IF Reusable(old) THEN "ticks" ELSE "latest",
                             !.s = IF Reusable(old) THEN snapshot ELSE NoSnapshot]
      BY <2>1 DEF QuoteBegin
    <3>2. CASE Reusable(old)
      <4>1. op'.s = snapshot /\ op'.pc = "ticks" /\ snapshot # NoSnapshot /\ UNCHANGED snapshot
        BY <2>1, <3>1, <3>2 DEF Reusable, Idle, QuoteBegin
      <4> QED
        BY <4>1, <2>b, <2>u DEF CallCoherent, SnapshotCoherent
    <3>3. CASE ~Reusable(old)
      <4>1. op'.pc = "latest" /\ UNCHANGED snapshot
        BY <2>1, <3>1, <3>3 DEF Idle, QuoteBegin
      <4> QED
        BY <4>1, <2>n
    <3> QED
      BY <3>2, <3>3
  <2>2. CASE CheckBegin
    BY <2>2, <2>n DEF CheckBegin, Idle
  <2>3. CASE CallFails
    BY <2>3, <2>r DEF CallFails
  <2>4. CASE Latest
    <3>1. chain[rpcHead] \in 1..Len(block)
      BY <1>t, StateAtType
    <3>2. /\ [NoSnapshot EXCEPT !.num = rpcHead, !.hash = chain[rpcHead]].hash = chain[rpcHead]
          /\ [NoSnapshot EXCEPT !.num = rpcHead, !.hash = chain[rpcHead]].reads = {}
      BY DEF NoSnapshot
    <3>3. \/ Reject
          \/ UNCHANGED snapshot /\ op'.pc = "floor"
          \/ UNCHANGED snapshot /\ op'.pc = "slot0" /\ op'.s.hash = chain[rpcHead] /\ op'.s.reads = {}
      BY <2>4, <1>t, <3>2 DEF Latest, Goto, Working
    <3> QED
      BY <3>1, <3>3, <2>r, <2>n, <2>e
  <2>5. CASE ObservedHeader
    <3>1. CASE HeaderIs(op.floor, op.floorHash)
      <4>1. /\ [NoSnapshot EXCEPT !.num = op.floor, !.hash = op.floorHash].hash = op.floorHash
            /\ [NoSnapshot EXCEPT !.num = op.floor, !.hash = op.floorHash].reads = {}
        BY DEF NoSnapshot
      <4>2. op.floor \in 1..Height
        BY <2>5, <3>1, <1>t DEF ObservedHeader, Fence, HeaderIs
      <4>3. op.floorHash \in 1..Len(block)
        BY <3>1, <4>2, <1>t, StateAtType DEF HeaderIs
      <4>4. /\ op'.pc = "slot0" /\ op'.s.hash = op.floorHash /\ op'.s.reads = {}
            /\ UNCHANGED snapshot
        BY <2>5, <3>1, <1>t, <4>1 DEF ObservedHeader, Working
      <4> QED
        BY <4>3, <4>4, <2>e
    <3>2. CASE ~HeaderIs(op.floor, op.floorHash)
      BY <2>5, <3>2, <2>r DEF ObservedHeader
    <3> QED
      BY <3>1, <3>2
  <2>6. CASE ReadSlot0 \/ ReadLiquidity \/ ReadTicks
    BY <2>6, <2>d DEF ReadSlot0, ReadLiquidity, ReadTicks
  <2>7. CASE ReadsDone
    <3>1. \/ Reject
          \/ /\ UNCHANGED snapshot /\ op'.s = op.s /\ op'.read = op.read
             /\ op'.pc = "verify" \/ (op'.pc = "commit" /\ ~op.read)
      BY <2>7, <1>t DEF ReadsDone, Goto, Working
    <3> QED
      BY <2>7, <3>1, <2>r, <2>k DEF ReadsDone, Captured
  <2>8. CASE Verify
    <3>1. CASE HeaderIs(op.s.num, op.s.hash)
      <4>1. UNCHANGED snapshot /\ op'.s = op.s /\ op'.read = op.read
        BY <2>8, <3>1, <1>t DEF Verify, Working
      <4> QED
        BY <2>8, <3>1, <4>1, <2>k DEF Verify, Captured
    <3>2. CASE ~HeaderIs(op.s.num, op.s.hash)
      BY <2>8, <3>2, <2>r DEF Verify
    <3> QED
      BY <3>1, <3>2
  <2>9. CASE VerifyPrevious
    <3>1. Reject \/ (UNCHANGED snapshot /\ op'.s = op.s /\ op'.read = op.read)
      BY <2>9, <1>t DEF VerifyPrevious, Working
    <3> QED
      BY <2>9, <3>1, <2>r, <2>k DEF VerifyPrevious, Captured
  <2>c. ASSUME op.pc = "commit", snapshot' = op.s, op' = Idle
        PROVE  CallCoherent' /\ SnapshotCoherent'
    <3>1. op.s.reads = {block[op.s.hash].state} /\ op.s.hash \in 1..Len(block)
      BY <2>c DEF CallCoherent, Captured
    <3> QED
      BY <2>c, <2>u, <3>1 DEF CallCoherent, SnapshotCoherent, Idle, Captured
  <2>10. CASE QuoteCommit \/ CheckCommit
    BY <2>10, <2>r, <2>c DEF QuoteCommit, CheckCommit
  <2> QED
    BY <1>5, <2>1, <2>2, <2>3, <2>4, <2>5, <2>6, <2>7, <2>8, <2>9, <2>10 DEF Call
<1>6. CASE UNCHANGED vars
  BY <1>6, <1>f DEF vars, chainVars, gateVars
<1> QED
  BY <1>1, <1>2, <1>3, <1>4, <1>5, <1>6 DEF Next

\* Until the chain returns to a block it dropped, an accepted snapshot holds the pool
\* of exactly the block it names, whatever happens between its RPC calls.
THEOREM CoherenceSafe == Spec => []BlockCoherent
<1> DEFINE Coherent == returns = 0 => CallCoherent /\ SnapshotCoherent
<1>1. Init => Coherent
  BY CoherentInit
<1>2. TypeOK /\ Fence /\ Coherent /\ [Next]_vars => Coherent'
  BY CoherentStep, ReturnsKept
<1>3. Coherent => BlockCoherent
  BY DEF BlockCoherent
<1> QED
  BY <1>1, <1>2, <1>3, TypeCorrect, PTL DEF Spec

-----------------------------------------------------------------------------
\* Why no handled log is missing from a snapshot that may be used again, although a log
\* of the covered block is skipped


\* Block number n of the chain has that number.
Numbered == \A n \in 1..Height : block[chain[n]].num = n

Known(h) == h \in 1..Len(block)

\* The logs handled, and those the covered block would let pass.
Handled == delivered \cup {covered.hash}

\* What captures can still meet: heads do not go below a block that stays canonical.
InReach(h) == Canonical(h) => block[h].num <= floor \/ block[h].num <= rpcHead

\* A captured or remembered block is what it is said to be.
WellKnown ==
    /\ Numbered
    /\ \A h \in delivered : Known(h)
    /\ covered.hash # EmptyHash => Known(covered.hash) /\ covered.num = block[covered.hash].num
    /\ \A i \in 1..Len(wire) :
          Known(wire[i].hash) /\ wire[i].num = block[wire[i].hash].num
    /\ op.pc \in Captured => Known(op.s.hash) /\ op.s.num = block[op.s.hash].num
    /\ snapshot # NoSnapshot => covered = HeaderOf(snapshot) /\ Known(snapshot.hash)
    /\ op.pc # "free" => op.floor <= floor

\* Every handled log that is still part of the chain is at or below whatever a call that
\* was not overtaken captures, and what it has captured.
Bounded ==
    /\ \A h \in Handled : InReach(h)
    /\ op.pc \in Captured => InReach(op.s.hash)
    /\ \A h \in Handled : Canonical(h) =>
          /\ op.pc = "floor" /\ op.gen = generation => block[h].num <= op.floor
          /\ op.pc \in Captured /\ op.gen = generation => block[h].num <= op.s.num
          /\ snapshot # NoSnapshot /\ cachedGeneration = generation
                => block[h].num <= snapshot.num

LEMMA ReflectedInit == Init => WellKnown /\ Bounded
<1> SUFFICES ASSUME Init PROVE WellKnown /\ Bounded
  OBVIOUS
<1>1. /\ Len(block) = 1 /\ block[1].num = 1 /\ Len(chain) = 1 /\ chain[1] = 1
      /\ Len(wire) = 0 /\ delivered = {} /\ covered.hash = EmptyHash
      /\ op.pc = "free" /\ snapshot = NoSnapshot
  BY DEF Init, ChainInit, NoHeader, Idle
<1>2. WellKnown
  BY <1>1 DEF WellKnown, Numbered, Height, Captured
<1>3. ~Canonical(EmptyHash)
  BY <1>1 DEF Canonical, Height, EmptyHash
<1>4. Bounded
  BY <1>1, <1>3 DEF Bounded, Handled, InReach, Captured
<1> QED
  BY <1>2, <1>4

-----------------------------------------------------------------------------
(* A new block. *)

LEMMA StaysCanonical ==
  ASSUME ChainTypeOK, Numbered, NEW n \in 1..Height, NEW log \in Effects, Grow(n, log),
         NEW h \in 1..Len(block)
  PROVE  /\ h \in 1..Len(block') /\ block'[h] = block[h]
         /\ (\E m \in 1..Height' : chain'[m] = h) => Canonical(h) /\ block[h].num <= n
<1>1. Height' = n + 1 /\ Height = Len(chain) /\ Height \in Nat /\ Height' = Len(chain')
  BY GrowType DEF Height, ChainTypeOK
<1>2. chain'[n + 1] = Len(block) + 1 /\ Len(block) \in Nat
  BY DEF Grow, ChainTypeOK, Height
<1>3. ASSUME NEW m \in 1..Height', chain'[m] = h PROVE Canonical(h) /\ block[h].num <= n
  <2>1. m # n + 1
    BY <1>2, <1>3
  <2>2. m \in 1..n /\ m \in Nat \ {0}
    BY <1>1, <2>1
  <2>3. m <= Len(chain) /\ chain[m] = h
    BY <1>1, <1>3, <2>2, ChainKeeps
  <2> QED
    BY <1>1, <2>2, <2>3 DEF Canonical, Numbered
<1>4. h \in 1..Len(block') /\ block'[h] = block[h]
  BY ChainKeeps
<1> QED
  BY <1>3, <1>4

LEMMA NumberedGrows ==
  ASSUME ChainTypeOK, Numbered, NEW n \in 1..Height, NEW log \in Effects, Grow(n, log)
  PROVE  Numbered'
<1>1. Height' = n + 1 /\ Height = Len(chain) /\ Height \in Nat
  BY GrowType DEF Height, ChainTypeOK
<1>2. /\ chain'[n + 1] = Len(block) + 1 /\ block'[Len(block) + 1].num = n + 1
      /\ \A m \in 1..n : chain'[m] = chain[m]
  BY DEF Grow, ChainTypeOK, Height, Child
<1>3. ASSUME NEW m \in 1..n PROVE block'[chain'[m]].num = m
  <2>1. chain[m] \in 1..Len(block)
    BY <1>1 DEF ChainTypeOK
  <2>2. block'[chain[m]] = block[chain[m]]
    BY <2>1, StaysCanonical
  <2> QED
    BY <1>1, <1>2, <2>2 DEF Numbered
<1>4. ASSUME NEW m \in 1..Height' PROVE block'[chain'[m]].num = m
  BY <1>1, <1>2, <1>3, <1>4
<1> QED
  BY <1>4 DEF Numbered

\* Notices are about blocks there are, under their numbers.
LEMMA NoticesKnown ==
  ASSUME ChainTypeOK, Numbered, NEW n \in 1..Height, NEW log \in Effects, Grow(n, log),
         NEW i \in 1..Len(Notices(n, Len(block) + 1, Child(n, log)))
  PROVE  LET notice == Notices(n, Len(block) + 1, Child(n, log))[i]
         IN  /\ notice.hash \in 1..Len(block')
             /\ notice.num = block'[notice.hash].num
<1> DEFINE child == Child(n, log)
           new == [num |-> child.num, hash |-> Len(block) + 1, pool |-> TRUE, removed |-> FALSE]
           tail == IF child.log # "none" THEN <<new>> ELSE <<>>
<1>1. Height \in Nat /\ Len(block) \in Nat /\ Height = Len(chain)
  BY DEF ChainTypeOK, Height
<1>2. Dropped(n) \in Seq(Logs) /\ Len(Dropped(n)) = Height - n
  <2>1. n \in 0..Height /\ Height - n \in Nat
    BY <1>1
  <2>2. Dropped(n) \in Seq(Logs)
    BY <2>1, DroppedType
  <2>3. DOMAIN Dropped(n) = 1..(Height - n)
    BY DEF Dropped
  <2> QED
    BY <2>1, <2>2, <2>3
<1>3. Notices(n, Len(block) + 1, child) = Dropped(n) \o tail
  BY DEF Notices
<1>4. block' = Append(block, child) /\ Len(block') = Len(block) + 1
      /\ block'[Len(block) + 1] = child
  BY DEF Grow, ChainTypeOK
<1>5. CASE i <= Height - n
  <2>1. i \in 1..(Height - n) /\ Height + 1 - i \in 1..Height
    BY <1>1, <1>5
  <2>2. (Dropped(n) \o tail)[i] = Dropped(n)[i]
    BY <1>2, <2>1
  <2>3. Dropped(n)[i] = Log(chain[Height + 1 - i], TRUE)
    BY <2>1 DEF Dropped
  <2>4. chain[Height + 1 - i] \in 1..Len(block)
    BY <1>1, <2>1 DEF ChainTypeOK
  <2>5. block'[chain[Height + 1 - i]] = block[chain[Height + 1 - i]]
    BY <2>4, StaysCanonical
  <2> QED
    BY <1>3, <1>4, <2>2, <2>3, <2>4, <2>5 DEF Log
<1>6. CASE ~(i <= Height - n)
  <2>a. tail = <<>> \/ tail = <<new>>
    OBVIOUS
  <2> HIDE DEF tail, new, child
  <2>b. i \in 1..Len(Dropped(n) \o tail)
    BY <1>3 DEF child
  <2>c. tail # <<>>
    <3> SUFFICES ASSUME tail = <<>> PROVE FALSE
      OBVIOUS
    <3>1. Dropped(n) \o tail = Dropped(n)
      BY <1>2
    <3> QED
      BY <1>1, <1>2, <1>6, <2>b, <3>1
  <2>1. tail = <<new>> /\ i = Height - n + 1
    <3>1. tail = <<new>>
      BY <2>a, <2>c
    <3>2. Len(Dropped(n) \o <<new>>) = Height - n + 1
      BY <1>1, <1>2
    <3> QED
      BY <1>1, <1>6, <2>b, <3>1, <3>2
  <2>2. (Dropped(n) \o tail)[i] = new
    BY <1>1, <1>2, <2>1
  <2>3. new.hash = Len(block) + 1 /\ new.num = child.num
    BY DEF new
  <2> QED
    BY <1>1, <1>3, <1>4, <2>2, <2>3 DEF child
<1> QED
  BY <1>5, <1>6

LEMMA ReflectedNewBlock ==
  ASSUME TypeOK, WellKnown, Bounded, NewBlock
  PROVE  WellKnown' /\ Bounded'
<1> DEFINE notices(n, log) == Notices(n, Len(block) + 1, Child(n, log))
<1>1. PICK n \in 1..Height, log \in Effects :
         /\ Grow(n, log) /\ Send(notices(n, log))
         /\ rpcHead' = (IF rpcHead > n + 1 THEN n + 1 ELSE rpcHead)
  BY DEF NewBlock
<1>t. ChainTypeOK /\ Numbered /\ rpcHead \in Nat /\ Height \in Nat /\ n \in Nat
  BY DEF TypeOK, WellKnown, ChainTypeOK, Height
<1>2. UNCHANGED <<generation, floor, covered, snapshot, cachedGeneration, op, delivered>>
  BY DEF NewBlock, lockVars, pubVars, gateVars, ghostVars
<1>3. \A h \in 1..Len(block) : /\ h \in 1..Len(block') /\ block'[h] = block[h]
                               /\ Canonical(h)' => Canonical(h) /\ block[h].num <= n
  <2>1. ASSUME NEW h \in 1..Len(block)
        PROVE  /\ h \in 1..Len(block') /\ block'[h] = block[h]
               /\ Canonical(h)' => Canonical(h) /\ block[h].num <= n
    BY <1>1, <1>t, <2>1, StaysCanonical DEF Canonical
  <2> QED
    BY <2>1
<1>4. Numbered'
  BY <1>1, <1>t, NumberedGrows
<1>5. ASSUME NEW i \in 1..Len(wire')
      PROVE  wire'[i].hash \in 1..Len(block') /\ wire'[i].num = block'[wire'[i].hash].num
  <2>1. /\ wire \in Seq(Logs) /\ Len(wire) \in Nat
        /\ \A j \in 1..Len(wire) : /\ wire[j].hash \in 1..Len(block)
                                    /\ wire[j].num = block[wire[j].hash].num
    BY DEF TypeOK, WellKnown, Known
  <2>2. \A j \in 1..Len(wire) : /\ wire[j].hash \in 1..Len(block')
                                /\ wire[j].num = block'[wire[j].hash].num
    BY <1>3, <2>1
  <2>3. \A j \in 1..Len(notices(n, log)) :
            /\ notices(n, log)[j].hash \in 1..Len(block')
            /\ notices(n, log)[j].num = block'[notices(n, log)[j].hash].num
    BY <1>1, <1>t, NoticesKnown
  <2>4. notices(n, log) \in Seq(Logs)
    <3>1. Child(n, log) \in Blocks
      BY <1>1, <1>t, ChildType DEF Grow
    <3>2. Len(block) + 1 \in Hash
      BY <1>1, ChainAssumption DEF Grow, Hash, TypeOK, ChainTypeOK
    <3>3. n \in 0..Height
      BY <1>t
    <3> QED
      BY <1>t, <3>1, <3>2, <3>3, NoticesType
  <2>5. wire' = wire \/ wire' = wire \o notices(n, log)
    BY <1>1 DEF Send
  <2> HIDE DEF notices
  <2>6. CASE wire' = wire
    BY <1>5, <2>2, <2>6
  <2>7. CASE wire' = wire \o notices(n, log)
    <3>1. CASE i <= Len(wire)
      <4>1. i \in 1..Len(wire) /\ wire'[i] = wire[i]
        BY <1>5, <2>1, <2>4, <2>7, <3>1
      <4> QED
        BY <2>2, <4>1
    <3>2. CASE ~(i <= Len(wire))
      <4>1. i - Len(wire) \in 1..Len(notices(n, log)) /\ wire'[i] = notices(n, log)[i - Len(wire)]
        BY <1>5, <2>1, <2>4, <2>7, <3>2
      <4> QED
        BY <2>3, <4>1
    <3> QED
      BY <3>1, <3>2
  <2> QED
    BY <2>5, <2>6, <2>7
<1>6. WellKnown'
  BY <1>2, <1>3, <1>4, <1>5 DEF WellKnown, Known
\* A block that stays canonical is at most n, and heads stay above it.
<1>7. ASSUME NEW h \in 1..Len(block), InReach(h) PROVE InReach(h)'
  <2> SUFFICES ASSUME Canonical(h)'
               PROVE  block'[h].num <= floor' \/ block'[h].num <= rpcHead'
    BY DEF InReach
  <2>1. /\ Canonical(h) /\ block[h].num <= n /\ block'[h] = block[h]
        /\ block[h].num <= floor \/ block[h].num <= rpcHead
    BY <1>3, <1>7 DEF InReach
  <2>2. block[h].num \in Nat
    <3>1. block[h] \in Blocks
      BY <1>t DEF ChainTypeOK
    <3> QED
      BY <3>1 DEF Blocks, Hash
  <2> QED
    BY <1>1, <1>2, <1>t, <2>1, <2>2
<1>8. \A h \in Handled : h = EmptyHash \/ h \in 1..Len(block)
  BY DEF Handled, WellKnown, Known
<1>9. ~Canonical(EmptyHash)'
  <2>1. chain' \in Seq(1..Len(block'))
    BY <1>1, <1>t, GrowType DEF ChainTypeOK
  <2> QED
    BY <2>1 DEF Canonical, EmptyHash, Height
<1>10. Bounded'
  <2>1. ASSUME NEW h \in Handled' PROVE InReach(h)'
    <3>1. h \in Handled
      BY <1>2 DEF Handled
    <3>2. CASE h = EmptyHash
      BY <1>9, <3>2 DEF InReach
    <3>3. CASE h \in 1..Len(block)
      BY <1>7, <3>1, <3>3 DEF Bounded
    <3> QED
      BY <1>8, <3>1, <3>2, <3>3
  <2>2. ASSUME op'.pc \in Captured PROVE InReach(op.s.hash)'
    <3>1. op.s.hash \in 1..Len(block) /\ InReach(op.s.hash) /\ op' = op
      BY <1>2, <2>2 DEF WellKnown, Bounded, Known
    <3>2. \A h \in 1..Len(block) : InReach(h) => InReach(h)'
      BY <1>7
    <3> QED
      BY <3>1, <3>2 DEF InReach, Canonical
  <2>3. ASSUME NEW h \in Handled', Canonical(h)'
        PROVE  h \in Handled /\ Canonical(h) /\ block'[h] = block[h]
    BY <1>2, <1>3, <1>8, <1>9, <2>3 DEF Handled
  <2> QED
    BY <1>2, <2>1, <2>2, <2>3 DEF Bounded
<1> QED
  BY <1>6, <1>10

-----------------------------------------------------------------------------
(* Heads, sessions and notifications. *)

\* Steps outside calls: what they invalidate they also fence, and what they handle they
\* either fence or had covered.
LEMMA ReflectedOutside ==
  ASSUME TypeOK, Fence, WellKnown, Bounded,
         UNCHANGED <<chain, block, covered, op, snapshot, cachedGeneration>>,
         rpcHead' \in Nat, rpcHead' >= rpcHead,
         floor' \in Nat, floor' >= floor,
         generation' \in Nat, generation' >= generation,
         \A i \in 1..Len(wire') :
            wire'[i].hash \in 1..Len(block) /\ wire'[i].num = block[wire'[i].hash].num,
         \A h \in delivered' :
            \/ h \in delivered \/ (h = covered.hash /\ h \in 1..Len(block))
            \/ /\ h \in 1..Len(block) /\ block[h].num <= floor' /\ generation' > generation
  PROVE  WellKnown' /\ Bounded'
<1>1. WellKnown'
  <2>1. op.pc # "free" => op.floor <= floor'
    BY DEF WellKnown, TypeOK
  <2> QED
    BY <2>1 DEF WellKnown, Known, Numbered, Height
<1>2. \A h : InReach(h) /\ (h = EmptyHash \/ h \in 1..Len(block)) => InReach(h)'
  <2> SUFFICES ASSUME NEW h, InReach(h), h = EmptyHash \/ h \in 1..Len(block), Canonical(h)'
               PROVE  block[h].num <= floor' \/ block[h].num <= rpcHead'
    BY DEF InReach
  <2>1. Canonical(h)
    BY DEF Canonical, Height
  <2>2. chain \in Seq(1..Len(block)) /\ block \in Seq(Blocks)
    BY DEF TypeOK, ChainTypeOK
  <2>3. h \in 1..Len(block)
    BY <2>1, <2>2 DEF Canonical, Height, EmptyHash
  <2>4. block[h] \in Blocks
    BY <2>2, <2>3
  <2>5. block[h].num \in Nat
    BY <2>4 DEF Blocks, Hash
  <2>6. floor \in Nat /\ rpcHead \in Nat
    BY DEF TypeOK, Height, ChainTypeOK
  <2> QED
    BY <2>1, <2>5, <2>6 DEF InReach
<1>3. \A h \in Handled : h = EmptyHash \/ h \in 1..Len(block)
  BY DEF Handled, WellKnown, Known
<1>4. \A h \in Handled' : h \in Handled \/ (block[h].num <= floor' /\ generation' > generation)
  BY DEF Handled
<1>5. \A h \in Handled' : InReach(h)'
  BY <1>2, <1>3, <1>4 DEF Bounded, InReach
<1>6. op'.pc \in Captured => InReach(op.s.hash)'
  <2> SUFFICES ASSUME op'.pc \in Captured PROVE InReach(op.s.hash)'
    OBVIOUS
  <2>1. InReach(op.s.hash) /\ op.s.hash \in 1..Len(block)
    BY DEF Bounded, WellKnown, Known
  <2>2. \A h : InReach(h) /\ h \in 1..Len(block)
               => (Canonical(h) => block[h].num <= floor' \/ block[h].num <= rpcHead')
    BY <1>2 DEF InReach, Canonical, Height
  <2> QED
    BY <2>1, <2>2 DEF InReach, Canonical, Height
<1>7. op.gen \in Nat /\ cachedGeneration \in Nat /\ generation \in Nat
      /\ op.gen <= generation /\ cachedGeneration <= generation
  BY DEF TypeOK, Fence
<1>8. CASE generation' = generation
  <2>1. Handled' \subseteq Handled
    BY <1>4, <1>7, <1>8
  <2> QED
    BY <1>1, <1>5, <1>6, <1>8, <2>1 DEF Bounded, Canonical, Height
<1>9. CASE generation' # generation
  <2>1. op'.gen # generation' /\ cachedGeneration' # generation'
    BY <1>7, <1>9
  <2> QED
    BY <1>1, <1>5, <1>6, <2>1 DEF Bounded
<1> QED
  BY <1>8, <1>9

LEMMA ReflectedSession ==
  ASSUME TypeOK, Fence, WellKnown, Bounded, NEW r \in Runners, RunStep(r)
  PROVE  WellKnown' /\ Bounded'
<1>t. /\ rpcHead \in Nat /\ floor \in Nat /\ generation \in Nat /\ wire \in Seq(Logs)
      /\ Len(wire) \in Nat
  BY DEF TypeOK, ChainTypeOK, Height
<1>w. \A i \in 1..Len(wire) :
         wire[i].hash \in 1..Len(block) /\ wire[i].num = block[wire[i].hash].num
  BY DEF WellKnown, Known
<1>1. UNCHANGED <<chain, block, rpcHead, covered, op, snapshot, cachedGeneration>>
  BY DEF RunStep, RunStart, RunSubscribe, RunSubscribeFails, RunActivate, RunLog, RunDisconnect,
     RunReturn, chainVars, nodeVars, pubVars, gateVars
<1>2. CASE RunStart(r) \/ RunSubscribe(r) \/ RunSubscribeFails(r) \/ RunActivate(r)
           \/ RunDisconnect(r) \/ RunReturn(r)
  <2>1. /\ floor' = floor /\ delivered' = delivered
        /\ generation' \in {generation, generation + 1} /\ wire' \in {wire, <<>>}
    BY <1>2 DEF RunStart, RunSubscribe, RunSubscribeFails, RunActivate, RunDisconnect,
       RunReturn, nodeVars, lockVars, ghostVars
  <2>2. \A i \in 1..Len(wire') :
            wire'[i].hash \in 1..Len(block) /\ wire'[i].num = block[wire'[i].hash].num
    BY <1>w, <2>1
  <2> QED
    BY <1>1, <1>t, <2>1, <2>2, ReflectedOutside
<1>3. CASE RunLog(r)
  <2> DEFINE log == Head(wire)
  <2>1. /\ wire # <<>> /\ wire' = Tail(wire)
        /\ delivered' = (IF ~log.pool THEN delivered
                         ELSE IF log.removed THEN delivered \ {log.hash}
                         ELSE delivered \cup {log.hash})
        /\ IF ~log.pool \/ IsCovered(log) THEN UNCHANGED <<generation, floor>>
           ELSE Invalidate(log)
    BY <1>3 DEF RunLog
  <2>2. /\ log = wire[1] /\ 1 \in 1..Len(wire)
        /\ \A i \in 1..Len(Tail(wire)) : i + 1 \in 1..Len(wire) /\ Tail(wire)[i] = wire[i + 1]
    BY <1>t, <2>1
  <2>3. log.hash \in 1..Len(block) /\ log.num = block[log.hash].num /\ log.num \in Nat
    <3>1. log \in Logs
      BY <1>t, <2>2
    <3> QED
      BY <1>w, <2>2, <3>1 DEF Logs, Hash
  <2> HIDE DEF log
  <2>4. \A i \in 1..Len(wire') :
            wire'[i].hash \in 1..Len(block) /\ wire'[i].num = block[wire'[i].hash].num
    BY <1>w, <2>1, <2>2
  <2>5. CASE ~log.pool \/ IsCovered(log)
    <3>1. UNCHANGED <<generation, floor>>
      BY <2>1, <2>5
    <3>2. \A h \in delivered' : h \in delivered \/ (h = covered.hash /\ h \in 1..Len(block))
      BY <2>1, <2>3, <2>5 DEF IsCovered
    <3> QED
      BY <1>1, <1>t, <2>4, <3>1, <3>2, ReflectedOutside
  <2>6. CASE ~(~log.pool \/ IsCovered(log))
    <3>1. /\ generation' = generation + 1
          /\ floor' = (IF log.num >= floor THEN log.num ELSE floor)
      BY <2>1, <2>6 DEF Invalidate
    <3>2. floor' \in Nat /\ floor' >= floor /\ log.num <= floor'
      BY <1>t, <2>3, <3>1
    <3>3. \A h \in delivered' : h \in delivered \/ h = log.hash
      BY <2>1
    <3>4. \A h \in delivered' : \/ h \in delivered
                               \/ /\ h \in 1..Len(block) /\ block[h].num <= floor'
                                  /\ generation' > generation
      BY <1>t, <2>3, <3>1, <3>2, <3>3
    <3> QED
      BY <1>1, <1>t, <2>4, <3>1, <3>2, <3>4, ReflectedOutside
  <2> QED
    BY <2>5, <2>6
<1> QED
  BY <1>2, <1>3 DEF RunStep

-----------------------------------------------------------------------------
(* Calls. *)

\* What a call may capture or assume, given what has been handled.
Captures(o) ==
    /\ o.pc # "free" => o.floor <= floor
    /\ o.pc \in Captured => /\ Known(o.s.hash) /\ o.s.num = block[o.s.hash].num
                             /\ InReach(o.s.hash)
    /\ \A h \in Handled : Canonical(h) =>
          /\ o.pc = "floor" /\ o.gen = generation => block[h].num <= o.floor
          /\ o.pc \in Captured /\ o.gen = generation => block[h].num <= o.s.num

\* Every step of a call but its commit.
LEMMA ReflectedWorking ==
  ASSUME WellKnown, Bounded, Captures(op'),
         UNCHANGED <<chain, block, rpcHead, wire, delivered, floor, generation, covered,
                     cachedGeneration>>,
         snapshot' = snapshot \/ snapshot' = NoSnapshot
  PROVE  WellKnown' /\ Bounded'
<1>1. WellKnown'
  BY DEF WellKnown, Captures, Known, Numbered, Height
<1>2. /\ Handled' = Handled /\ \A h : Canonical(h)' <=> Canonical(h)
      /\ \A h : InReach(h) => (Canonical(h) => block[h].num <= floor \/ block[h].num <= rpcHead)
  BY DEF Handled, Canonical, Height, InReach
<1>3. \A h \in Handled' : InReach(h)'
  BY <1>2 DEF Bounded, InReach
<1>4. op'.pc \in Captured => InReach(op.s.hash)'
  BY <1>2 DEF Captures, InReach
<1> QED
  BY <1>1, <1>2, <1>3, <1>4 DEF Bounded, Captures

\* The commit: "late" is a snapshot that is too old by now.
LEMMA ReflectedCommit ==
  ASSUME TypeOK, WellKnown, Bounded, op.pc = "commit", op.gen = generation, op' = Idle,
         UNCHANGED <<chain, block, rpcHead, wire, delivered, floor, generation>>,
         covered' = HeaderOf(op.s),
         snapshot' = op.s \/ snapshot' = NoSnapshot
  PROVE  WellKnown' /\ Bounded'
<1>1. /\ Known(op.s.hash) /\ op.s.num = block[op.s.hash].num /\ InReach(op.s.hash)
      /\ covered'.num = op.s.num /\ covered'.hash = op.s.hash
      /\ op'.pc = "free" /\ ~(op'.pc \in Captured)
  BY DEF WellKnown, Bounded, Captured, HeaderOf, Idle
<1>2. WellKnown'
  BY <1>1 DEF WellKnown, Known, Numbered, Height
<1>3. Handled' = delivered \cup {op.s.hash} /\ \A h : Canonical(h)' <=> Canonical(h)
  BY <1>1 DEF Handled, Canonical, Height
<1>4. \A h \in Handled' : InReach(h)'
  BY <1>1, <1>3 DEF Bounded, InReach, Handled
<1>5. op.s.num \in Nat
  BY DEF TypeOK, Snapshots
<1>6. ASSUME NEW h \in Handled', Canonical(h) PROVE block[h].num <= op.s.num
  BY <1>1, <1>3, <1>5, <1>6 DEF Bounded, Handled, Captured
<1> QED
  BY <1>1, <1>2, <1>3, <1>4, <1>6 DEF Bounded

LEMMA ReflectedCalls ==
  ASSUME TypeOK, Fence, WellKnown, Bounded, Call
  PROVE  WellKnown' /\ Bounded'
<1>t. /\ ChainTypeOK /\ rpcHead \in 1..Height /\ Height \in Nat /\ Height = Len(chain)
      /\ chain \in Seq(1..Len(block)) /\ floor \in Nat /\ generation \in Nat
      /\ op.s \in Snapshots /\ snapshot \in Snapshots /\ op.s.num \in Nat /\ op.floor \in Nat
      /\ op \in [pc : Phases, kind : {"none", "quote", "check"}, gen : Nat, floor : Nat,
                floorHash : Hash \cup {EmptyHash}, s : Snapshots,
                read : BOOLEAN, reorg : BOOLEAN]
  BY DEF TypeOK, Snapshots, Height, ChainTypeOK
<1>b. \A h \in Handled : Canonical(h) =>
         h \in 1..Len(block) /\ block[h].num \in Nat
         /\ (block[h].num <= floor \/ block[h].num <= rpcHead)
  <2>1. ASSUME NEW h, Canonical(h) PROVE h \in 1..Len(block) /\ block[h].num \in Nat
    <3>1. h \in 1..Len(block)
      BY <1>t, <2>1 DEF Canonical
    <3>2. block[h] \in Blocks
      BY <1>t, <3>1 DEF ChainTypeOK
    <3> QED
      BY <3>1, <3>2 DEF Blocks, Hash
  <2> QED
    BY <2>1 DEF Bounded, InReach
<1>u. UNCHANGED <<chain, block, rpcHead, wire, delivered, floor, generation>>
  BY DEF Call, CallFrame, chainVars, nodeVars, lockVars, ghostVars, QuoteBegin, CheckBegin,
     CallFails, Latest, ObservedHeader, ReadSlot0, ReadLiquidity, ReadTicks, ReadsDone, Verify,
     VerifyPrevious, QuoteCommit, CheckCommit
\* A step that leaves covered and the cached generation alone.
<1>w. ASSUME UNCHANGED <<covered, cachedGeneration>>, Captures(op'),
             snapshot' = snapshot \/ snapshot' = NoSnapshot
      PROVE  WellKnown' /\ Bounded'
  BY <1>u, <1>w, ReflectedWorking
<1>r. ASSUME Reject, covered' = covered PROVE WellKnown' /\ Bounded'
  <2>1. Captures(op')
    BY <1>r DEF Reject, Idle, Captures, Captured
  <2> QED
    BY <1>r, <1>w, <2>1 DEF Reject
<1>n. ASSUME op'.pc = "latest", op'.floor <= floor, UNCHANGED <<covered, cachedGeneration, snapshot>>
      PROVE  WellKnown' /\ Bounded'
  <2>1. Captures(op')
    BY <1>n DEF Captures, Captured
  <2> QED
    BY <1>n, <1>w, <2>1
\* A step that keeps the captured block.
<1>k. ASSUME op.pc \in Captured, op'.gen = op.gen, op'.floor = op.floor, op'.pc \in Captured,
             op'.s.num = op.s.num, op'.s.hash = op.s.hash,
             UNCHANGED <<covered, cachedGeneration, snapshot>>
      PROVE  WellKnown' /\ Bounded'
  <2>1. Captures(op')
    BY <1>k DEF Captures, WellKnown, Bounded, Captured
  <2> QED
    BY <1>k, <1>w, <2>1
\* A step that captures the canonical block at m.
<1>e. ASSUME NEW m \in 1..Height, op.pc \in {"latest", "floor"}, op'.pc = "slot0",
             op'.gen = op.gen, op'.floor = op.floor, op'.s.num = m, op'.s.hash = chain[m],
             m <= floor \/ m <= rpcHead,
             op.gen = generation => \A h \in Handled : Canonical(h) => block[h].num <= m,
             UNCHANGED <<covered, cachedGeneration, snapshot>>
      PROVE  WellKnown' /\ Bounded'
  <2>1. chain[m] \in 1..Len(block) /\ block[chain[m]].num = m
    BY <1>t DEF WellKnown, Numbered
  <2>2. Captures(op')
    BY <1>e, <2>1 DEF Captures, WellKnown, Known, InReach, Captured
  <2> QED
    BY <1>e, <1>w, <2>2
<1>d. ASSUME NEW next \in {"liquidity", "ticks"}, Read(next), covered' = covered,
             op.pc \in {"slot0", "liquidity", "ticks"}
      PROVE  WellKnown' /\ Bounded'
  <2>1. CASE op.s.num <= Height
    <3>1. /\ [op.s EXCEPT !.reads = @ \cup {StateAt(op.s.num)}].num = op.s.num
          /\ [op.s EXCEPT !.reads = @ \cup {StateAt(op.s.num)}].hash = op.s.hash
      BY <1>t DEF Snapshots
    <3>2. /\ op'.s.num = op.s.num /\ op'.s.hash = op.s.hash /\ op'.pc = next
          /\ op'.gen = op.gen /\ op'.floor = op.floor
          /\ UNCHANGED <<snapshot, cachedGeneration>>
      BY <1>d, <1>t, <2>1, <3>1 DEF Read, Working
    <3> QED
      BY <1>d, <1>k, <3>2 DEF Captured
  <2>2. CASE ~(op.s.num <= Height)
    BY <1>d, <1>r, <2>2 DEF Read
  <2> QED
    BY <2>1, <2>2
<1>1. CASE QuoteBegin
  <2>1. PICK old \in BOOLEAN :
          op' = [Idle EXCEPT !.kind = "quote", !.gen = generation, !.floor = floor,
                           !.floorHash = IF active THEN floorHash ELSE EmptyHash,
                           !.pc = IF Reusable(old) THEN "ticks" ELSE "latest",
                           !.s = IF Reusable(old) THEN snapshot ELSE NoSnapshot]
    BY <1>1 DEF QuoteBegin
  <2>2. UNCHANGED <<covered, cachedGeneration, snapshot>>
    BY <1>1 DEF QuoteBegin, CallFrame, pubVars
  <2>3. CASE Reusable(old)
    <3>1. op'.s = snapshot /\ op'.pc = "ticks" /\ op'.floor = floor /\ op'.gen = generation
      BY <2>1, <2>3 DEF Idle
    <3>2. snapshot # NoSnapshot /\ cachedGeneration = generation
      BY <2>3 DEF Reusable
    <3>3. /\ Known(snapshot.hash) /\ covered.num = snapshot.num /\ covered.hash = snapshot.hash
          /\ snapshot.hash # EmptyHash /\ snapshot.num = block[snapshot.hash].num
      BY <1>t, <3>2 DEF WellKnown, Known, HeaderOf, EmptyHash
    <3>4. Captures(op')
      BY <1>t, <3>1, <3>2, <3>3 DEF Captures, Bounded, Handled, Captured
    <3> QED
      BY <1>w, <2>2, <3>4
  <2>4. CASE ~Reusable(old)
    <3>1. op'.pc = "latest" /\ op'.floor = floor
      BY <2>1, <2>4 DEF Idle
    <3> QED
      BY <1>n, <1>t, <2>2, <3>1
  <2> QED
    BY <2>3, <2>4
<1>2. CASE CheckBegin
  <2>1. op'.pc = "latest" /\ op'.floor = floor /\ UNCHANGED <<covered, cachedGeneration, snapshot>>
    BY <1>2 DEF CheckBegin, Idle, CallFrame, pubVars
  <2> QED
    BY <1>n, <1>t, <2>1
<1>3. CASE CallFails
  BY <1>3, <1>r DEF CallFails, CallFrame, pubVars
<1>4. CASE Latest
  <2>c. covered' = covered /\ op.pc = "latest"
    BY <1>4 DEF Latest, CallFrame, pubVars
  <2>g. op.gen = generation => op.floor = floor
    BY <2>c DEF Fence
  <2>1. CASE rpcHead >= op.floor /\ ~Reject
    <3>1. /\ [NoSnapshot EXCEPT !.num = rpcHead, !.hash = chain[rpcHead]].num = rpcHead
          /\ [NoSnapshot EXCEPT !.num = rpcHead, !.hash = chain[rpcHead]].hash = chain[rpcHead]
      BY DEF NoSnapshot
    <3>2. /\ op'.pc = "slot0" /\ op'.gen = op.gen /\ op'.floor = op.floor
          /\ op'.s.num = rpcHead /\ op'.s.hash = chain[rpcHead]
          /\ UNCHANGED <<cachedGeneration, snapshot>>
      <4>1. ~(rpcHead < op.floor)
        BY <1>t, <2>1
      <4>2. /\ op' = [op EXCEPT !.pc = "slot0",
                               !.s = [NoSnapshot EXCEPT !.num = rpcHead, !.hash = chain[rpcHead]]]
            /\ Working
        BY <1>4, <4>1 DEF Latest
      <4> QED
        BY <1>t, <3>1, <4>2 DEF Working
    <3>3. op.gen = generation => \A h \in Handled : Canonical(h) => block[h].num <= rpcHead
      BY <1>b, <1>t, <2>1, <2>g
    <3> QED
      BY <1>e, <1>t, <2>c, <3>2, <3>3
  <2>2. CASE ~(rpcHead >= op.floor) /\ ~Reject
    <3>1. /\ op'.pc = "floor" /\ op'.gen = op.gen /\ op'.floor = op.floor
          /\ UNCHANGED <<cachedGeneration, snapshot>>
      BY <1>4, <1>t, <2>2 DEF Latest, Goto, Working
    <3>2. op.floor <= floor
      BY <2>c DEF WellKnown
    <3>3. op.gen = generation => \A h \in Handled : Canonical(h) => block[h].num <= op.floor
      BY <1>b, <1>t, <2>2, <2>g
    <3>4. Captures(op')
      BY <3>1, <3>2, <3>3 DEF Captures, Captured
    <3> QED
      BY <1>w, <2>c, <3>1, <3>4
  <2> QED
    BY <1>r, <2>1, <2>2, <2>c
<1>5. CASE ObservedHeader
  <2>c. covered' = covered /\ op.pc = "floor"
    BY <1>5 DEF ObservedHeader, CallFrame, pubVars
  <2>1. CASE HeaderIs(op.floor, op.floorHash)
    <3>1. /\ [NoSnapshot EXCEPT !.num = op.floor, !.hash = op.floorHash].num = op.floor
          /\ [NoSnapshot EXCEPT !.num = op.floor, !.hash = op.floorHash].hash = op.floorHash
      BY DEF NoSnapshot
    <3>2. op.floor \in 1..Height /\ op.floorHash = chain[op.floor]
      BY <1>t, <2>1, <2>c DEF Fence, HeaderIs
    <3>3. /\ op'.pc = "slot0" /\ op'.gen = op.gen /\ op'.floor = op.floor
          /\ op'.s.num = op.floor /\ op'.s.hash = op.floorHash
          /\ UNCHANGED <<cachedGeneration, snapshot>>
      BY <1>5, <1>t, <2>1, <3>1 DEF ObservedHeader, Working
    <3>4. op.floor <= floor
      BY <2>c DEF WellKnown
    <3>5. op.gen = generation => \A h \in Handled : Canonical(h) => block[h].num <= op.floor
      BY <2>c DEF Bounded
    <3> QED
      BY <1>e, <2>c, <3>2, <3>3, <3>4, <3>5
  <2>2. CASE ~HeaderIs(op.floor, op.floorHash)
    BY <1>5, <1>r, <2>2, <2>c DEF ObservedHeader
  <2> QED
    BY <2>1, <2>2
<1>6. CASE ReadSlot0 \/ ReadLiquidity \/ ReadTicks
  BY <1>6, <1>d DEF ReadSlot0, ReadLiquidity, ReadTicks, CallFrame, pubVars
<1>7. CASE ReadsDone
  <2>1. covered' = covered /\ op.pc = "ticks"
    BY <1>7 DEF ReadsDone, CallFrame, pubVars
  <2>2. \/ Reject
        \/ /\ op'.s = op.s /\ op'.gen = op.gen /\ op'.floor = op.floor
           /\ op'.pc \in {"verify", "commit"} /\ UNCHANGED <<snapshot, cachedGeneration>>
    BY <1>7, <1>t DEF ReadsDone, Goto, Working
  <2> QED
    BY <1>k, <1>r, <2>1, <2>2 DEF Captured
<1>8. CASE Verify
  <2>1. covered' = covered /\ op.pc = "verify"
    BY <1>8 DEF Verify, CallFrame, pubVars
  <2>2. CASE HeaderIs(op.s.num, op.s.hash)
    <3>1. /\ op'.s = op.s /\ op'.gen = op.gen /\ op'.floor = op.floor
          /\ op'.pc \in {"previous", "commit"} /\ UNCHANGED <<snapshot, cachedGeneration>>
      BY <1>8, <1>t, <2>2 DEF Verify, Working
    <3> QED
      BY <1>k, <2>1, <3>1 DEF Captured
  <2>3. CASE ~HeaderIs(op.s.num, op.s.hash)
    BY <1>8, <1>r, <2>1, <2>3 DEF Verify
  <2> QED
    BY <2>2, <2>3
<1>9. CASE VerifyPrevious
  <2>1. covered' = covered /\ op.pc = "previous"
    BY <1>9 DEF VerifyPrevious, CallFrame, pubVars
  <2>2. \/ Reject
        \/ /\ op'.s = op.s /\ op'.gen = op.gen /\ op'.floor = op.floor
           /\ op'.pc = "commit" /\ UNCHANGED <<snapshot, cachedGeneration>>
    BY <1>9, <1>t DEF VerifyPrevious, Working
  <2> QED
    BY <1>k, <1>r, <2>1, <2>2 DEF Captured
<1>10. CASE QuoteCommit \/ CheckCommit
  <2>1. CASE op.gen # generation
    <3>1. covered' = covered /\ Reject
      BY <1>10, <2>1 DEF QuoteCommit, CheckCommit
    <3> QED
      BY <1>r, <3>1
  <2>2. CASE op.gen = generation
    <3>1. /\ op.pc = "commit" /\ op' = Idle /\ covered' = HeaderOf(op.s)
          /\ snapshot' = op.s \/ snapshot' = NoSnapshot
      BY <1>10, <2>2 DEF QuoteCommit, CheckCommit, Reject
    <3> QED
      BY <1>u, <2>2, <3>1, ReflectedCommit
  <2> QED
    BY <2>1, <2>2
<1> QED
  BY <1>1, <1>2, <1>3, <1>4, <1>5, <1>6, <1>7, <1>8, <1>9, <1>10 DEF Call

-----------------------------------------------------------------------------
LEMMA ReflectedStep ==
  ASSUME HeadRegress = FALSE, MaxReturns = 0, TypeOK, Fence, WellKnown, Bounded, [Next]_vars
  PROVE  WellKnown' /\ Bounded'
<1>t. /\ rpcHead \in Nat /\ Height \in Nat /\ floor \in Nat /\ generation \in Nat
      /\ returns \in Nat
      /\ \A i \in 1..Len(wire) :
            wire[i].hash \in 1..Len(block) /\ wire[i].num = block[wire[i].hash].num
  BY DEF TypeOK, WellKnown, Known, ChainTypeOK, Height
<1>f. ASSUME UNCHANGED <<chain, block, covered, op, snapshot, cachedGeneration, wire, floor,
                         generation, delivered>>,
             rpcHead' \in Nat, rpcHead' >= rpcHead
      PROVE  WellKnown' /\ Bounded'
  <2>1. /\ floor' >= floor /\ generation' >= generation /\ floor' \in Nat /\ generation' \in Nat
        /\ \A h \in delivered' : h \in delivered
        /\ \A i \in 1..Len(wire') :
              wire'[i].hash \in 1..Len(block) /\ wire'[i].num = block[wire'[i].hash].num
    BY <1>f, <1>t
  <2> QED
    BY <1>f, <2>1, ReflectedOutside
<1>1. CASE NewBlock
  BY <1>1, ReflectedNewBlock
<1>2. CASE OldBlock
  BY <1>2, <1>t DEF OldBlock, Return
<1>3. CASE HeadMoves
  <2>1. rpcHead' \in 1..Height /\ rpcHead' > rpcHead
    BY <1>3 DEF HeadMoves
  <2> QED
    BY <1>3, <1>f, <1>t, <2>1 DEF HeadMoves, chainVars, lockVars, pubVars, gateVars, ghostVars
<1>4. ASSUME NEW r \in Runners, RunStep(r) PROVE WellKnown' /\ Bounded'
  BY <1>4, ReflectedSession
<1>5. CASE Changes \/ ReceiveChange
  BY <1>5, <1>f, <1>t DEF Changes, ReceiveChange, chainVars, nodeVars, pubVars, gateVars
<1>6. CASE Call
  BY <1>6, ReflectedCalls
<1>7. CASE UNCHANGED vars
  BY <1>7, <1>f, <1>t DEF vars, chainVars, nodeVars, lockVars, pubVars, gateVars, ghostVars
<1> QED
  BY <1>1, <1>2, <1>3, <1>4, <1>5, <1>6, <1>7 DEF Next

\* As long as the reported head does not go back and no dropped block returns, a snapshot
\* that QuotePair may use again reflects every handled log of the chain: run may skip
\* the logs of the covered block (state_cache.go, `covered`) because every capture that is
\* accepted later, under whatever floor, is of that block or of a later one.
THEOREM LogsSafe ==
  ASSUME HeadRegress = FALSE, MaxReturns = 0
  PROVE  Spec => []LogsReflected
<1>1. Init => WellKnown /\ Bounded
  BY ReflectedInit
<1>2. TypeOK /\ Fence /\ (WellKnown /\ Bounded) /\ [Next]_vars => (WellKnown /\ Bounded)'
  BY ReflectedStep
<1>3. Bounded => LogsReflected
  BY DEF Bounded, LogsReflected, Handled, Reusable
<1> QED
  BY <1>1, <1>2, <1>3, TypeCorrect, PTL DEF Spec
=============================================================================
