--------------------------- MODULE RecoveryProofs ---------------------------
(***************************************************************************)
(* Proofs about Recovery, for every block tree, every content of the       *)
(* blocks and any number of crashes, shutdowns and unreadable blocks.      *)
(***************************************************************************)
EXTENDS Recovery, TotalsProofs

\* Each write of the registry gives a database again.
LEMMA PutType ==
  ASSUME NEW d \in Database, NEW id \in Id, NEW e \in Entry
  PROVE  putSP(d, id, e) \in Database
BY DEF putSP, Database, Entry

\* updateSP gives a database again.
LEMMA UpdateType ==
  ASSUME NEW d \in Database, NEW id \in Id, NEW e \in Entry
  PROVE  updateSP(d, id, e) \in Database
BY DEF updateSP, Database, Entry

\* A grant gives an entry again.
LEMMA GrantType ==
  ASSUME NEW e \in Entry, NEW blk \in Block
  PROVE  [e EXCEPT !.update_block = blk] \in Entry
BY DEF Entry, BlockHash

\* popBlock gives a database again.
LEMMA PopType ==
  ASSUME NEW d \in Database, NEW blk \in Block
  PROVE  popBlock(d, blk) \in Database
<1> DEFINE touched == TouchedBy(d, blk)
           created == {id \in touched : d.s[id].creation_block = blk}
           s == [id \in Id |-> IF id \in created THEN None
                               ELSE IF id \in touched THEN d.b[<<blk, id>>]
                               ELSE d.s[id]]
           t == [x \in TxHash |->
                   IF \E id \in created : d.s[id].txid = x THEN None
                   ELSE d.t[x]]
           b == [k \in BlockHash \X Id |->
                   IF k[1] = blk /\ k[2] \in touched \ created THEN None
                   ELSE d.b[k]]
<1>1. s \in [Id -> Entry \cup {None}]
  <2>1. d.s \in [Id -> Entry \cup {None}]
        /\ d.b \in [BlockHash \X Id -> Entry \cup {None}]
    BY DEF Database
  <2>2. \A id \in Id : <<blk, id>> \in BlockHash \X Id
    BY DEF BlockHash
  <2>3. \A id \in Id : d.b[<<blk, id>>] \in Entry \cup {None}
    BY <2>1, <2>2
  <2> QED BY <2>1, <2>3
<1>2. t \in [TxHash -> Id \cup {None}]
  BY DEF Database
<1>3. b \in [BlockHash \X Id -> Entry \cup {None}]
  BY DEF Database
<1>4. popBlock(d, blk) = [d EXCEPT !.s = s, !.t = t, !.b = b]
  BY DEF popBlock
<1> HIDE DEF s, t, b
<1> QED
  BY <1>1, <1>2, <1>3, <1>4 DEF Database

\* setWatermark gives a database again.
LEMMA WatermarkType ==
  ASSUME NEW d \in Database, NEW blk \in Block
  PROVE  setWatermark(d, blk) \in Database
BY DEF setWatermark, Database, BlockHash

\* Clear() leaves a database.
LEMMA EmptyType == EmptyDatabase \in Database
BY DEF EmptyDatabase, Database, BlockHash

-----------------------------------------------------------------------------
(* The inductive invariants.                                               *)

\* Where the handlers can be: a block is rolled back or processed only above
\* Genesis, and one waits for its connection only on top of the tip.
ControlInv ==
  /\ pc \in {"read", "txs", "popmark", "walkmark"} => at # Genesis
  /\ pc \in {"read", "txs", "save", "prune", "watermark", "next"} => at \in Active
  /\ pc = "save" => idx \in 1 .. 4
  /\ connecting # None => /\ connecting # Genesis /\ Parent[connecting] = tip
                          /\ pc \notin {"idle", "down"}

\* A state file named after a block holds the state of that block.
FilesFaithful ==
  \A b \in Block : /\ files[b].balances \in {None, Torn, b}
                   /\ files[b].register \in {None, Torn, b}

\* What the maps hold at every point of the handlers.
MemoryInv ==
  /\ pc \in {"read", "txs"} => maps = Parent[at]
  /\ pc \in {"save", "prune", "watermark", "next"} => maps = at
  /\ pc = "idle" /\ reorgRecoveryMode = 0 => maps = tip

TypeInv == TypeOK /\ ControlInv

-----------------------------------------------------------------------------
(* Type correctness and control.                                           *)

\* What the proofs need of the block tree.
LEMMA TreeFacts ==
  /\ Genesis \in Block /\ None \notin Block
  /\ Parent \in [Block \ {Genesis} -> Block]
  /\ Height \in [Block -> Nat]
  /\ \A b \in Block : /\ Branch[b] \subseteq Block
                      /\ b \in Branch[b] /\ Genesis \in Branch[b]
  /\ \A b \in Block : \A c \in Branch[b] \ {Genesis} : Parent[c] \in Branch[b]
  /\ \A b \in Block : Txs[b] \in Seq(TxRecord)
  /\ MaxFailures \in Nat
<1>1. ASSUME NEW b \in Block PROVE b \in Branch[b]
  <2>1. CASE b = Genesis
    BY <2>1, BlockTree
  <2>2. CASE b # Genesis
    <3>1. Branch[b] = Branch[Parent[b]] \cup {b}
      BY <2>2, BlockTree
    <3> QED
      BY <3>1
  <2> QED
    BY <2>1, <2>2
<1>2. \A b \in Block : Branch[b] \subseteq Block
  BY BlockTree
<1>3. /\ Genesis \in Block /\ None \notin Block
      /\ Parent \in [Block \ {Genesis} -> Block] /\ Height \in [Block -> Nat]
  BY BlockTree
<1>4. /\ \A b \in Block : Genesis \in Branch[b]
      /\ \A b \in Block : \A c \in Branch[b] \ {Genesis} : Parent[c] \in Branch[b]
  BY BlockTree
<1>5. \A b \in Block : Txs[b] \in Seq(TxRecord)
  BY RecoveryAssumption
<1>6. MaxFailures \in Nat
  BY RecoveryAssumption
<1> QED
  BY <1>1, <1>2, <1>3, <1>4, <1>5, <1>6

\* The creation of the vesting tokens and the update of their entry keep the
\* types.
LEMMA BlockBeginType ==
  ASSUME NEW b \in Block, BlockBegin(b), db \in Database, next_spid \in Nat
  PROVE  db' \in Database /\ next_spid' \in Nat
<1> DEFINE creates == Height[b] = MSC_VESTING_CREATION_BLOCK
           created == IF creates THEN putSP(db, next_spid, CreatedVesting) ELSE db
<1>1. CreatedVesting \in Entry
  BY RecoveryAssumption DEF CreatedVesting, Entry, TxHash, BlockHash
<1>2. /\ creates => next_spid \in Id
      /\ next_spid' = IF creates THEN next_spid + 1 ELSE next_spid
      /\ db' = created \/ db' = VestingTokens(created)
  BY DEF BlockBegin
<1>3. created \in Database
  BY <1>1, <1>2, PutType
<1> HIDE DEF created
<1>4. VestingTokens(created) \in Database
  <2>1. TL_PROPERTY_VESTING \in Id
    BY SPInfoAssumption DEF TL_PROPERTY_VESTING, Id, FirstId
  <2>2. CASE created.s[TL_PROPERTY_VESTING] = None
    BY <1>3, <2>2 DEF VestingTokens
  <2>3. CASE created.s[TL_PROPERTY_VESTING] # None
    <3>1. created.s[TL_PROPERTY_VESTING] \in Entry
      BY <1>3, <2>1, <2>3 DEF Database
    <3> QED
      BY <1>3, <2>1, <2>3, <3>1, UpdateType DEF VestingTokens
  <2> QED
    BY <2>2, <2>3
<1> QED
  BY <1>2, <1>3, <1>4

\* Before the first start of the node the types hold.
LEMMA InitTypeInv == Init => TypeInv
<1> SUFFICES ASSUME Init PROVE TypeInv
  OBVIOUS
<1>1. StoredOK
  <2>1. NoFiles \in StateFiles
    BY DEF StateFiles, NoFiles, Saved
  <2>2. files \in [Block -> StateFiles]
    BY <2>1 DEF Init
  <2>3. txlist \in [Tx -> RecordOK]
    BY DEF Init, NoRecords, RecordOK
  <2> QED
    BY <2>2, <2>3, EmptyType DEF Init, StoredOK
<1>2. ChainOK /\ ProcessOK /\ MemoryOK /\ ReorgOK
  <2>1. ChainOK
    BY TreeFacts DEF Init, ChainOK
  <2>2. ProcessOK
    <3>1. {shutdown, broken, reparsed} \subseteq BOOLEAN
      BY DEF Init
    <3>2. failures \in 0 .. MaxFailures
      BY TreeFacts DEF Init
    <3> QED
      BY <3>1, <3>2 DEF ProcessOK
  <2>3. MemoryOK /\ ReorgOK
    BY TreeFacts DEF Init, MemoryOK, ReorgOK, Part, FirstId
  <2> QED
    BY <2>1, <2>2, <2>3
<1>3. ControlOK /\ ControlInv
  BY TreeFacts DEF Init, ControlOK, ControlInv, Phase
<1> QED
  BY <1>1, <1>2, <1>3 DEF TypeInv, TypeOK

\* Every handler and every event of the base node preserves types and control.
LEMMA StepTypeInv == TypeInv /\ [Next]_vars => TypeInv'
<1> SUFFICES ASSUME TypeInv, [Next]_vars PROVE TypeInv'
  OBVIOUS
<1>0. /\ ChainOK /\ ProcessOK /\ MemoryOK /\ ReorgOK /\ StoredOK
      /\ ControlOK /\ ControlInv
  BY DEF TypeInv, TypeOK
<1> USE <1>0 DEF ChainOK, ProcessOK, MemoryOK, ReorgOK, ControlOK, ControlInv,
                 Phase, Active
<1>1. CASE ProcessTx
  <2>0. /\ pc = "txs" /\ idx <= Len(Txs[at]) /\ idx' = idx + 1
        /\ next_spid' \in {next_spid, next_spid + 1}
        /\ UNCHANGED <<tip, known, disk, process, maps, volume,
                       reorgRecoveryMode, reorgRecoveryMaxHeight, pc, at, base,
                       connecting>>
    BY ONLY <1>1 DEF ProcessTx, chain, reorg
  <2>1. ChainOK' /\ ProcessOK' /\ MemoryOK' /\ ReorgOK'
    <3>1. ChainOK' /\ ProcessOK'
      BY <2>0 DEF process
    <3>2. MemoryOK' /\ ReorgOK'
      BY <2>0
    <3> QED
      BY <3>1, <3>2
  <2>2. StoredOK'
    <3> DEFINE tx == Txs[at][idx]
    <3>1. tx \in TxRecord
      <4>1. Txs[at] \in Seq(TxRecord) /\ idx \in 1 .. Len(Txs[at])
        BY <2>0, TreeFacts
      <4> QED
        BY ONLY <4>1
    <3>2. tx.txid \in Tx /\ tx.sender \in Issuer /\ tx.manual \in BOOLEAN
          /\ Height[at] \in Nat
      BY <3>1, TreeFacts DEF TxRecord
    <3>3. /\ files' = files
          /\ \/ /\ next_spid \in Id
                /\ db' = putSP(db, next_spid,
                           [txid |-> tx.txid, issuer |-> tx.sender,
                            manual |-> tx.manual,
                            creation_block |-> at, update_block |-> at])
             \/ /\ RegistryAllows(tx)
                /\ db' = updateSP(db, tx.property,
                           [db.s[tx.property] EXCEPT !.update_block = at])
             \/ db' = db
          /\ txlist' = [txlist EXCEPT
                          ![tx.txid] = <<0, PKT_ERROR - 100, Height[at]>>]
      BY <1>1 DEF ProcessTx
    <3> HIDE DEF tx
    <3>4. db \in Database /\ txlist \in [Tx -> RecordOK]
      BY DEF StoredOK
    <3>5. txlist' \in [Tx -> RecordOK]
      <4>1. <<0, PKT_ERROR - 100, Height[at]>> \in RecordOK
        BY <3>2 DEF RecordOK
      <4> QED
        BY <3>2, <3>3, <3>4, <4>1
    <3>6. db' \in Database
      <4>1. CASE next_spid \in Id
               /\ db' = putSP(db, next_spid,
                           [txid |-> tx.txid, issuer |-> tx.sender,
                            manual |-> tx.manual,
                            creation_block |-> at, update_block |-> at])
        <5> DEFINE e == [txid |-> tx.txid, issuer |-> tx.sender,
                         manual |-> tx.manual,
                         creation_block |-> at, update_block |-> at]
        <5>1. e \in Entry
          BY <3>2 DEF Entry, TxHash, BlockHash
        <5> HIDE DEF e
        <5> QED
          BY <4>1, <5>1, <3>4, PutType DEF e
      <4>2. CASE RegistryAllows(tx)
               /\ db' = updateSP(db, tx.property,
                           [db.s[tx.property] EXCEPT !.update_block = at])
        <5> DEFINE e == [db.s[tx.property] EXCEPT !.update_block = at]
        <5>1. tx.property \in Id /\ db.s[tx.property] \in Entry
          BY <4>2, <3>4 DEF RegistryAllows, Database
        <5>2. e \in Entry
          BY <5>1, GrantType
        <5> HIDE DEF e
        <5> QED
          BY <4>2, <5>1, <5>2, <3>4, UpdateType DEF e
      <4> QED
        BY <4>1, <4>2, <3>3, <3>4
    <3> QED
      BY <3>3, <3>5, <3>6 DEF StoredOK
  <2>3. ControlOK' /\ ControlInv'
    BY <2>0
  <2> QED
    BY <2>1, <2>2, <2>3 DEF TypeInv, TypeOK
<1>2. CASE BlockEnd
  <2>1. ChainOK' /\ ProcessOK' /\ MemoryOK' /\ ReorgOK'
    BY <1>2, TreeFacts DEF BlockEnd, chain, process, memory, reorg, stored,
       control, Apply, Part
  <2>2. StoredOK'
    BY <1>2, TreeFacts DEF BlockEnd, chain, process, memory, reorg, stored,
       control, StoredOK
  <2>3. ControlOK' /\ ControlInv'
    BY <1>2, TreeFacts DEF BlockEnd, chain, process, memory, reorg, stored,
       control
  <2> QED
    BY <2>1, <2>2, <2>3 DEF TypeInv, TypeOK
<1>3. CASE WriteStateFile
  <2>1. ChainOK' /\ ProcessOK' /\ MemoryOK' /\ ReorgOK'
    BY <1>3, TreeFacts DEF WriteStateFile, chain, process, memory, reorg,
       stored, control
  <2>2. StoredOK'
    <3>1. files[at] \in StateFiles
      BY DEF StoredOK
    <3>2. idx \in 1 .. 4
      BY <1>3 DEF WriteStateFile
    <3>3. [files[at] EXCEPT ![StateFile[idx]] = InMemory[StateFile[idx]]]
             \in StateFiles
      <4>1. CASE idx = 1
        BY <4>1, <3>1 DEF StateFile, InMemory, StateFiles, Saved
      <4>2. CASE idx = 2
        BY <4>2, <3>1 DEF StateFile, InMemory, StateFiles, Saved
      <4>3. CASE idx = 3
        BY <4>3, <3>1 DEF StateFile, InMemory, StateFiles, Saved
      <4>4. CASE idx = 4
        BY <4>4, <3>1 DEF StateFile, InMemory, StateFiles, Saved
      <4> QED
        BY <4>1, <4>2, <4>3, <4>4, <3>2
    <3>4. files' = [files EXCEPT ![at] =
                      [files[at] EXCEPT ![StateFile[idx]]
                                          = InMemory[StateFile[idx]]]]
      BY <1>3 DEF WriteStateFile, StoredOK
    <3> QED
      BY <1>3, <3>3, <3>4 DEF WriteStateFile, StoredOK
  <2>3. ControlOK' /\ ControlInv'
    <3>1. /\ pc = "save" /\ idx' = idx + 1 /\ UNCHANGED <<tip, at, base, connecting>>
          /\ pc' = IF idx = Len(StateFile) THEN "prune" ELSE "save"
      BY ONLY <1>3 DEF WriteStateFile, chain
    <3>2. Len(StateFile) = 4
      BY ONLY DEF StateFile
    <3> QED
      BY <3>1, <3>2
  <2> QED
    BY <2>1, <2>2, <2>3 DEF TypeInv, TypeOK
<1>4. CASE PruneStateFiles
  <2>1. ChainOK' /\ ProcessOK' /\ MemoryOK' /\ ReorgOK'
    BY <1>4, TreeFacts DEF PruneStateFiles, chain, process, memory, reorg,
       stored, control
  <2>2. StoredOK'
    BY <1>4, TreeFacts DEF PruneStateFiles, chain, process, memory, reorg,
       stored, control, StoredOK, NoFiles, StateFiles, Saved
  <2>3. ControlOK' /\ ControlInv'
    BY <1>4, TreeFacts DEF PruneStateFiles, chain, process, memory, reorg,
       stored, control
  <2> QED
    BY <2>1, <2>2, <2>3 DEF TypeInv, TypeOK
<1>5. CASE SetWatermark
  <2>1. ChainOK' /\ ProcessOK' /\ MemoryOK' /\ ReorgOK'
    BY <1>5, TreeFacts DEF SetWatermark, chain, process, memory, reorg,
       stored, control
  <2>2. StoredOK'
    BY <1>5, TreeFacts, WatermarkType DEF SetWatermark, chain, process,
       memory, reorg, stored, control, StoredOK
  <2>3. ControlOK' /\ ControlInv'
    BY <1>5, TreeFacts DEF SetWatermark, chain, process, memory, reorg,
       stored, control
  <2> QED
    BY <2>1, <2>2, <2>3 DEF TypeInv, TypeOK
<1>6. CASE FindWatermark
  <2>1. ChainOK' /\ ProcessOK' /\ MemoryOK' /\ ReorgOK'
    BY <1>6, TreeFacts DEF FindWatermark, chain, process, memory, reorg,
       stored, control
  <2>2. StoredOK'
    BY <1>6, TreeFacts, WatermarkType DEF FindWatermark, chain, process,
       memory, reorg, stored, control, StoredOK
  <2>3. ControlOK' /\ ControlInv'
    BY <1>6, TreeFacts DEF FindWatermark, chain, process, memory, reorg,
       stored, control, StoredOK, Database
  <2> QED
    BY <2>1, <2>2, <2>3 DEF TypeInv, TypeOK
<1>7. CASE PopInactive
  <2>1. ChainOK' /\ ProcessOK' /\ MemoryOK' /\ ReorgOK'
    BY <1>7, TreeFacts DEF PopInactive, PopAnd, chain, process, memory, reorg,
       stored, control
  <2>2. StoredOK'
    BY <1>7, TreeFacts, PopType DEF PopInactive, PopAnd, chain, process,
       memory, reorg, stored, control, StoredOK
  <2>3. ControlOK' /\ ControlInv'
    BY <1>7, TreeFacts DEF PopInactive, PopAnd, chain, process, memory, reorg,
       stored, control
  <2> QED
    BY <2>1, <2>2, <2>3 DEF TypeInv, TypeOK
<1>8. CASE PopMark
  <2>1. ChainOK' /\ ProcessOK' /\ MemoryOK' /\ ReorgOK'
    BY <1>8, TreeFacts DEF PopMark, chain, process, memory, reorg, stored,
       control
  <2>2. StoredOK'
    BY <1>8, TreeFacts, WatermarkType DEF PopMark, chain, process, memory,
       reorg, stored, control, StoredOK
  <2>3. ControlOK' /\ ControlInv'
    BY <1>8, TreeFacts DEF PopMark, chain, process, memory, reorg, stored,
       control
  <2> QED
    BY <2>1, <2>2, <2>3 DEF TypeInv, TypeOK
<1>9. CASE LoadStateFiles
  <2>1. ChainOK' /\ ProcessOK' /\ MemoryOK' /\ ReorgOK'
    BY <1>9, TreeFacts DEF LoadStateFiles, chain, process, memory, reorg,
       stored, control, Persisted, Complete, StoredOK, StateFiles, Saved,
       FileType, Part
  <2>2. StoredOK'
    BY <1>9, TreeFacts DEF LoadStateFiles, chain, process, memory, reorg,
       stored, control, StoredOK
  <2>3. ControlOK' /\ ControlInv'
    BY <1>9, TreeFacts DEF LoadStateFiles, chain, process, memory, reorg,
       stored, control, Persisted
  <2> QED
    BY <2>1, <2>2, <2>3 DEF TypeInv, TypeOK
<1>10. CASE LoadFails
  <2>1. ChainOK' /\ ProcessOK' /\ MemoryOK' /\ ReorgOK'
    BY <1>10, TreeFacts DEF LoadFails, chain, process, memory, reorg, stored,
       control, Persisted, StoredOK, StateFiles, Saved, Part
  <2>2. StoredOK'
    BY <1>10, TreeFacts DEF LoadFails, chain, process, memory, reorg, stored,
       control, StoredOK
  <2>3. ControlOK' /\ ControlInv'
    BY <1>10, TreeFacts DEF LoadFails, chain, process, memory, reorg, stored,
       control, Persisted
  <2> QED
    BY <2>1, <2>2, <2>3 DEF TypeInv, TypeOK
<1>11. CASE NoFilesFound
  <2>1. ChainOK' /\ ProcessOK' /\ MemoryOK' /\ ReorgOK'
    BY <1>11, TreeFacts DEF NoFilesFound, chain, process, memory, reorg,
       stored, control
  <2>2. StoredOK'
    BY <1>11, TreeFacts DEF NoFilesFound, chain, process, memory, reorg,
       stored, control, StoredOK
  <2>3. ControlOK' /\ ControlInv'
    BY <1>11, TreeFacts DEF NoFilesFound, chain, process, memory, reorg,
       stored, control
  <2> QED
    BY <2>1, <2>2, <2>3 DEF TypeInv, TypeOK
<1>12. CASE WalkBack
  <2>1. ChainOK' /\ ProcessOK' /\ MemoryOK' /\ ReorgOK'
    BY <1>12, TreeFacts DEF WalkBack, PopAnd, chain, process, memory, reorg,
       stored, control
  <2>2. StoredOK'
    BY <1>12, TreeFacts, PopType DEF WalkBack, PopAnd, chain, process, memory,
       reorg, stored, control, StoredOK
  <2>3. ControlOK' /\ ControlInv'
    BY <1>12, TreeFacts DEF WalkBack, PopAnd, chain, process, memory, reorg,
       stored, control
  <2> QED
    BY <2>1, <2>2, <2>3 DEF TypeInv, TypeOK
<1>13. CASE WalkMark
  <2>1. ChainOK' /\ ProcessOK' /\ MemoryOK' /\ ReorgOK'
    BY <1>13, TreeFacts DEF WalkMark, chain, process, memory, reorg, stored,
       control
  <2>2. StoredOK'
    BY <1>13, TreeFacts, WatermarkType DEF WalkMark, chain, process, memory,
       reorg, stored, control, StoredOK
  <2>3. ControlOK' /\ ControlInv'
    BY <1>13, TreeFacts DEF WalkMark, chain, process, memory, reorg, stored,
       control
  <2> QED
    BY <2>1, <2>2, <2>3 DEF TypeInv, TypeOK
<1>14. CASE ClearAllState
  <2>1. ChainOK' /\ ProcessOK' /\ MemoryOK' /\ ReorgOK'
    <3>1. {shutdown', broken'} \subseteq BOOLEAN /\ failures' \in 0 .. MaxFailures
      BY <1>14 DEF ClearAllState
    <3>2. reparsed' \in BOOLEAN
      BY <1>14 DEF ClearAllState
    <3>3. ChainOK' /\ MemoryOK' /\ ReorgOK'
      BY <1>14, TreeFacts DEF ClearAllState, chain, reorg, Part, FirstId
    <3> QED
      BY <3>1, <3>2, <3>3
  <2>2. StoredOK'
    BY <1>14, TreeFacts, EmptyType DEF ClearAllState, chain, process, memory,
       reorg, stored, control, StoredOK, NoRecords, RecordOK
  <2>3. ControlOK' /\ ControlInv'
    BY <1>14, TreeFacts DEF ClearAllState, chain, process, memory, reorg,
       stored, control
  <2> QED
    BY <2>1, <2>2, <2>3 DEF TypeInv, TypeOK
<1>15. CASE ScanBlock
  <2>0. db' \in Database /\ next_spid' \in Nat
    <3>1. \E b \in Active : BlockBegin(b)
      BY <1>15 DEF ScanBlock
    <3> QED
      BY <3>1, TreeFacts, BlockBeginType DEF StoredOK
  <2>1. ChainOK' /\ ProcessOK' /\ MemoryOK' /\ ReorgOK'
    BY <1>15, <2>0, TreeFacts DEF ScanBlock, chain, process, reorg
  <2>2. StoredOK'
    BY <1>15, <2>0 DEF ScanBlock, StoredOK
  <2>3. ControlOK' /\ ControlInv'
    BY <1>15, TreeFacts DEF ScanBlock, chain
  <2> QED
    BY <2>1, <2>2, <2>3 DEF TypeInv, TypeOK
<1>23. CASE ReadBlockFromDisk
  <2>1. ChainOK' /\ ProcessOK' /\ MemoryOK' /\ ReorgOK'
    BY <1>23 DEF ReadBlockFromDisk, chain, process, memory, reorg
  <2>2. StoredOK'
    BY <1>23 DEF ReadBlockFromDisk, stored, StoredOK
  <2>3. ControlOK' /\ ControlInv'
    BY <1>23 DEF ReadBlockFromDisk, chain
  <2> QED
    BY <2>1, <2>2, <2>3 DEF TypeInv, TypeOK
<1>24. CASE ScanEnds
  <2>0. db' \in Database /\ next_spid' \in Nat
    <3>1. \/ connecting # None /\ BlockBegin(connecting)
          \/ UNCHANGED <<db, next_spid>>
      BY <1>24 DEF ScanEnds, Process
    <3> QED
      BY <3>1, BlockBeginType DEF StoredOK
  <2>1. ChainOK' /\ MemoryOK' /\ ReorgOK'
    BY <1>24, <2>0, TreeFacts DEF ScanEnds, Process, reorg
  <2>2. ProcessOK'
    <3>1. {shutdown', reparsed'} \subseteq BOOLEAN
      BY <1>24 DEF ScanEnds
    <3>2. broken' \in BOOLEAN
      BY <1>24 DEF ScanEnds
    <3>3. failures' \in 0 .. MaxFailures
      BY <1>24, TreeFacts DEF ScanEnds, MayFail
    <3> QED
      BY <3>1, <3>2, <3>3
  <2>3. StoredOK'
    BY <1>24, <2>0 DEF ScanEnds, StoredOK
  <2>4. ControlOK' /\ ControlInv'
    BY <1>24, TreeFacts DEF ScanEnds, Process
  <2> QED
    BY <2>1, <2>2, <2>3, <2>4 DEF TypeInv, TypeOK
<1>16. CASE Start
  <2>1. ChainOK' /\ ProcessOK' /\ MemoryOK' /\ ReorgOK'
    BY <1>16, TreeFacts DEF Start, chain, process, memory, reorg, stored,
       control
  <2>2. StoredOK'
    BY <1>16, TreeFacts DEF Start, chain, process, memory, reorg, stored,
       control, StoredOK
  <2>3. ControlOK' /\ ControlInv'
    BY <1>16, TreeFacts DEF Start, chain, process, memory, reorg, stored,
       control
  <2> QED
    BY <2>1, <2>2, <2>3 DEF TypeInv, TypeOK
<1>17. CASE DisconnectTip
  <2>1. ChainOK' /\ ProcessOK' /\ MemoryOK' /\ ReorgOK'
    <3>1. /\ tip # Genesis /\ tip' = Parent[tip] /\ Flush(Parent[tip], known)
          /\ disc_begin(tip) /\ UNCHANGED <<known, process, memory>>
      BY ONLY <1>17 DEF DisconnectTip
    <3>2. Parent[tip] \in Block /\ Height[tip] \in Nat
      BY <3>1, TreeFacts
    <3>3. disk' \in [tip : Block, known : SUBSET Block]
      BY <3>1, <3>2 DEF Flush
    <3>4. reorgRecoveryMode' = 1 /\ reorgRecoveryMaxHeight' \in Nat
      BY <3>1, <3>2 DEF disc_begin
    <3> QED
      BY <3>1, <3>2, <3>3, <3>4 DEF process, memory
  <2>2. StoredOK'
    BY <1>17, TreeFacts DEF DisconnectTip, chain, process, memory, reorg,
       stored, control, StoredOK
  <2>3. ControlOK' /\ ControlInv'
    BY <1>17, TreeFacts DEF DisconnectTip, chain, process, memory, reorg,
       stored, control
  <2> QED
    BY <2>1, <2>2, <2>3 DEF TypeInv, TypeOK
<1>18. ASSUME NEW b \in Block, ConnectTip(b) PROVE TypeInv'
  <2>0. db' \in Database /\ next_spid' \in Nat
    BY <1>18, BlockBeginType DEF ConnectTip, Process, StoredOK
  <2>1. ChainOK' /\ ProcessOK' /\ MemoryOK' /\ ReorgOK'
    <3>1. ChainOK'
      <4>1. tip' \in {tip, b} /\ known' = known \cup {b}
        BY <1>18 DEF ConnectTip, Process
      <4>2. Flush(b, known \cup {b})
        BY <1>18 DEF ConnectTip
      <4>3. disk' \in [tip : Block, known : SUBSET Block]
        BY <4>2 DEF Flush
      <4> QED
        BY <4>1, <4>3
    <3>2. ProcessOK' /\ MemoryOK'
      BY <1>18, <2>0 DEF ConnectTip, process
    <3>3. ReorgOK'
      BY <1>18 DEF ConnectTip, reorg
    <3> QED
      BY <3>1, <3>2, <3>3
  <2>2. StoredOK'
    BY <1>18, <2>0, TreeFacts DEF ConnectTip, Process, StoredOK,
       isMPinBlockRange, RecordOK
  <2>3. ControlOK' /\ ControlInv'
    BY <1>18, TreeFacts DEF ConnectTip, Process, chain, process, memory,
       reorg, stored, control
  <2> QED
    BY <2>1, <2>2, <2>3 DEF TypeInv, TypeOK
<1>19. CASE RequestShutdown
  <2>1. ChainOK' /\ MemoryOK' /\ ReorgOK'
    BY <1>19, TreeFacts DEF RequestShutdown, chain, memory, reorg
  <2>4. ProcessOK'
    <3>1. {shutdown', broken', reparsed'} \subseteq BOOLEAN
      BY <1>19 DEF RequestShutdown
    <3>2. failures' \in 0 .. MaxFailures
      BY <1>19, TreeFacts DEF RequestShutdown, MayFail
    <3> QED
      BY <3>1, <3>2
  <2>2. StoredOK'
    BY <1>19, TreeFacts DEF RequestShutdown, chain, process, memory, reorg,
       stored, control, StoredOK
  <2>3. ControlOK' /\ ControlInv'
    BY <1>19, TreeFacts DEF RequestShutdown, chain, process, memory, reorg,
       stored, control
  <2> QED
    BY <2>1, <2>2, <2>3, <2>4 DEF TypeInv, TypeOK
<1>20. CASE Shutdown
  <2>1. ChainOK' /\ ProcessOK' /\ MemoryOK' /\ ReorgOK'
    BY <1>20, TreeFacts DEF Shutdown, Down, chain, process, memory, reorg,
       stored, control, Part, FirstId
  <2>2. StoredOK'
    BY <1>20, TreeFacts DEF Shutdown, Down, chain, process, memory, reorg,
       stored, control, StoredOK
  <2>3. ControlOK' /\ ControlInv'
    BY <1>20, TreeFacts DEF Shutdown, Down, chain, process, memory, reorg,
       stored, control
  <2> QED
    BY <2>1, <2>2, <2>3 DEF TypeInv, TypeOK
<1>21. CASE Crash
  <2>1. ChainOK' /\ ProcessOK' /\ MemoryOK' /\ ReorgOK'
    <3>1. ChainOK'
      BY <1>21 DEF Crash, ChainOK
    <3>2. {shutdown', broken', reparsed'} \subseteq BOOLEAN
      BY <1>21 DEF Crash, Down
    <3>3. failures' \in 0 .. MaxFailures
      BY <1>21, TreeFacts DEF Crash, MayFail
    <3>4. MemoryOK' /\ ReorgOK'
      BY <1>21, TreeFacts DEF Crash, Down, Part, FirstId
    <3> QED
      BY <3>1, <3>2, <3>3, <3>4
  <2>2. StoredOK'
    <3>1. db' = db /\ txlist' = txlist
      BY <1>21 DEF Crash, Down
    <3>2. files' \in [Block -> StateFiles]
      <4>1. CASE files' = files
        BY <4>1 DEF StoredOK
      <4>2. ASSUME NEW b \in {at, db.watermark} \ {None}, NEW f \in FileType,
                   files' = [files EXCEPT ![b][f] = Torn]
            PROVE  files' \in [Block -> StateFiles]
        <5>1. b \in Block
          BY DEF StoredOK, Database, BlockHash
        <5>2. files[b] \in StateFiles
          BY <5>1 DEF StoredOK
        <5>3. [files[b] EXCEPT ![f] = Torn] \in StateFiles
          BY <5>2 DEF StateFiles, Saved, FileType
        <5> QED
          BY <4>2, <5>1, <5>3 DEF StoredOK
      <4> QED
        BY <4>1, <4>2, <1>21 DEF Crash
    <3> QED
      BY <3>1, <3>2 DEF StoredOK
  <2>3. ControlOK' /\ ControlInv'
    BY <1>21, TreeFacts DEF Crash, Down, chain, process, memory, reorg,
       stored, control
  <2> QED
    BY <2>1, <2>2, <2>3 DEF TypeInv, TypeOK
<1>22. CASE UNCHANGED vars
  BY <1>22 DEF vars, chain, process, memory, reorg, stored, control, TypeInv,
     TypeOK, StoredOK
<1> QED
  BY <1>1, <1>2, <1>3, <1>4, <1>5, <1>6, <1>7, <1>8, <1>9, <1>10, <1>11,
     <1>12, <1>13, <1>14, <1>15, <1>16, <1>17, <1>18, <1>19, <1>20, <1>21,
     <1>22, <1>23, <1>24 DEF Next, Handlers, Environment

\* Spec => []TypeOK, from TypeInv: that popBlock and setWatermark are called
\* with a block that has a parent is what ControlInv adds.
THEOREM RecoveryTypeCorrect == Spec => []TypeOK
<1>1. Init => TypeInv
  BY InitTypeInv
<1>2. TypeInv /\ [Next]_vars => TypeInv'
  BY StepTypeInv
<1>3. TypeInv => TypeOK
  BY DEF TypeInv
<1> QED
  BY <1>1, <1>2, <1>3, PTL DEF Spec

-----------------------------------------------------------------------------
(* The maps and the state files, while no scan is broken off.              *)

\* Before the first start there is no state file, and the maps are empty.
LEMMA InitMemoryInv == Init => FilesFaithful /\ MemoryInv
BY DEF Init, FilesFaithful, MemoryInv, NoFiles

\* A scan that was broken off, or a volume that clear_all_state has left, is
\* never forgotten.
LEMMA HistoryKept ==
  [Next]_vars => /\ ~broken' => ~broken
                 /\ ~reparsed' => ~reparsed
<1>1. CASE ClearAllState \/ ScanEnds \/ RequestShutdown \/ Shutdown \/ Crash
  BY <1>1 DEF ClearAllState, ScanEnds, RequestShutdown, Shutdown, Crash, Down
<1>2. CASE UNCHANGED process
  BY <1>2 DEF process
<1>3. CASE \/ ProcessTx \/ BlockEnd \/ WriteStateFile \/ PruneStateFiles
           \/ SetWatermark \/ FindWatermark \/ PopInactive \/ PopMark
           \/ LoadStateFiles \/ LoadFails \/ NoFilesFound \/ WalkBack \/ WalkMark
  BY <1>2, <1>3 DEF ProcessTx, BlockEnd, WriteStateFile, PruneStateFiles,
     SetWatermark, FindWatermark, PopInactive, PopAnd, PopMark, LoadStateFiles,
     LoadFails, NoFilesFound, WalkBack, WalkMark
<1>4. CASE \/ ScanBlock \/ ReadBlockFromDisk \/ Start \/ DisconnectTip
           \/ (\E b \in Block : ConnectTip(b)) \/ UNCHANGED vars
  BY <1>2, <1>4 DEF ScanBlock, ReadBlockFromDisk, Start, DisconnectTip, ConnectTip,
     vars
<1> QED
  BY <1>1, <1>3, <1>4 DEF Next, Handlers, Environment

\* Every step that does not break off a scan preserves what the state files and
\* the maps hold.
LEMMA StepMemoryInv ==
  ASSUME TypeInv, FilesFaithful, MemoryInv, [Next]_vars, ~broken'
  PROVE  FilesFaithful' /\ MemoryInv'
<1>0. /\ ChainOK /\ ReorgOK /\ StoredOK /\ ControlOK /\ ControlInv
      /\ FilesFaithful /\ MemoryInv
  BY DEF TypeInv, TypeOK
<1> USE <1>0 DEF ChainOK, ReorgOK, ControlOK, ControlInv, MemoryInv, Phase, Active
<1>1. CASE ProcessTx
  <2>1. FilesFaithful'
    BY <1>1 DEF ProcessTx, chain, process, memory, reorg, stored, control,
       FilesFaithful
  <2>2. MemoryInv'
    BY <1>1, TreeFacts DEF ProcessTx, chain, process, memory, reorg, stored,
       control
  <2> QED
    BY <2>1, <2>2
<1>2. CASE BlockEnd
  <2>1. FilesFaithful'
    BY <1>2 DEF BlockEnd, Apply, chain, process, memory, reorg, stored,
       control, FilesFaithful
  <2>2. MemoryInv'
    BY <1>2, TreeFacts DEF BlockEnd, Apply, chain, process, memory, reorg,
       stored, control
  <2> QED
    BY <2>1, <2>2
<1>3. CASE WriteStateFile
  <2>1. FilesFaithful'
    <3>1. idx \in 1 .. 4 /\ maps = at
      BY <1>3 DEF WriteStateFile
    <3>2. /\ files' = [files EXCEPT ![at] =
                         [files[at] EXCEPT ![StateFile[idx]]
                                             = InMemory[StateFile[idx]]]]
          /\ files \in [Block -> StateFiles]
      BY <1>3 DEF WriteStateFile, StoredOK
    <3>3. \A b \in Block : b # at => files'[b] = files[b]
      BY <3>2
    <3>4. /\ files'[at].balances \in {None, Torn, at}
          /\ files'[at].register \in {None, Torn, at}
      <4>1. files[at] \in StateFiles
        BY <3>2
      <4>2. files'[at] = [files[at] EXCEPT ![StateFile[idx]]
                                             = InMemory[StateFile[idx]]]
        BY <3>2
      <4>3. CASE idx = 1
        BY <4>1, <4>2, <4>3, <3>1 DEF StateFile, InMemory, StateFiles,
           FilesFaithful
      <4>4. CASE idx = 2
        BY <4>1, <4>2, <4>4, <3>1 DEF StateFile, InMemory, StateFiles,
           FilesFaithful
      <4>5. CASE idx = 3
        BY <4>1, <4>2, <4>5, <3>1 DEF StateFile, InMemory, StateFiles,
           FilesFaithful
      <4>6. CASE idx = 4
        BY <4>1, <4>2, <4>6, <3>1 DEF StateFile, InMemory, StateFiles,
           FilesFaithful
      <4> QED
        BY <3>1, <4>3, <4>4, <4>5, <4>6
    <3> QED
      BY <3>3, <3>4 DEF FilesFaithful
  <2>2. MemoryInv'
    BY <1>3, TreeFacts DEF WriteStateFile, chain, process, memory, reorg,
       stored, control
  <2> QED
    BY <2>1, <2>2
<1>4. CASE PruneStateFiles
  <2>1. FilesFaithful'
    BY <1>4 DEF PruneStateFiles, chain, process, memory, reorg, stored,
       control, FilesFaithful, NoFiles
  <2>2. MemoryInv'
    BY <1>4, TreeFacts DEF PruneStateFiles, chain, process, memory, reorg,
       stored, control
  <2> QED
    BY <2>1, <2>2
<1>5. CASE SetWatermark
  <2>1. FilesFaithful'
    BY <1>5 DEF SetWatermark, chain, process, memory, reorg, stored, control,
       FilesFaithful
  <2>2. MemoryInv'
    BY <1>5, TreeFacts DEF SetWatermark, chain, process, memory, reorg,
       stored, control
  <2> QED
    BY <2>1, <2>2
<1>6. CASE FindWatermark
  <2>1. FilesFaithful'
    BY <1>6 DEF FindWatermark, chain, process, memory, reorg, stored, control,
       FilesFaithful
  <2>2. MemoryInv'
    BY <1>6, TreeFacts DEF FindWatermark, chain, process, memory, reorg,
       stored, control
  <2> QED
    BY <2>1, <2>2
<1>7. CASE PopInactive
  <2>1. FilesFaithful'
    BY <1>7 DEF PopInactive, PopAnd, chain, process, memory, reorg, stored,
       control, FilesFaithful
  <2>2. MemoryInv'
    BY <1>7, TreeFacts DEF PopInactive, PopAnd, chain, process, memory, reorg,
       stored, control
  <2> QED
    BY <2>1, <2>2
<1>8. CASE PopMark
  <2>1. FilesFaithful'
    BY <1>8 DEF PopMark, chain, process, memory, reorg, stored, control,
       FilesFaithful
  <2>2. MemoryInv'
    BY <1>8, TreeFacts DEF PopMark, chain, process, memory, reorg, stored,
       control
  <2> QED
    BY <2>1, <2>2
<1>9. CASE LoadStateFiles
  <2>1. FilesFaithful'
    BY <1>9 DEF LoadStateFiles, Complete, FileType, Persisted, chain, process,
       memory, reorg, stored, control, FilesFaithful
  <2>2. MemoryInv'
    BY <1>9, TreeFacts DEF LoadStateFiles, Complete, FileType, Persisted,
       chain, process, memory, reorg, stored, control, FilesFaithful
  <2> QED
    BY <2>1, <2>2
<1>10. CASE LoadFails
  <2>1. FilesFaithful'
    BY <1>10 DEF LoadFails, chain, process, memory, reorg, stored, control,
       FilesFaithful
  <2>2. MemoryInv'
    BY <1>10, TreeFacts DEF LoadFails, chain, process, memory, reorg, stored,
       control
  <2> QED
    BY <2>1, <2>2
<1>11. CASE NoFilesFound
  <2>1. FilesFaithful'
    BY <1>11 DEF NoFilesFound, chain, process, memory, reorg, stored, control,
       FilesFaithful
  <2>2. MemoryInv'
    BY <1>11, TreeFacts DEF NoFilesFound, chain, process, memory, reorg,
       stored, control
  <2> QED
    BY <2>1, <2>2
<1>12. CASE WalkBack
  <2>1. FilesFaithful'
    BY <1>12 DEF WalkBack, PopAnd, chain, process, memory, reorg, stored,
       control, FilesFaithful
  <2>2. MemoryInv'
    BY <1>12, TreeFacts DEF WalkBack, PopAnd, chain, process, memory, reorg,
       stored, control
  <2> QED
    BY <2>1, <2>2
<1>13. CASE WalkMark
  <2>1. FilesFaithful'
    BY <1>13 DEF WalkMark, chain, process, memory, reorg, stored, control,
       FilesFaithful
  <2>2. MemoryInv'
    BY <1>13, TreeFacts DEF WalkMark, chain, process, memory, reorg, stored,
       control
  <2> QED
    BY <2>1, <2>2
<1>14. CASE ClearAllState
  <2>1. FilesFaithful'
    BY <1>14 DEF ClearAllState, chain, process, memory, reorg, stored,
       control, FilesFaithful
  <2>2. MemoryInv'
    BY <1>14, TreeFacts DEF ClearAllState, chain, process, memory, reorg,
       stored, control
  <2> QED
    BY <2>1, <2>2
<1>15. CASE ScanBlock
  <2>1. FilesFaithful'
    BY <1>15 DEF ScanBlock, FilesFaithful
  <2>2. MemoryInv'
    BY <1>15, TreeFacts DEF ScanBlock, chain, reorg
  <2> QED
    BY <2>1, <2>2
<1>23. CASE ReadBlockFromDisk
  <2>1. FilesFaithful'
    BY <1>23 DEF ReadBlockFromDisk, stored, FilesFaithful
  <2>2. MemoryInv'
    BY <1>23 DEF ReadBlockFromDisk, chain, memory, reorg
  <2> QED
    BY <2>1, <2>2
<1>24. CASE ScanEnds
  <2>1. FilesFaithful'
    BY <1>24 DEF ScanEnds, FilesFaithful
  <2>2. pc = "next" /\ at = tip
    BY <1>24 DEF ScanEnds
  <2>3. MemoryInv'
    BY <1>24, <2>2, TreeFacts DEF ScanEnds, Process, reorg
  <2> QED
    BY <2>1, <2>3
<1>16. CASE Start
  <2>1. FilesFaithful'
    BY <1>16 DEF Start, chain, process, memory, reorg, stored, control,
       FilesFaithful
  <2>2. MemoryInv'
    BY <1>16, TreeFacts DEF Start, chain, process, memory, reorg, stored,
       control
  <2> QED
    BY <2>1, <2>2
<1>17. CASE DisconnectTip
  <2>1. FilesFaithful'
    BY <1>17 DEF DisconnectTip, disc_begin, chain, process, memory, reorg,
       stored, control, FilesFaithful
  <2>2. MemoryInv'
    BY <1>17, TreeFacts DEF DisconnectTip, disc_begin, chain, process, memory,
       reorg, stored, control
  <2> QED
    BY <2>1, <2>2
<1>18. ASSUME NEW b \in Block, ConnectTip(b)
      PROVE  FilesFaithful' /\ MemoryInv'
  <2>1. FilesFaithful'
    BY <1>18 DEF ConnectTip, Process, chain, process, memory, reorg, stored,
       control, FilesFaithful
  <2>2. MemoryInv'
    BY <1>18, TreeFacts DEF ConnectTip, Process, chain, process, memory,
       reorg, stored, control
  <2> QED
    BY <2>1, <2>2
<1>19. CASE RequestShutdown
  <2>1. FilesFaithful'
    BY <1>19 DEF RequestShutdown, chain, process, memory, reorg, stored,
       control, FilesFaithful
  <2>2. MemoryInv'
    BY <1>19, TreeFacts DEF RequestShutdown, chain, process, memory, reorg,
       stored, control
  <2> QED
    BY <2>1, <2>2
<1>20. CASE Shutdown
  <2>1. FilesFaithful'
    BY <1>20 DEF Shutdown, Down, chain, process, memory, reorg, stored,
       control, FilesFaithful
  <2>2. MemoryInv'
    BY <1>20, TreeFacts DEF Shutdown, Down, chain, process, memory, reorg,
       stored, control
  <2> QED
    BY <2>1, <2>2
<1>21. CASE Crash
  <2>1. FilesFaithful'
    <3>1. CASE files' = files
      BY <3>1 DEF FilesFaithful
    <3>2. ASSUME NEW b \in {at, db.watermark} \ {None}, NEW f \in FileType,
                 files' = [files EXCEPT ![b][f] = Torn]
          PROVE  FilesFaithful'
      <4>1. files \in [Block -> StateFiles]
        BY DEF StoredOK
      <4>2. ASSUME NEW c \in Block
            PROVE  files'[c] = files[c] \/ files'[c] = [files[c] EXCEPT ![f] =
               Torn]
        BY <3>2, <4>1
      <4>3. ASSUME NEW c \in Block
            PROVE  /\ files'[c].balances \in {None, Torn, c}
                   /\ files'[c].register \in {None, Torn, c}
        <5>1. files[c].balances \in {None, Torn, c} /\ files[c].register \in {None, Torn, c}
          BY DEF FilesFaithful
        <5>2. CASE files'[c] = files[c]
          BY <5>1, <5>2
        <5>3. CASE files'[c] = [files[c] EXCEPT ![f] = Torn]
          <6>1. files[c] \in StateFiles
            BY <4>1
          <6>2. CASE f = "balances"
            BY <5>1, <5>3, <6>1, <6>2 DEF StateFiles
          <6>3. CASE f = "globals"
            BY <5>1, <5>3, <6>1, <6>3 DEF StateFiles
          <6>4. CASE f = "globalvars"
            BY <5>1, <5>3, <6>1, <6>4 DEF StateFiles
          <6>5. CASE f = "register"
            BY <5>1, <5>3, <6>1, <6>5 DEF StateFiles
          <6> QED
            BY <6>2, <6>3, <6>4, <6>5 DEF FileType
        <5> QED
          BY <4>2, <5>2, <5>3
      <4> QED
        BY <4>3 DEF FilesFaithful
    <3> QED
      BY <3>1, <3>2, <1>21 DEF Crash
  <2>2. MemoryInv'
    BY <1>21, TreeFacts DEF Crash, Down, chain, process, memory, reorg,
       stored, control
  <2> QED
    BY <2>1, <2>2
<1>22. CASE UNCHANGED vars
  BY <1>22 DEF vars, chain, process, memory, reorg, stored, control,
     FilesFaithful
<1> QED
  BY <1>1, <1>2, <1>3, <1>4, <1>5, <1>6, <1>7, <1>8, <1>9, <1>10, <1>11,
     <1>12, <1>13, <1>14, <1>15, <1>16, <1>17, <1>18, <1>19, <1>20, <1>21,
     <1>22, <1>23, <1>24 DEF Next, Handlers, Environment

\* While no scan is broken off: whatever is disconnected and whenever the node
\* crashes or is stopped, the blocks applied to the maps of a node that has
\* caught up are those of its active chain.  load_most_relevant_state settles
\* only at a block of the active chain whose files hold the state of that very
\* block, and the rescan applies the rest of the chain in order.
THEOREM MemoryFollowsChain == Spec => []ChainAppliedOnce
<1> DEFINE Inv == TypeInv /\ (~broken => FilesFaithful /\ MemoryInv)
<1>1. Init => Inv
  BY InitTypeInv, InitMemoryInv
<1>2. Inv /\ [Next]_vars => Inv'
  <2> SUFFICES ASSUME Inv, [Next]_vars PROVE Inv'
    OBVIOUS
  <2>1. TypeInv'
    BY StepTypeInv
  <2>2. ASSUME ~broken' PROVE FilesFaithful' /\ MemoryInv'
    <3>1. ~broken
      BY <2>2, HistoryKept
    <3> QED
      BY <2>2, <3>1, StepMemoryInv
  <2> QED
    BY <2>1, <2>2
<1>3. Inv => ChainAppliedOnce
  BY DEF MemoryInv, ChainAppliedOnce, Settled
<1> QED
  BY <1>1, <1>2, <1>3, PTL DEF Spec

-----------------------------------------------------------------------------
(* The litecoin volume, which clear_all_state keeps.                       *)

\* A "globalvars" file named after a block holds the volume of that block.
VolumeFiles == \A b \in Block : files[b].globalvars \in {None, Torn, b}

\* What the volume is at every point of the handlers.
VolumeInv ==
  /\ pc \in {"read", "txs"} => volume = Parent[at]
  /\ pc \in {"save", "prune", "watermark", "next"} => volume = at
  /\ pc = "idle" /\ reorgRecoveryMode = 0 => volume = tip

\* Every step keeps the "globalvars" files faithful.
LEMMA StepVolumeFiles ==
  ASSUME TypeInv, VolumeFiles, VolumeInv, [Next]_vars
  PROVE  VolumeFiles'
<1>1. StoredOK /\ ControlOK /\ ControlInv
  BY DEF TypeInv, TypeOK
<1>2. files \in [Block -> StateFiles] /\ at \in Block
  BY <1>1 DEF StoredOK, ControlOK
<1>3. CASE WriteStateFile
  <2>1. idx \in 1 .. 4 /\ volume = at
    BY <1>1, <1>3 DEF WriteStateFile, ControlInv, VolumeInv
  <2>2. files' = [files EXCEPT ![at] =
                    [files[at] EXCEPT ![StateFile[idx]] = InMemory[StateFile[idx]]]]
    BY <1>3 DEF WriteStateFile
  <2>3. \A b \in Block : b # at => files'[b] = files[b]
    BY <1>2, <2>2
  <2>4. files'[at].globalvars \in {None, Torn, at}
    <3>1. files[at] \in StateFiles /\ files[at].globalvars \in {None, Torn, at}
      BY <1>2 DEF VolumeFiles
    <3>2. files'[at] = [files[at] EXCEPT ![StateFile[idx]] = InMemory[StateFile[idx]]]
      BY <1>2, <2>2
    <3>3. CASE idx = 3
      BY <2>1, <3>1, <3>2, <3>3 DEF StateFile, InMemory, StateFiles
    <3>4. CASE idx # 3
      <4>1. StateFile[idx] \in FileType \ {"globalvars"}
        BY <2>1, <3>4 DEF StateFile, FileType
      <4> QED
        BY <3>1, <3>2, <4>1 DEF StateFiles
    <3> QED
      BY <3>3, <3>4
  <2> QED
    BY <2>3, <2>4 DEF VolumeFiles
<1>4. CASE PruneStateFiles
  BY <1>4 DEF PruneStateFiles, VolumeFiles, NoFiles
<1>5. CASE Crash
  <2>1. CASE files' = files
    BY <2>1 DEF VolumeFiles
  <2>2. ASSUME NEW b \in {at, db.watermark} \ {None}, NEW f \in FileType,
               files' = [files EXCEPT ![b][f] = Torn]
        PROVE  VolumeFiles'
    <3>1. ASSUME NEW c \in Block PROVE files'[c].globalvars \in {None, Torn, c}
      <4>1. files[c] \in StateFiles /\ files[c].globalvars \in {None, Torn, c}
        BY <1>2 DEF VolumeFiles
      <4>2. files'[c] = files[c] \/ files'[c] = [files[c] EXCEPT ![f] = Torn]
        BY <1>2, <2>2
      <4>3. CASE f = "globalvars"
        BY <4>1, <4>2, <4>3 DEF StateFiles
      <4>4. CASE f # "globalvars"
        BY <4>1, <4>2, <4>4 DEF StateFiles, FileType
      <4> QED
        BY <4>3, <4>4
    <3> QED
      BY <3>1 DEF VolumeFiles
  <2> QED
    BY <1>5, <2>1, <2>2 DEF Crash
<1>6. CASE UNCHANGED files
  BY <1>6 DEF VolumeFiles
<1>7. CASE \/ ProcessTx \/ BlockEnd \/ SetWatermark \/ FindWatermark \/ PopInactive
           \/ PopMark \/ LoadStateFiles \/ LoadFails \/ NoFilesFound
  BY <1>6, <1>7 DEF ProcessTx, BlockEnd, SetWatermark, FindWatermark, PopInactive,
     PopAnd, PopMark, LoadStateFiles, LoadFails, NoFilesFound, stored
<1>8. CASE \/ WalkBack \/ WalkMark \/ ClearAllState \/ ScanBlock
           \/ ReadBlockFromDisk \/ ScanEnds \/ Start \/ DisconnectTip
           \/ (\E b \in Block : ConnectTip(b))
           \/ RequestShutdown \/ Shutdown \/ UNCHANGED vars
  BY <1>6, <1>8 DEF WalkBack, PopAnd, WalkMark, ClearAllState, ScanBlock,
     ReadBlockFromDisk, ScanEnds, Start, DisconnectTip, ConnectTip, RequestShutdown,
     Shutdown, vars, stored
<1> QED
  BY <1>3, <1>4, <1>5, <1>7, <1>8 DEF Next, Handlers, Environment

\* Every step that neither breaks off a scan nor reparses over an old volume
\* keeps the volume in step with the block being handled.
LEMMA StepVolumeInv ==
  ASSUME TypeInv, VolumeFiles, VolumeInv, [Next]_vars, ~broken', ~reparsed'
  PROVE  VolumeInv'
<1>0. ChainOK /\ ReorgOK /\ ControlOK /\ ControlInv
  BY DEF TypeInv, TypeOK
<1> USE DEF VolumeInv
<1>1. CASE ProcessTx \/ WriteStateFile \/ PruneStateFiles \/ SetWatermark
  BY <1>1 DEF ProcessTx, WriteStateFile, PruneStateFiles, SetWatermark, memory
<1>2. CASE BlockEnd
  BY <1>2 DEF BlockEnd, Apply
<1>3. CASE FindWatermark \/ PopInactive \/ PopMark \/ NoFilesFound \/ WalkBack \/ WalkMark
  BY <1>3 DEF FindWatermark, PopInactive, PopAnd, PopMark, NoFilesFound, WalkBack, WalkMark
<1>4. CASE LoadStateFiles
  <2>1. /\ at \in Block /\ at' = at /\ pc' = "next" /\ volume' = files[at]["globalvars"]
        /\ files[at]["globalvars"] \notin {None, Torn}
    BY <1>0, <1>4 DEF LoadStateFiles, ControlOK, Complete, FileType
  <2>2. files[at]["globalvars"] = at
    BY <2>1 DEF VolumeFiles
  <2> QED
    BY <2>1, <2>2
<1>5. CASE LoadFails
  BY <1>5 DEF LoadFails
<1>6. CASE ClearAllState
  BY <1>6 DEF ClearAllState
<1>7. CASE ScanBlock
  <2>1. pc = "next" /\ volume = at /\ pc' = "read" /\ Parent[at'] = at /\ volume' = volume
    BY <1>7 DEF ScanBlock
  <2> QED
    BY <2>1
<1>8. CASE ReadBlockFromDisk
  BY <1>8 DEF ReadBlockFromDisk, memory
<1>9. CASE ScanEnds
  <2>1. pc = "next" /\ at = tip /\ volume = tip /\ volume' = volume
    BY <1>9 DEF ScanEnds
  <2>2. CASE connecting # None /\ Process(connecting)
    BY <1>0, <2>1, <2>2 DEF Process, ControlInv
  <2>3. CASE pc' = "idle" /\ UNCHANGED tip
    BY <2>1, <2>3
  <2> QED
    BY <1>9, <2>2, <2>3 DEF ScanEnds
<1>10. CASE Start \/ DisconnectTip \/ Shutdown \/ Crash
  BY <1>10 DEF Start, DisconnectTip, disc_begin, Shutdown, Crash, Down, control
<1>11. ASSUME NEW b \in Block, ConnectTip(b) PROVE VolumeInv'
  <2>1. CASE reorgRecoveryMode > 0
    BY <1>11, <2>1 DEF ConnectTip
  <2>2. CASE ~(reorgRecoveryMode > 0)
    <3>1. reorgRecoveryMode = 0 /\ pc = "idle" /\ Parent[b] = tip /\ Process(b)
          /\ volume' = volume
      BY <1>0, <1>11, <2>2 DEF ConnectTip, ReorgOK
    <3> QED
      BY <3>1 DEF Process
  <2> QED
    BY <2>1, <2>2
<1>12. CASE RequestShutdown \/ UNCHANGED vars
  BY <1>12 DEF RequestShutdown, vars, chain, memory, reorg, control
<1> QED
  BY <1>1, <1>2, <1>3, <1>4, <1>5, <1>6, <1>7, <1>8, <1>9, <1>10, <1>11, <1>12
     DEF Next, Handlers, Environment

\* Unless clear_all_state was ever called over a volume that it does not reset,
\* and while no scan is broken off, the volume of a node that has caught up is
\* that of its active chain.
THEOREM VolumeFollowsChain == Spec => []VolumeMatchesChain
<1> DEFINE Inv == TypeInv /\ (~broken /\ ~reparsed => VolumeFiles /\ VolumeInv)
<1>1. Init => Inv
  <2>1. Init => VolumeFiles /\ VolumeInv
    BY DEF Init, VolumeFiles, VolumeInv, NoFiles
  <2> QED
    BY <2>1, InitTypeInv
<1>2. Inv /\ [Next]_vars => Inv'
  <2> SUFFICES ASSUME Inv, [Next]_vars PROVE Inv'
    OBVIOUS
  <2>1. TypeInv'
    BY StepTypeInv
  <2>2. ASSUME ~broken', ~reparsed' PROVE VolumeFiles' /\ VolumeInv'
    <3>1. ~broken /\ ~reparsed
      BY <2>2, HistoryKept
    <3> QED
      BY <2>2, <3>1, StepVolumeFiles, StepVolumeInv
  <2> QED
    BY <2>1, <2>2
<1>3. Inv => VolumeMatchesChain
  BY DEF VolumeInv, VolumeMatchesChain, Settled
<1> QED
  BY <1>1, <1>2, <1>3, PTL DEF Spec

-----------------------------------------------------------------------------
(* The identifiers the chain gives out.                                    *)

\* A position of block b's branch is a transaction of one of its blocks.
LEMMA PositionsAt ==
  ASSUME NEW b \in Block
  PROVE  /\ \A q \in Positions(b) : q = <<q[1], q[2]>>
         /\ \A c, i : <<c, i>> \in Positions(b)
                        <=> c \in Branch[b] /\ i \in 1 .. Len(Txs[c])
BY DEF Positions

\* A branch has finitely many transactions, and so finitely many creations.
LEMMA PositionsFinite ==
  ASSUME NEW b \in Block
  PROVE  /\ IsFiniteSet(Positions(b))
         /\ \A P : P \subseteq Positions(b) => IsFiniteSet(Creates(P))
<1> DEFINE f == [c \in Branch[b] |-> Len(Txs[c])]
<1>1. IsFiniteSet(Branch[b])
  BY TreeFacts, BlockTree, FS_Subset
<1>2. f \in [Branch[b] -> Nat]
  BY TreeFacts
<1>3. Positions(b) = Units(f)
  BY DEF Positions, Units
<1> HIDE DEF f
<1>4. IsFiniteSet(Positions(b))
  BY <1>1, <1>2, <1>3, TotalType
<1>5. ASSUME NEW P, P \subseteq Positions(b) PROVE IsFiniteSet(Creates(P))
  <2>1. Creates(P) \subseteq Positions(b)
    BY <1>5 DEF Creates
  <2> QED
    BY <1>4, <2>1, FS_Subset
<1> QED
  BY <1>4, <1>5

\* Before the first transaction of a block lie those of its parent's branch.
LEMMA BeforeFirst ==
  ASSUME NEW b \in Block \ {Genesis}
  PROVE  Before(<<b, 1>>) = Positions(Parent[b])
<1>1. /\ Branch[b] = Branch[Parent[b]] \cup {b} /\ b \notin Branch[Parent[b]]
      /\ Parent[b] \in Block
  BY BlockTree
<1>2. Before(<<b, 1>>) = {q \in Positions(b) : q[1] # b \/ q[2] < 1}
  BY DEF Before
<1>3. ASSUME NEW c, NEW i
      PROVE  <<c, i>> \in Before(<<b, 1>>) <=> <<c, i>> \in Positions(Parent[b])
  <2>1. <<c, i>> \in Before(<<b, 1>>)
          <=> c \in Branch[b] /\ i \in 1 .. Len(Txs[c]) /\ (c # b \/ i < 1)
    BY <1>2, PositionsAt
  <2>2. <<c, i>> \in Positions(Parent[b])
          <=> c \in Branch[Parent[b]] /\ i \in 1 .. Len(Txs[c])
    BY <1>1, PositionsAt
  <2>3. i \in 1 .. Len(Txs[c]) => ~(i < 1)
    OBVIOUS
  <2> QED
    BY <1>1, <2>1, <2>2, <2>3
<1>4. /\ \A q \in Before(<<b, 1>>) : q = <<q[1], q[2]>>
      /\ \A q \in Positions(Parent[b]) : q = <<q[1], q[2]>>
  BY <1>1, <1>2, PositionsAt
<1> QED
  BY <1>3, <1>4

\* The next transaction adds itself to those before.
LEMMA BeforeNext ==
  ASSUME NEW b \in Block, NEW i \in 1 .. Len(Txs[b])
  PROVE  /\ Before(<<b, i + 1>>) = Before(<<b, i>>) \cup {<<b, i>>}
         /\ <<b, i>> \notin Before(<<b, i>>)
<1>1. ASSUME NEW j \in Nat
      PROVE  Before(<<b, j>>) = {q \in Positions(b) : q[1] # b \/ q[2] < j}
  BY DEF Before
<1>2. Len(Txs[b]) \in Nat /\ i \in Nat /\ i + 1 \in Nat /\ b \in Branch[b]
  BY TreeFacts
<1>3. <<b, i>> \in Positions(b)
  BY <1>2, PositionsAt
<1>4. ASSUME NEW q \in Positions(b)
      PROVE  (q[1] # b \/ q[2] < i + 1) <=> ((q[1] # b \/ q[2] < i) \/ q = <<b, i>>)
  <2>1. q = <<q[1], q[2]>> /\ q[1] \in Branch[b] /\ q[2] \in 1 .. Len(Txs[q[1]])
    BY PositionsAt
  <2>2. q[2] \in Int
    BY <2>1
  <2> QED
    BY <1>2, <2>1, <2>2
<1> QED
  BY <1>1, <1>2, <1>3, <1>4

\* After the last transaction of a block lies its whole branch.
LEMMA BeforeLast ==
  ASSUME NEW b \in Block, NEW i \in Nat, i > Len(Txs[b])
  PROVE  Before(<<b, i>>) = Positions(b)
<1>1. Before(<<b, i>>) = {q \in Positions(b) : q[1] # b \/ q[2] < i}
  BY DEF Before
<1>2. ASSUME NEW q \in Positions(b) PROVE q[1] # b \/ q[2] < i
  <2>1. q = <<q[1], q[2]>> /\ q[1] \in Branch[b] /\ q[2] \in 1 .. Len(Txs[q[1]])
    BY PositionsAt
  <2>2. Len(Txs[b]) \in Nat
    BY TreeFacts
  <2> QED
    BY <2>1, <2>2
<1> QED
  BY <1>1, <1>2

\* The identifier due at a position is a natural number.
LEMMA IdType ==
  ASSUME NEW b \in Block, NEW i \in Nat
  PROVE  /\ IdOf(<<b, i>>) = FirstId + Vested(b) + Cardinality(Creates(Before(<<b, i>>)))
         /\ Cardinality(Creates(Before(<<b, i>>))) \in Nat
         /\ Cardinality(Creates(Positions(b))) \in Nat
         /\ Vested(b) \in {0, 1}
<1>1. Before(<<b, i>>) \subseteq Positions(b)
  BY DEF Before
<1>2. IsFiniteSet(Creates(Before(<<b, i>>))) /\ IsFiniteSet(Creates(Positions(b)))
  BY <1>1, PositionsFinite
<1> QED
  BY <1>2, FS_CardinalityType DEF IdOf, Vested

\* A block starts with the identifier its parent left, or the one after the
\* vesting tokens.
LEMMA IdFirst ==
  ASSUME NEW b \in Block \ {Genesis}
  PROVE  IdOf(<<b, 1>>) = IF Height[b] = MSC_VESTING_CREATION_BLOCK
                          THEN NextId(Parent[b]) + 1 ELSE NextId(Parent[b])
<1> DEFINE n == Cardinality(Creates(Positions(Parent[b])))
<1>1. Parent[b] \in Block /\ Height[b] = Height[Parent[b]] + 1 /\ Height[Parent[b]] \in Nat
  BY BlockTree
<1>2. n \in Nat
  BY <1>1, IdType
<1>3. IdOf(<<b, 1>>) = FirstId + Vested(b) + n
  BY BeforeFirst, IdType
<1>4. NextId(Parent[b]) = FirstId + Vested(Parent[b]) + n
  BY DEF NextId
<1>5. Vested(b) = IF Height[b] = MSC_VESTING_CREATION_BLOCK
                  THEN Vested(Parent[b]) + 1 ELSE Vested(Parent[b])
  BY <1>1, RecoveryAssumption DEF Vested
<1>6. Vested(Parent[b]) \in {0, 1}
  BY <1>1, IdType
<1> HIDE DEF n
<1> QED
  BY <1>2, <1>3, <1>4, <1>5, <1>6 DEF FirstId

\* A creation takes an identifier, nothing else does.
LEMMA IdNext ==
  ASSUME NEW b \in Block, NEW i \in 1 .. Len(Txs[b])
  PROVE  IdOf(<<b, i + 1>>) = IF Txs[b][i].type = "create"
                              THEN IdOf(<<b, i>>) + 1 ELSE IdOf(<<b, i>>)
<1> DEFINE P == Before(<<b, i>>)
           p == <<b, i>>
<1>1. i \in Nat /\ i + 1 \in Nat
  BY TreeFacts
<1>2. Before(<<b, i + 1>>) = P \cup {p} /\ p \notin P
  BY BeforeNext
<1>3. TxAt(p) = Txs[b][i]
  BY DEF TxAt
<1>4. IsFiniteSet(Creates(P))
  BY PositionsFinite DEF Before
<1> DEFINE u == IdOf(<<b, i + 1>>)
           v == IdOf(<<b, i>>)
           n == Cardinality(Creates(P))
           m == Cardinality(Creates(P \cup {p}))
<1>5. /\ u = FirstId + Vested(b) + m
      /\ v = FirstId + Vested(b) + n
      /\ n \in Nat /\ Vested(b) \in {0, 1}
  <2>1. u = FirstId + Vested(b) + Cardinality(Creates(Before(<<b, i + 1>>)))
    BY <1>1, IdType
  <2>2. v = FirstId + Vested(b) + n /\ n \in Nat /\ Vested(b) \in {0, 1}
    BY <1>1, IdType
  <2> QED
    BY <1>2, <2>1, <2>2
<1> HIDE DEF P, p
<1>6. CASE Txs[b][i].type = "create"
  <2>1. Creates(P \cup {p}) = Creates(P) \cup {p} /\ p \notin Creates(P)
    BY <1>2, <1>3, <1>6 DEF Creates
  <2>2. Cardinality(Creates(P) \cup {p}) = Cardinality(Creates(P)) + 1
    BY <1>4, <2>1, FS_AddElement
  <2>3. m = n + 1
    BY <2>1, <2>2
  <2>4. u = v + 1
    <3> HIDE DEF u, v, m, n
    <3> QED
      BY <1>5, <2>3 DEF FirstId
  <2> QED
    BY <1>6, <2>4
<1>7. CASE Txs[b][i].type # "create"
  <2>1. Creates(P \cup {p}) = Creates(P)
    BY <1>3, <1>7 DEF Creates
  <2>2. u = v
    BY <1>5, <2>1
  <2> QED
    BY <1>7, <2>2
<1> QED
  BY <1>6, <1>7

\* The identifier due after the last transaction is the one the block leaves.
LEMMA IdLast ==
  ASSUME NEW b \in Block, NEW i \in Nat, i > Len(Txs[b])
  PROVE  IdOf(<<b, i>>) = NextId(b)
BY BeforeLast, IdType DEF NextId

\* Identifiers start at 3: no block before GENESIS_BLOCK creates a property.
LEMMA IdGenesis == NextId(Genesis) = FirstId
<1>1. Genesis \in Block /\ Txs[Genesis] = <<>> /\ Branch[Genesis] = {Genesis}
  BY BlockTree, RecoveryAssumption
<1>2. Positions(Genesis) = {}
  BY <1>1 DEF Positions
<1>3. Creates(Positions(Genesis)) = {}
  BY <1>2 DEF Creates
<1>4. Cardinality(Creates(Positions(Genesis))) = 0
  BY <1>3, FS_EmptySet
<1>5. Vested(Genesis) = 0
  BY BlockTree, RecoveryAssumption DEF Vested
<1> QED
  BY <1>4, <1>5 DEF NextId, FirstId

-----------------------------------------------------------------------------
(* The counter of the property registry.                                   *)

\* A "globals" file named after a block holds the identifier it leaves.
SpidFiles == \A b \in Block : files[b].globals \in {None, Torn, NextId(b)}

\* What next_spid is at every point of the handlers.
SpidMemory ==
  /\ pc = "read" => next_spid = IdOf(<<at, 1>>)
  /\ pc = "txs" => next_spid = IdOf(<<at, idx>>)
  /\ pc \in {"save", "prune", "watermark", "next"} => next_spid = NextId(at)
  /\ pc = "idle" /\ reorgRecoveryMode = 0 => next_spid = NextId(tip)

\* The handler of block_begin takes the counter from the end of the parent to
\* the first transaction of the block.
LEMMA BlockBeginSpid ==
  ASSUME NEW b \in Block \ {Genesis}, BlockBegin(b), next_spid = NextId(Parent[b])
  PROVE  next_spid' = IdOf(<<b, 1>>)
BY IdFirst DEF BlockBegin

\* Every step keeps the "globals" files faithful.
LEMMA StepSpidFiles ==
  ASSUME TypeInv, SpidFiles, SpidMemory, [Next]_vars
  PROVE  SpidFiles'
<1>1. StoredOK /\ ControlOK /\ ControlInv
  BY DEF TypeInv, TypeOK
<1>2. files \in [Block -> StateFiles] /\ at \in Block
  BY <1>1 DEF StoredOK, ControlOK
<1>3. CASE WriteStateFile
  <2>1. idx \in 1 .. 4 /\ next_spid = NextId(at)
    BY <1>1, <1>3 DEF WriteStateFile, ControlInv, SpidMemory
  <2>2. files' = [files EXCEPT ![at] =
                    [files[at] EXCEPT ![StateFile[idx]] = InMemory[StateFile[idx]]]]
    BY <1>3 DEF WriteStateFile
  <2>3. \A b \in Block : b # at => files'[b] = files[b]
    BY <1>2, <2>2
  <2>4. files'[at].globals \in {None, Torn, NextId(at)}
    <3>1. files[at] \in StateFiles /\ files[at].globals \in {None, Torn, NextId(at)}
      BY <1>2 DEF SpidFiles
    <3>2. files'[at] = [files[at] EXCEPT ![StateFile[idx]] = InMemory[StateFile[idx]]]
      BY <1>2, <2>2
    <3>3. CASE idx = 2
      BY <2>1, <3>1, <3>2, <3>3 DEF StateFile, InMemory, StateFiles
    <3>4. CASE idx # 2
      <4>1. StateFile[idx] \in FileType \ {"globals"}
        BY <2>1, <3>4 DEF StateFile, FileType
      <4> QED
        BY <3>1, <3>2, <4>1 DEF StateFiles
    <3> QED
      BY <3>3, <3>4
  <2> QED
    BY <2>3, <2>4 DEF SpidFiles
<1>4. CASE PruneStateFiles
  BY <1>4 DEF PruneStateFiles, SpidFiles, NoFiles
<1>5. CASE Crash
  <2>1. CASE files' = files
    BY <2>1 DEF SpidFiles
  <2>2. ASSUME NEW b \in {at, db.watermark} \ {None}, NEW f \in FileType,
               files' = [files EXCEPT ![b][f] = Torn]
        PROVE  SpidFiles'
    <3>1. ASSUME NEW c \in Block PROVE files'[c].globals \in {None, Torn, NextId(c)}
      <4>1. files[c] \in StateFiles /\ files[c].globals \in {None, Torn, NextId(c)}
        BY <1>2 DEF SpidFiles
      <4>2. files'[c] = files[c] \/ files'[c] = [files[c] EXCEPT ![f] = Torn]
        BY <1>2, <2>2
      <4>3. CASE f = "globals"
        BY <4>1, <4>2, <4>3 DEF StateFiles
      <4>4. CASE f # "globals"
        BY <4>1, <4>2, <4>4 DEF StateFiles, FileType
      <4> QED
        BY <4>3, <4>4
    <3> QED
      BY <3>1 DEF SpidFiles
  <2> QED
    BY <1>5, <2>1, <2>2 DEF Crash
<1>6. CASE UNCHANGED files
  BY <1>6 DEF SpidFiles
<1>7. CASE \/ ProcessTx \/ BlockEnd \/ SetWatermark \/ FindWatermark \/ PopInactive
           \/ PopMark \/ LoadStateFiles \/ LoadFails \/ NoFilesFound
  BY <1>6, <1>7 DEF ProcessTx, BlockEnd, SetWatermark, FindWatermark, PopInactive,
     PopAnd, PopMark, LoadStateFiles, LoadFails, NoFilesFound, stored
<1>8. CASE \/ WalkBack \/ WalkMark \/ ClearAllState \/ ScanBlock
           \/ ReadBlockFromDisk \/ ScanEnds \/ Start \/ DisconnectTip \/ (\E b \in Block : ConnectTip(b))
           \/ RequestShutdown \/ Shutdown \/ UNCHANGED vars
  BY <1>6, <1>8 DEF WalkBack, PopAnd, WalkMark, ClearAllState, ScanBlock,
     ReadBlockFromDisk, ScanEnds, Start, DisconnectTip, ConnectTip, RequestShutdown, Shutdown, vars, stored
<1> QED
  BY <1>3, <1>4, <1>5, <1>7, <1>8 DEF Next, Handlers, Environment

\* Every step that does not break off a scan keeps the counter in step with the
\* block being handled.
LEMMA StepSpidMemory ==
  ASSUME TypeInv, SpidFiles, SpidMemory, [Next]_vars, ~broken'
  PROVE  SpidMemory'
<1>0. /\ ChainOK /\ ReorgOK /\ StoredOK /\ ControlOK /\ ControlInv /\ MemoryOK
  BY DEF TypeInv, TypeOK
<1> USE DEF SpidMemory
<1>1. CASE ProcessTx
  <2>1. /\ pc = "txs" /\ pc' = "txs" /\ at' = at /\ idx' = idx + 1
        /\ idx <= Len(Txs[at]) /\ at \in Block /\ idx \in Nat \ {0}
    BY <1>0, <1>1 DEF ProcessTx, ControlOK
  <2>2. idx \in 1 .. Len(Txs[at])
    BY <2>1, TreeFacts
  <2>3. next_spid' = IF Txs[at][idx].type = "create" THEN next_spid + 1 ELSE next_spid
    BY <1>1 DEF ProcessTx
  <2>4. IdOf(<<at, idx + 1>>) = IF Txs[at][idx].type = "create"
                                THEN IdOf(<<at, idx>>) + 1 ELSE IdOf(<<at, idx>>)
    BY <2>1, <2>2, IdNext
  <2>5. next_spid' = IdOf(<<at', idx'>>)
    BY <2>1, <2>3, <2>4
  <2> QED
    BY <2>1, <2>5
<1>2. CASE BlockEnd
  <2>1. /\ pc = "txs" /\ idx > Len(Txs[at]) /\ at \in Block /\ idx \in Nat
        /\ at' = at /\ next_spid' = next_spid /\ pc' \in {"save", "next"}
    BY <1>0, <1>2 DEF BlockEnd, ControlOK
  <2>2. IdOf(<<at, idx>>) = NextId(at)
    BY <2>1, IdLast
  <2> QED
    BY <2>1, <2>2
<1>3. CASE WriteStateFile \/ PruneStateFiles \/ SetWatermark
  BY <1>3 DEF WriteStateFile, PruneStateFiles, SetWatermark, memory
<1>4. CASE FindWatermark \/ PopInactive \/ PopMark \/ NoFilesFound \/ WalkBack \/ WalkMark
  BY <1>4 DEF FindWatermark, PopInactive, PopAnd, PopMark, NoFilesFound, WalkBack, WalkMark
<1>5. CASE LoadStateFiles
  <2>1. /\ at \in Block /\ at' = at /\ pc' = "next" /\ next_spid' = files[at]["globals"]
        /\ files[at]["globals"] \notin {None, Torn}
    BY <1>0, <1>5 DEF LoadStateFiles, ControlOK, Complete, FileType
  <2>2. files[at]["globals"] = NextId(at)
    BY <2>1 DEF SpidFiles
  <2> QED
    BY <2>1, <2>2
<1>6. CASE LoadFails
  BY <1>6 DEF LoadFails
<1>7. CASE ClearAllState
  BY <1>7, IdGenesis DEF ClearAllState
<1>8. CASE ScanBlock
  <2>1. PICK b \in Active \ {Genesis} : Parent[b] = at /\ at' = b
    BY <1>8 DEF ScanBlock
  <2>2. b \in Block \ {Genesis}
    BY <1>0, TreeFacts DEF Active, ChainOK
  <2>3. pc = "next" /\ next_spid = NextId(at) /\ BlockBegin(b) /\ pc' = "read"
    BY <1>8, <2>1 DEF ScanBlock
  <2>4. next_spid' = IdOf(<<b, 1>>)
    BY <2>1, <2>2, <2>3, BlockBeginSpid
  <2> QED
    BY <2>1, <2>3, <2>4
<1>12. CASE ReadBlockFromDisk
  BY <1>12 DEF ReadBlockFromDisk, memory
<1>13. CASE ScanEnds
  <2>1. pc = "next" /\ at = tip /\ next_spid = NextId(at)
    BY <1>13 DEF ScanEnds
  <2>2. CASE connecting # None /\ Process(connecting)
    <3>1. connecting \in Block \ {Genesis} /\ Parent[connecting] = tip
      BY <1>0, <2>2 DEF ControlOK, ControlInv
    <3>2. next_spid' = IdOf(<<connecting, 1>>)
      BY <2>1, <2>2, <3>1, BlockBeginSpid DEF Process
    <3> QED
      BY <2>2, <3>2 DEF Process
  <2>3. CASE pc' = "idle" /\ UNCHANGED <<tip, next_spid>>
    BY <2>1, <2>3
  <2> QED
    BY <1>13, <2>2, <2>3 DEF ScanEnds
<1>9. CASE Start \/ DisconnectTip \/ Shutdown \/ Crash
  BY <1>9 DEF Start, DisconnectTip, disc_begin, Shutdown, Crash, Down, control
<1>10. ASSUME NEW b \in Block, ConnectTip(b) PROVE SpidMemory'
  <2>1. CASE reorgRecoveryMode > 0
    BY <1>10, <2>1 DEF ConnectTip
  <2>2. CASE ~(reorgRecoveryMode > 0)
    <3>1. reorgRecoveryMode = 0 /\ pc = "idle" /\ b # Genesis /\ Parent[b] = tip
          /\ Process(b)
      BY <1>0, <1>10, <2>2 DEF ConnectTip, ReorgOK
    <3>2. next_spid' = IdOf(<<b, 1>>)
      BY <3>1, BlockBeginSpid DEF Process
    <3> QED
      BY <3>1, <3>2 DEF Process
  <2> QED
    BY <2>1, <2>2
<1>11. CASE RequestShutdown \/ UNCHANGED vars
  BY <1>11 DEF RequestShutdown, vars, chain, memory, reorg, control
<1> QED
  BY <1>1, <1>2, <1>3, <1>4, <1>5, <1>6, <1>7, <1>8, <1>9, <1>10, <1>11,
     <1>12, <1>13 DEF Next, Handlers, Environment

\* In a node that has caught up, the next property gets the identifier that
\* the active chain determines, whatever was disconnected, torn, stopped or
\* crashed before, as long as no scan was broken off: no identifier is skipped
\* or given out twice.
THEOREM SpidFollowsChain == Spec => []NextSPIDMatchesChain
<1> DEFINE Inv == TypeInv /\ (~broken => SpidFiles /\ SpidMemory)
<1>1. Init => Inv
  <2>1. Init => SpidFiles /\ SpidMemory
    BY DEF Init, SpidFiles, SpidMemory, NoFiles
  <2> QED
    BY <2>1, InitTypeInv
<1>2. Inv /\ [Next]_vars => Inv'
  <2> SUFFICES ASSUME Inv, [Next]_vars PROVE Inv'
    OBVIOUS
  <2>1. TypeInv'
    BY StepTypeInv
  <2>2. ASSUME ~broken' PROVE SpidFiles' /\ SpidMemory'
    <3>1. ~broken
      BY <2>2, HistoryKept
    <3> QED
      BY <2>2, <3>1, StepSpidFiles, StepSpidMemory
  <2> QED
    BY <2>1, <2>2
<1>3. Inv => NextSPIDMatchesChain
  BY DEF SpidMemory, NextSPIDMatchesChain, Settled
<1> QED
  BY <1>1, <1>2, <1>3, PTL DEF Spec
=============================================================================
