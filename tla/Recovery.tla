------------------------------- MODULE Recovery -------------------------------
(***************************************************************************)
(* How a node keeps the Trade Layer state in step with the active chain:   *)
(* the block and transaction handlers the base node calls, the state files *)
(* written after a block, and load_most_relevant_state, which after a      *)
(* reorganisation or a restart goes back to a saved state and rescans.     *)
(*                                                                         *)
(* The in-memory state is abstracted to the last block applied to it: a    *)
(* block applied to the state of its parent gives the state of the block,  *)
(* anything else is Garbled.  Three parts are told apart because loading   *)
(* and clearing treat them differently: the maps that clear_all_state      *)
(* clears (balances, offers, channels...), the litecoin volume, which it   *)
(* does not, and next_spid.  The spot fees and the registry of node        *)
(* rewards, which it does not clear either, are in none of them.           *)
(*                                                                         *)
(* The handlers run one after another under cs_main; what interleaves with *)
(* them is the end of the process, which may come between any two writes.  *)
(***************************************************************************)
EXTENDS SPInfo, Integers, Sequences, FiniteSets

CONSTANTS
  Genesis,             \* the block before GENESIS_BLOCK
  Parent, Height,      \* pprev and nHeight of a block
  Branch,              \* the blocks from Genesis to a block, both included
  Txs,                 \* the Trade Layer transactions of a block, in order
  Torn,                \* a state file that fails its hash validation
  Garbled,             \* a state that belongs to no block
  MAX_STATE_HISTORY,   \* 200 in the code
  STORE_EVERY_N_BLOCK, \* 5000 in the code
  MSC_VESTING_CREATION_BLOCK, \* a height, not below that of GENESIS_BLOCK
  MSC_VESTING_BLOCK,   \* tokens vest above this height
  VestingAdmin,        \* getVestingAdmin()
  Failures,            \* those of Failure that may happen
  \* bounds
  MaxFailures

\* A transaction creates a property, fixed or managed, or grants tokens of one.
TxRecord == [txid : Tx, type : {"create", "grant"}, sender : Issuer,
             manual : BOOLEAN, property : Nat]

\* The process ends at once, the user stops it, a block cannot be read.
Failure == {"crash", "shutdown", "unreadable"}

ASSUME BlockTree ==
  /\ IsFiniteSet(Block) /\ Genesis \in Block
  /\ {None, Torn, Garbled} \cap Block = {} /\ None # Torn
  /\ Garbled \notin {None, Torn}
  /\ Parent \in [Block \ {Genesis} -> Block]
  /\ Height \in [Block -> Nat] /\ Height[Genesis] = 0
  /\ Branch \in [Block -> SUBSET Block] /\ Branch[Genesis] = {Genesis}
  /\ \A b \in Block \ {Genesis} :
        /\ Height[b] = Height[Parent[b]] + 1
        /\ Branch[b] = Branch[Parent[b]] \cup {b}
        /\ b \notin Branch[Parent[b]]
  /\ \A b \in Block : Genesis \in Branch[b]
  /\ \A b \in Block : \A c \in Branch[b] \ {Genesis} : Parent[c] \in Branch[b]

ASSUME RecoveryAssumption ==
  /\ Txs \in [Block -> Seq(TxRecord)] /\ Txs[Genesis] = <<>>
  /\ MAX_STATE_HISTORY \in Nat /\ STORE_EVERY_N_BLOCK \in Nat \ {0}
  /\ MSC_VESTING_CREATION_BLOCK \in Nat \ {0} /\ MSC_VESTING_BLOCK \in Nat
  /\ VestingAdmin \in Issuer
  /\ Failures \subseteq Failure /\ MaxFailures \in Nat

VARIABLES
  \* the base node
  tip,             \* chainActive.Tip()
  known,           \* mapBlockIndex
  disk,            \* what of both is on disk
  shutdown,        \* ShutdownRequested()
  broken,          \* whether a scan was ever broken off
  reparsed,        \* whether clear_all_state ever left an old volume
  failures,        \* how many there were
  \* in memory
  maps,            \* the last block applied to the maps
  volume,          \* the last block applied to globalVolumeALL_LTC
  next_spid,
  reorgRecoveryMode,
  reorgRecoveryMaxHeight,
  \* on disk
  files,           \* state files, by block
  db,              \* the property registry
  txlist,          \* p_txlistdb
  \* control
  pc,
  at,              \* the block being processed, rolled back or settled at
  idx,             \* the next transaction or state file of that block
  base,            \* spBlockIndex once it is in the active chain
  connecting       \* the block whose connection waits for a recovery

chain == <<tip, known, disk>>
process == <<shutdown, broken, reparsed, failures>>
memory == <<maps, volume, next_spid>>
reorg == <<reorgRecoveryMode, reorgRecoveryMaxHeight>>
stored == <<files, db, txlist>>
control == <<pc, at, idx, base, connecting>>
vars == <<chain, process, memory, reorg, stored, control>>

-----------------------------------------------------------------------------
\* Four of the nineteen state files, in the order of statePrefix: "balances"
\* stands for the maps loaded before globalvars, "register" for those after.
StateFile == <<"balances", "globals", "globalvars", "register">>
FileType == {"balances", "globals", "globalvars", "register"}
NoFiles == [balances |-> None, globals |-> None, globalvars |-> None,
            register |-> None]

Part == Block \cup {Garbled}
Saved(T) == T \cup {None, Torn}
StateFiles == [balances : Saved(Part), globals : Saved(Nat),
               globalvars : Saved(Part), register : Saved(Part)]

\* p_txlistdb: <<valid, reason, block>> for a recorded transaction.  reason
\* is 0 for a valid one.
PKT_ERROR == -9000
NoRecords == [x \in Tx |-> None]

Phase == {"down", "load", "pop", "popmark", "walk", "walkmark", "clear",
          "next", "read", "txs", "save", "prune", "watermark", "idle"}

Init ==
  /\ tip = Genesis /\ known = {Genesis}
  /\ disk = [tip |-> Genesis, known |-> {Genesis}]
  /\ shutdown = FALSE /\ broken = FALSE /\ reparsed = FALSE /\ failures = 0
  /\ maps = Genesis /\ volume = Genesis /\ next_spid = FirstId
  /\ reorgRecoveryMode = 0 /\ reorgRecoveryMaxHeight = 0
  /\ files = [b \in Block |-> NoFiles]
  /\ db = EmptyDatabase
  /\ txlist = NoRecords
  /\ pc = "down" /\ at = Genesis /\ idx = 1 /\ base = Genesis
  /\ connecting = None

Active == Branch[tip]
Apply(part, b) == IF part = Parent[b] THEN b ELSE Garbled
HasFiles(b) == \E f \in FileType : files[b][f] # None
Complete(b) == \A f \in FileType : files[b][f] \notin {None, Torn}
\* persistedBlocks
Persisted == {b \in Active : HasFiles(b)}

-----------------------------------------------------------------------------
(* The base node and the handlers it calls.                                *)

MayFail(how) == how \in Failures /\ failures < MaxFailures

\* FlushStateToDisk writes the block index, or the index and the chain
\* state, when it sees fit.  What is on disk matters while a crash may come.
Flush(newTip, newKnown) ==
  \/ disk' = disk
  \/ /\ MayFail("crash")
     /\ \/ disk' = [tip |-> newTip, known |-> newKnown]
        \/ disk' = [disk EXCEPT !.known = newKnown]

\* The flag counts the disconnected blocks.
disc_begin_counts(b) ==
  /\ reorgRecoveryMode' = reorgRecoveryMode + 1
  /\ UNCHANGED reorgRecoveryMaxHeight

\* mastercore_handler_disc_begin
disc_begin(b) ==
  /\ reorgRecoveryMode' = 1
  /\ reorgRecoveryMaxHeight' = IF Height[b] > reorgRecoveryMaxHeight
                               THEN Height[b] ELSE reorgRecoveryMaxHeight

DisconnectTip ==
  /\ pc = "idle" /\ tip # Genesis
  /\ tip' = Parent[tip]
  /\ Flush(Parent[tip], known)
  /\ disc_begin(tip)
  /\ UNCHANGED <<known, process, memory, stored, control>>

\* isMPinBlockRange takes the second field of a record for its block.
isMPinBlockRange(records, first, last) ==
  [x \in Tx |-> IF records[x] # None /\ records[x][2] \in first .. last
                THEN None ELSE records[x]]

\* The property with identifier 3.  Its creating block is not recorded.
TL_PROPERTY_VESTING == 3
CreatedVesting == [txid |-> None, issuer |-> VestingAdmin, manual |-> FALSE,
                   creation_block |-> None, update_block |-> None]

\* VestingTokens sets last_vesting, which is not part of Entry, by updateSP:
\* the entry displaced is kept under the null hash, which popBlock never undoes.
VestingTokens(d) ==
  IF d.s[TL_PROPERTY_VESTING] = None THEN d
  ELSE updateSP(d, TL_PROPERTY_VESTING, d.s[TL_PROPERTY_VESTING])

\* The end of mastercore_handler_block_begin.  Whether anything vests also
\* depends on the volume and the vesting addresses.
BlockBegin(b) ==
  LET creates == Height[b] = MSC_VESTING_CREATION_BLOCK
      created == IF creates THEN putSP(db, next_spid, CreatedVesting) ELSE db
  IN  /\ creates => next_spid \in Id
      /\ next_spid' = IF creates THEN next_spid + 1 ELSE next_spid
      /\ \/ db' = created
         \/ Height[b] > MSC_VESTING_BLOCK /\ db' = VestingTokens(created)

\* Start on the transactions of block b, the new tip.
Process(b) ==
  /\ BlockBegin(b)
  /\ tip' = b
  /\ pc' = "txs" /\ at' = b /\ idx' = 1 /\ connecting' = None

\* ConnectTip up to the handler of the first transaction: the block is
\* announced to block_begin before it becomes the tip.
ConnectTip(b) ==
  /\ pc = "idle" /\ b # Genesis /\ Parent[b] = tip
  /\ known' = known \cup {b}
  /\ Flush(b, known \cup {b})
  /\ IF reorgRecoveryMode > 0
     THEN /\ reorgRecoveryMode' = 0 /\ reorgRecoveryMaxHeight' = 0
          /\ txlist' = isMPinBlockRange(txlist, Height[b],
                                        reorgRecoveryMaxHeight)
          /\ pc' = "load" /\ connecting' = b
          /\ UNCHANGED <<tip, at, idx, db, next_spid>>
     ELSE /\ Process(b)
          /\ UNCHANGED <<txlist, reorg>>
  /\ UNCHANGED <<process, maps, volume, files, base>>

\* Identifiers that are not given out are not rejected.
RegistryAllows_anyId(tx) ==
  /\ tx.property \in Id \ {TL_PROPERTY_VESTING}
  /\ db.s[tx.property] # None
  /\ db.s[tx.property].manual /\ db.s[tx.property].issuer = tx.sender

\* What logicMath_GrantTokens asks of the registry: the identifier is one given
\* out, and of a property managed by the sender.
RegistryAllows(tx) ==
  /\ tx.property \in Id \ {TL_PROPERTY_VESTING} /\ tx.property < next_spid
  /\ db.s[tx.property] # None
  /\ db.s[tx.property].manual /\ db.s[tx.property].issuer = tx.sender

\* The transaction handler, called twice for each transaction: the first call
\* does logicMath_CreatePropertyFixed, logicMath_CreatePropertyManaged or
\* logicMath_GrantTokens and records the outcome; the second, for oracle
\* updates, answers PKT_ERROR -100 for any other transaction and records that
\* in its place.  A grant that the registry allows may be refused by the other
\* checks: type and value, attestations of both sides, limit of the supply.
ProcessTx ==
  /\ pc = "txs" /\ idx <= Len(Txs[at])
  /\ LET tx == Txs[at][idx]
     IN  /\ \/ /\ tx.type = "create" /\ next_spid \in Id
               /\ db' = putSP(db, next_spid,
                              [txid |-> tx.txid, issuer |-> tx.sender,
                               manual |-> tx.manual,
                               creation_block |-> at, update_block |-> at])
               /\ next_spid' = next_spid + 1
            \/ /\ tx.type = "grant" /\ RegistryAllows(tx)
               /\ db' = updateSP(db, tx.property,
                           [db.s[tx.property] EXCEPT !.update_block = at])
               /\ UNCHANGED next_spid
            \/ /\ tx.type = "grant"
               /\ UNCHANGED <<db, next_spid>>
         /\ txlist' = [txlist EXCEPT
                         ![tx.txid] = <<0, PKT_ERROR - 100, Height[at]>>]
  /\ idx' = idx + 1
  /\ UNCHANGED <<chain, process, maps, volume, reorg, files,
                 pc, at, base, connecting>>

\* Blocks far below the tip are saved only every so often.
writePersistence(b) ==
  ~(/\ Height[tip] > Height[b] + MAX_STATE_HISTORY
    /\ Height[b] % STORE_EVERY_N_BLOCK # 0)

\* mastercore_handler_block_end; VerifyCheckpoint succeeds.
BlockEnd ==
  /\ pc = "txs" /\ idx > Len(Txs[at])
  /\ maps' = Apply(maps, at)
  /\ volume' = Apply(volume, at)
  /\ pc' = IF writePersistence(at) THEN "save" ELSE "next"
  /\ idx' = 1
  /\ UNCHANGED <<chain, process, next_spid, reorg, stored, at, base,
                 connecting>>

InMemory == [balances |-> maps, globals |-> next_spid, globalvars |-> volume,
             register |-> maps]

\* write_state_file
WriteStateFile ==
  /\ pc = "save"
  /\ LET f == StateFile[idx] IN files' = [files EXCEPT ![at][f] = InMemory[f]]
  /\ idx' = idx + 1
  /\ pc' = IF idx = Len(StateFile) THEN "prune" ELSE "save"
  /\ UNCHANGED <<chain, process, memory, reorg, db, txlist, at, base,
                 connecting>>

Prunable(b) ==
  \/ b \notin known
  \/ /\ Height[at] - Height[b] > MAX_STATE_HISTORY
     /\ Height[b] % STORE_EVERY_N_BLOCK # 0

\* prune_state_files
PruneStateFiles ==
  /\ pc = "prune"
  /\ files' = [b \in Block |-> IF Prunable(b) THEN NoFiles ELSE files[b]]
  /\ pc' = "watermark"
  /\ UNCHANGED <<chain, process, memory, reorg, db, txlist, at, idx, base,
                 connecting>>

\* The last step of mastercore_save_state
SetWatermark ==
  /\ pc = "watermark"
  /\ db' = setWatermark(db, at)
  /\ pc' = "next"
  /\ UNCHANGED <<chain, process, memory, reorg, files, txlist, at, idx, base,
                 connecting>>

-----------------------------------------------------------------------------
(* load_most_relevant_state and the rescan that follows it.                *)

\* Where to start: at the watermark, or, when that block is not in the index,
\* at the highest known block that has any state file.
FindWatermark ==
  /\ pc = "load"
  /\ LET found == {b \in known : HasFiles(b)}
     IN  \/ /\ \/ db.watermark = None
               \/ db.watermark \notin known /\ found = {}
            /\ pc' = "clear"
            /\ UNCHANGED <<db, at>>
         \/ /\ db.watermark \in known
            /\ pc' = "pop" /\ at' = db.watermark
            /\ UNCHANGED db
         \/ /\ db.watermark \notin known \cup {None}
            /\ \E b \in found :
                 /\ \A c \in found : Height[c] <= Height[b]
                 /\ at' = b
                 /\ db' = setWatermark(db, b)
            /\ pc' = "pop"
  /\ UNCHANGED <<chain, process, memory, reorg, files, txlist, idx, base,
                 connecting>>

\* Pop the block `at`; a failure ends in a reparse.
PopAnd(next) ==
  /\ IF popBlockFails(db, at)
     THEN pc' = "clear" /\ UNCHANGED db
     ELSE pc' = next /\ db' = popBlock(db, at)
  /\ UNCHANGED <<chain, process, memory, reorg, files, txlist, at, idx, base,
                 connecting>>

\* First loop: roll back the blocks that left the active chain.
PopInactive == pc = "pop" /\ at \notin Active /\ PopAnd("popmark")

PopMark ==
  /\ pc = "popmark"
  /\ at' = Parent[at]
  /\ db' = setWatermark(db, Parent[at])
  /\ pc' = "pop"
  /\ UNCHANGED <<chain, process, memory, reorg, files, txlist, idx, base,
                 connecting>>

\* The files are loaded although one of them fails its hash validation.
LoadStateFiles_unverified ==
  /\ pc = "pop" /\ at \in Persisted
  /\ \A f \in FileType : files[at][f] # None
  /\ LET read(f) == IF files[at][f] = Torn THEN Garbled ELSE files[at][f]
     IN  /\ maps' = IF read("balances") = read("register")
                    THEN read("balances") ELSE Garbled
         /\ next_spid' = IF files[at]["globals"] = Torn THEN 0
                         ELSE files[at]["globals"]
         /\ volume' = read("globalvars")
  /\ base' = at /\ pc' = "next"
  /\ UNCHANGED <<chain, process, reorg, stored, at, idx, connecting>>

\* The files of next_spid and of the volume are left out.
LoadStateFiles_mapsOnly ==
  /\ pc = "pop" /\ at \in Persisted /\ Complete(at)
  /\ maps' = files[at]["balances"]
  /\ base' = at /\ pc' = "next"
  /\ UNCHANGED <<next_spid, volume, chain, process, reorg, stored, at, idx,
                 connecting>>

\* Second loop, first round: all the files of spBlockIndex are good.
LoadStateFiles ==
  /\ pc = "pop" /\ at \in Persisted /\ Complete(at)
  /\ maps' = IF files[at]["balances"] = files[at]["register"]
             THEN files[at]["balances"] ELSE Garbled
  /\ next_spid' = files[at]["globals"]
  /\ volume' = files[at]["globalvars"]
  /\ base' = at /\ pc' = "next"
  /\ UNCHANGED <<chain, process, reorg, stored, at, idx, connecting>>

\* msc_file_load reads line by line and validates the hash last, so a failed
\* load leaves what it has read: the files before the first bad one, and
\* whatever could be read of that one.
LoadFails ==
  /\ pc = "pop" /\ at \in Persisted /\ ~Complete(at)
  /\ maps' = Garbled
  /\ LET bad(f) == files[at][f] \in {None, Torn}
     IN  /\ next_spid' \in
              IF bad("balances") THEN {next_spid}
              ELSE IF bad("globals") THEN {next_spid, 0}
              ELSE {files[at]["globals"]}
         /\ volume' \in
              IF bad("balances") \/ bad("globals") THEN {volume}
              ELSE IF bad("globalvars") THEN {volume, Garbled}
              ELSE {files[at]["globalvars"]}
  /\ base' = at /\ pc' = "walk"
  /\ UNCHANGED <<chain, process, reorg, stored, at, idx, connecting>>

\* spBlockIndex has no file at all.
NoFilesFound ==
  /\ pc = "pop" /\ at \in Active \ Persisted
  /\ base' = at
  /\ pc' = IF Persisted = {} THEN "clear" ELSE "walk"
  /\ UNCHANGED <<chain, process, memory, reorg, stored, at, idx, connecting>>

\* Second loop, later rounds: the lookup is for spBlockIndex, which is not
\* or no longer in persistedBlocks, so nothing is loaded; curTip goes back
\* until the attempts are used up.  Blocks before Genesis have no properties.
WalkBack ==
  /\ pc = "walk"
  /\ IF at = Genesis
     THEN /\ pc' = "clear"
          /\ UNCHANGED <<chain, process, memory, reorg, stored, at, idx, base,
                         connecting>>
     ELSE PopAnd("walkmark")

\* curTip stays where it is.
WalkMark_stuck ==
  /\ pc = "walkmark"
  /\ db' = setWatermark(db, Parent[at])
  /\ pc' = "walk"
  /\ UNCHANGED <<chain, process, memory, reorg, files, txlist, at, idx, base,
                 connecting>>

WalkMark ==
  /\ pc = "walkmark"
  /\ at' = Parent[at]
  /\ db' = setWatermark(db, Parent[at])
  /\ pc' = IF /\ Persisted \ {base} # {}
              /\ Height[Parent[at]] > Height[base] - (MAX_STATE_HISTORY + 1)
           THEN "walk" ELSE "clear"
  /\ UNCHANGED <<chain, process, memory, reorg, files, txlist, idx, base,
                 connecting>>

\* clear_all_state: the volume is not reset.
ClearAllState ==
  /\ pc = "clear"
  /\ maps' = Genesis /\ next_spid' = FirstId
  /\ db' = EmptyDatabase
  /\ txlist' = NoRecords
  /\ pc' = "next" /\ at' = Genesis
  /\ reparsed' = (reparsed \/ volume # Genesis)
  /\ UNCHANGED <<chain, shutdown, broken, failures, volume, reorg, files, idx,
                 base, connecting>>

\* msc_initial_scan announces the block after `at` to block_begin...
ScanBlock ==
  /\ pc = "next" /\ at # tip /\ ~shutdown
  /\ \E b \in Active \ {Genesis} : Parent[b] = at /\ at' = b
  /\ BlockBegin(at')
  /\ pc' = "read"
  /\ UNCHANGED <<chain, process, maps, volume, reorg, files, txlist, idx, base,
                 connecting>>

\* ...and then reads it.
ReadBlockFromDisk ==
  /\ pc = "read"
  /\ pc' = "txs" /\ idx' = 1
  /\ UNCHANGED <<chain, process, memory, reorg, stored, at, base, connecting>>

\* The scan is over, or is broken off by a shutdown or by a block that cannot
\* be read.  In each case the node goes on, with the block being connected.
ScanEnds ==
  /\ \/ /\ pc = "next" /\ (at = tip \/ shutdown)
        /\ UNCHANGED failures
     \/ /\ pc = "read" /\ MayFail("unreadable")
        /\ failures' = failures + 1
  /\ broken' = (broken \/ pc = "read" \/ at # tip)
  /\ \/ /\ connecting # None
        /\ Process(connecting)
     \/ /\ connecting = None
        /\ pc' = "idle"
        /\ UNCHANGED <<tip, at, idx, connecting, db, next_spid>>
  /\ UNCHANGED <<known, disk, shutdown, reparsed, maps, volume, reorg, files,
                 txlist, base>>

-----------------------------------------------------------------------------
(* The process.                                                            *)

RequestShutdown ==
  /\ pc # "down" /\ ~shutdown /\ MayFail("shutdown")
  /\ shutdown' = TRUE /\ failures' = failures + 1
  /\ UNCHANGED <<chain, broken, reparsed, memory, reorg, stored, control>>

\* What is left when the process is gone
Down ==
  /\ pc' = "down" /\ connecting' = None /\ idx' = 1
  /\ maps' = Genesis /\ volume' = Genesis /\ next_spid' = FirstId
  /\ reorgRecoveryMode' = 0 /\ reorgRecoveryMaxHeight' = 0
  /\ shutdown' = FALSE
  /\ UNCHANGED <<broken, reparsed, db, txlist, at, base>>

Shutdown ==
  /\ pc = "idle" /\ shutdown
  /\ Down
  /\ disk' = [tip |-> tip, known |-> known]
  /\ UNCHANGED <<tip, known, files, failures>>

\* The base node goes back to what it had flushed.  The state files are not
\* synced, so one of the block being saved, or saved last, may be incomplete.
Crash ==
  /\ pc # "down" /\ MayFail("crash")
  /\ failures' = failures + 1
  /\ Down
  /\ tip' = disk.tip /\ known' = disk.known
  /\ \/ files' = files
     \/ \E b \in {at, db.watermark} \ {None}, f \in FileType :
          files[b][f] # None /\ files' = [files EXCEPT ![b][f] = Torn]
  /\ UNCHANGED disk

\* mastercore_init
Start ==
  /\ pc = "down"
  /\ pc' = "load"
  /\ UNCHANGED <<chain, process, memory, reorg, stored, at, idx, base,
                 connecting>>

-----------------------------------------------------------------------------
Handlers ==
  \/ ProcessTx \/ BlockEnd \/ WriteStateFile \/ PruneStateFiles
  \/ SetWatermark \/ FindWatermark \/ PopInactive \/ PopMark
  \/ LoadStateFiles \/ LoadFails \/ NoFilesFound \/ WalkBack \/ WalkMark
  \/ ClearAllState \/ ScanBlock \/ ReadBlockFromDisk \/ ScanEnds \/ Start

Environment ==
  \/ DisconnectTip
  \/ \E b \in Block : ConnectTip(b)
  \/ RequestShutdown \/ Shutdown \/ Crash

Next == Handlers \/ Environment

Spec == Init /\ [][Next]_vars

\* A handler that has been called goes on.
FairSpec == Spec /\ WF_vars(Handlers)

-----------------------------------------------------------------------------
(* What the registry should hold, computed from the chain alone.  A        *)
(* position <<c, i>> is the i-th transaction of block c.                   *)

Positions(b) == UNION {{c} \X (1 .. Len(Txs[c])) : c \in Branch[b]}
TxAt(p) == Txs[p[1]][p[2]]
\* The positions before p in the branch of its block
Before(p) == {q \in Positions(p[1]) : q[1] # p[1] \/ q[2] < p[2]}
Creates(P) == {q \in P : TxAt(q).type = "create"}
Vested(b) == IF Height[b] >= MSC_VESTING_CREATION_BLOCK THEN 1 ELSE 0
NextId(b) == FirstId + Vested(b) + Cardinality(Creates(Positions(b)))
IdOf(p) == FirstId + Vested(p[1]) + Cardinality(Creates(Before(p)))
GrantsProperty(p, q) ==
  /\ TxAt(p).type = "grant" /\ q \in Creates(Before(p))
  /\ TxAt(p).property # TL_PROPERTY_VESTING
  /\ IdOf(q) = TxAt(p).property
  /\ TxAt(q).manual /\ TxAt(q).sender = TxAt(p).sender

\* What the theorems about the registry assume of the blocks: no property is
\* created before the vesting tokens.
VestingFirst ==
  \A b \in Block : Vested(b) = 0 => Creates(Positions(b)) = {}

-----------------------------------------------------------------------------
(* Properties.                                                             *)

\* The handlers have caught up with the base node, and no scan was broken off.
Settled == pc = "idle" /\ reorgRecoveryMode = 0 /\ ~broken

RecordOK == ({0} \X {PKT_ERROR - 100} \X Nat) \cup {None}

ChainOK == /\ tip \in Block /\ known \subseteq Block
           /\ disk \in [tip : Block, known : SUBSET Block]
ProcessOK == /\ {shutdown, broken, reparsed} \subseteq BOOLEAN
             /\ failures \in 0 .. MaxFailures
MemoryOK == maps \in Part /\ volume \in Part /\ next_spid \in Nat
ReorgOK == reorgRecoveryMode \in {0, 1} /\ reorgRecoveryMaxHeight \in Nat
StoredOK == /\ files \in [Block -> StateFiles] /\ db \in Database
            /\ txlist \in [Tx -> RecordOK]
ControlOK == /\ pc \in Phase /\ at \in Block /\ idx \in Nat \ {0}
             /\ base \in Block /\ connecting \in Block \cup {None}

\* The variables have the types their declarations say.
TypeOK ==
  ChainOK /\ ProcessOK /\ MemoryOK /\ ReorgOK /\ StoredOK /\ ControlOK

\* Whenever the handlers have caught up, the blocks applied to the maps that
\* clear_all_state clears (balances, offers, channels, orders...) are those of
\* the active chain: none was left out or applied twice and none of another
\* branch is in them, whatever was disconnected, stopped, crashed or torn
\* before.  load_most_relevant_state, block_begin, msc_initial_scan.
ChainAppliedOnce == Settled => maps = tip

\* The same holds of the litecoin volume, by which tokens vest, unless
\* clear_all_state was ever called while it was not 0, since it is not reset: a
\* reparse in a node that was just started and has loaded no file is harmless,
\* one after a failed load or in a running node is not.
VolumeMatchesChain == Settled /\ ~reparsed => volume = tip

\* Then next_spid, from which the next property gets its identifier, is the
\* one the chain determines: a property has the same identifier on every
\* node.  putSP, the "globals" state file, CMPSPInfo::Clear.
NextSPIDMatchesChain == Settled => next_spid = NextId(tip)

\* Then the registry on disk has every property of the active chain under the
\* identifier the chain gives it, with its transaction, issuer, kind and block:
\* popBlock and the rescan have neither lost one nor left one of another branch
\* in its place.  How many tokens were granted is not compared.  putSP,
\* updateSP, popBlock, load_most_relevant_state.
SPMatchesChain ==
  Settled =>
    \A q \in Creates(Positions(tip)) :
       LET sp == db.s[IdOf(q)]
       IN  /\ sp # None
           /\ sp.txid = TxAt(q).txid /\ sp.creation_block = q[1]
           /\ sp.issuer = TxAt(q).sender /\ sp.manual = TxAt(q).manual

\* The registry allows a grant exactly when the chain up to it has a property
\* with that identifier, managed by the sender, though it may still hold
\* properties of another branch.  Of the checks of a grant, those on the
\* registry do not depend on what this node had connected before.
\* logicMath_GrantTokens.
RegistryJudgesAlike ==
  [][pc = "txs" /\ idx <= Len(Txs[at]) /\ pc' = "txs"
       /\ Txs[at][idx].type = "grant" /\ ~broken =>
     (RegistryAllows(Txs[at][idx])
        <=> \E q \in Creates(Before(<<at, idx>>)) :
               GrantsProperty(<<at, idx>>, q))]_vars

\* Every call of a handler comes to an end, the recovery from any
\* combination of reorganisations, crashes and torn files included.
RecoveryEnds == pc # "idle" ~> pc = "idle"

\* Whenever the handlers have caught up, every transaction in the transaction
\* list is one of the active chain, at the height recorded.  recordTX says
\* that "reorgs delete all txs from levelDB above reorg_chain_height".
TxListMatchesChain ==
  Settled => \A x \in Tx : txlist[x] # None =>
               \E p \in Positions(tip) :
                  TxAt(p).txid = x /\ txlist[x][3] = Height[p[1]]

=============================================================================
