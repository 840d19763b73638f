------------------------- MODULE ResumePatchProofs -------------------------
(***************************************************************************)
(* What dump and restore promise for every patch, every number of crashes  *)
(* and every place of the dumps: the engine comes back in a state it could *)
(* have been in without the crash, and at the byte it was dumped at.       *)
(***************************************************************************)
EXTENDS ResumePatch, PatchReferenceProofs

(***************************************************************************)
(* The inductive invariant.  While the engine runs it is that of the       *)
(* engine.  A crash leaves what the next start does not look at; the       *)
(* patch, the target and the dump are all that counts.                     *)
(***************************************************************************)
Running ==
  pc \notin {"crashed", "done"} => IInv /\ Processing /\ FailureKnown

Stopped ==
  pc \in {"crashed", "done"} => call = "none" /\ SuccessIsExact

KeptByCrash ==
  /\ patch \in Patches /\ patch_size \in 0 .. PatchLen(patch)
  /\ out \in Seq(Byte) /\ ret \in Int

(* What a dump holds that an engine can go on with.                        *)
DumpTyped(d) ==
  /\ d.state \in States \ {"failed"}
  /\ d.patch_offset \in 0 .. patch_size
  /\ d.window_known \in BOOLEAN
  /\ d.sunk \in 0 .. Len(patch.upto) /\ d.taken \in 0 .. Upto(patch, d.sunk)
  /\ d.usize \in UsizeType
  /\ d.to_size \in Nat /\ d.to_offset \in Nat
  /\ d.chunk_size \in 0 .. SIZE_MOD - 1
  /\ d.from_offset \in Int

(* It was written between two chunks: every byte of patch that had been    *)
(* read is in the header or in the decoder.                                *)
DumpAccounted(d) ==
  /\ ~d.window_known => d.sunk = 0 /\ d.taken = 0
  /\ d.state = "init" => ~d.window_known
  /\ d.usize.state = "consecutive" => d.usize.offset # 0
  /\ d.patch_offset = (IF d.window_known THEN 1 + d.sunk ELSE 0)
                        + (IF d.state = "init" THEN 0 ELSE patch.head_len)

(* Its sizes are those of the target.                                      *)
DumpFits(d) ==
  /\ d.state # "init" => d.to_size = patch.to_size
  /\ d.state = "init" => d.to_offset = 0
  /\ d.state = "done" => d.to_offset = d.to_size
  /\ d.state \in DataStates => (d.to_offset + d.chunk_size) % SIZE_MOD <= d.to_size

(* The target still starts with what it was when the dump was written.     *)
DumpSound ==
  \/ dumped = NoDump /\ due = 0
  \/ /\ DumpTyped(dumped) /\ DumpAccounted(dumped) /\ DumpFits(dumped)
     /\ dumped.to_offset = due /\ due <= Len(out)

ResumeInv == Running /\ Stopped /\ KeptByCrash /\ DumpSound

-----------------------------------------------------------------------------
(* A dump stays good while the target grows.                               *)
LEMMA DumpStays ==
  ASSUME DumpSound, UNCHANGED << dumped, due, patch, patch_size >>,
         due <= Len(out) => due <= Len(out')
  PROVE  DumpSound'
BY DEF DumpSound, DumpTyped, DumpAccounted, DumpFits, NoDump

(* What the engine's own invariant says of the parts that outlive a crash. *)
LEMMA EngineKeeps ==
  ASSUME IInv
  PROVE  KeptByCrash /\ SuccessIsExact /\ (pc = "done" => call = "none")
BY DEF IInv, TypeOK, InputTypeOK, TargetTypeOK, KeptByCrash, Exact, Phases

(* No dump has been written at first.                                      *)
LEMMA ResumeInitKeeps ==
  ASSUME ResumeInit
  PROVE  ResumeInv
<1>1. IInv
  BY InitEstablishes DEF ResumeInit
<1>2. Processing /\ FailureKnown
  BY DEF ResumeInit, Init, Processing, FailureKnown
<1>3. KeptByCrash
  BY <1>1, EngineKeeps
<1>4. Stopped /\ DumpSound
  BY DEF ResumeInit, Init, Stopped, DumpSound
<1> QED
  BY <1>1, <1>2, <1>3, <1>4 DEF ResumeInv, Running

(* Nothing happens any more once the engine has returned.                  *)
LEMMA DoneIsDone ==
  ASSUME pc = "done", call = "none"
  PROVE  ~Next
BY DEF Next, Engine, Callback, ProcessEnd, FinalizeStart, Finalize, ProcessInit,
   UnpackStops, UnpackOverflows, UnpackContinues, ProcessDfpatchSize, ProcessSize,
   ProcessAdjustment, SectionEnd, DecompressData, ProcessNothing, Unpack, Unpacking,
   Once, PatchRead, FromRead, FromSeek, ToWrite

(* The engine at work keeps the invariant, and the dump its place.         *)
LEMMA WorkKeeps ==
  ASSUME ResumeInv, Work
  PROVE  ResumeInv'
<1>1. /\ IInv /\ Processing /\ FailureKnown /\ Next
      /\ UNCHANGED << dumped, crashes, told, due >>
  BY DoneIsDone DEF Work, ResumeInv, Running, Stopped
<1>2. /\ IInv' /\ Processing' /\ FailureKnown'
      /\ UNCHANGED << patch, patch_size >>
      /\ out' = out \/ out' = out \o buf
      /\ pc' # "crashed"
  <2>1. CASE Engine
    BY <1>1, <2>1, EngineStep, EngineQuiet DEF Quiet
  <2>2. ASSUME NEW r, Callback(r)
        PROVE  /\ IInv' /\ Processing' /\ FailureKnown'
               /\ UNCHANGED << patch, patch_size >>
               /\ out' = out \/ out' = out \o buf
               /\ pc' # "crashed"
    <3>1. IInv'
      BY <1>1, <2>2, PatchReadStep, FromReadStep, FromSeekStep, ToWriteStep DEF Callback
    <3> QED
      BY <1>1, <2>2, <3>1, CallbackQuiet
  <2> QED
    BY <1>1, <2>1, <2>2 DEF Next
<1>3. (KeptByCrash /\ SuccessIsExact /\ (pc = "done" => call = "none"))'
  BY <1>2, EngineKeeps, PTL
<1>4. DumpSound'
  <2>1. out \in Seq(Byte) /\ buf \in Seq(Byte)
    BY <1>1 DEF IInv, TypeOK, TargetTypeOK, SourceTypeOK
  <2>2. Len(out \o buf) = Len(out) + Len(buf) /\ Len(out) \in Nat /\ Len(buf) \in Nat
    BY <2>1
  <2>3. DumpSound => due \in Nat
    BY DEF DumpSound, DumpTyped
  <2>4. due <= Len(out) => due <= Len(out')
    BY <1>2, <2>2, <2>3 DEF ResumeInv
  <2> QED
    BY <1>1, <1>2, <2>4, DumpStays DEF ResumeInv
<1> QED
  BY <1>2, <1>3, <1>4 DEF ResumeInv, Running, Stopped

(* Between two chunks, all that the engine knows is in a dump of it.       *)
LEMMA DumpKeeps ==
  ASSUME ResumeInv, Dump
  PROVE  ResumeInv'
<1>1. /\ IInv /\ Processing /\ FailureKnown /\ KeptByCrash
      /\ pc = "read" /\ cb_res = 0 /\ UNCHANGED vars
      /\ dumped' \in {Dumped, NoDump}
      /\ due' = IF dumped' = NoDump THEN 0 ELSE Len(out)
  BY DEF Dump, ResumeInv, Running
<1>2. state # "failed"
  BY <1>1 DEF FailureKnown, IInv, TypeOK, InputTypeOK
<1>3. IInv' /\ Processing' /\ FailureKnown' /\ KeptByCrash' /\ Stopped' /\ Running'
  <2>1. IInv'
    BY <1>1, StutterStep
  <2>2. Processing' /\ FailureKnown' /\ KeptByCrash'
    BY <1>1 DEF Processing, FailureKnown, KeptByCrash, vars, input_vars, target_vars
  <2>3. pc' = "read"
    BY <1>1 DEF vars
  <2> QED
    BY <2>1, <2>2, <2>3 DEF Stopped, Running
<1>4. DumpSound'
  <2>1. CASE dumped' = NoDump
    BY <1>1, <2>1 DEF DumpSound
  <2>2. CASE dumped' = Dumped /\ dumped' # NoDump
    <3>1. /\ dumped' = Dumped /\ due' = Len(out) /\ out' = out
          /\ patch' = patch /\ patch_size' = patch_size
      BY <1>1, <2>2 DEF vars, input_vars, target_vars
    <3>2. DumpTyped(Dumped)
      BY <1>1, <1>2 DEF DumpTyped, Dumped, IInv, TypeOK, InputTypeOK, ControlTypeOK,
         ReaderTypeOK, TargetTypeOK, SourceTypeOK, UsizeType
    <3>3. DumpAccounted(Dumped)
      <4>1. chunk_left = 0
        BY <1>1, <1>2 DEF IInv, Phases
      <4>2. patch_offset = (IF window_known THEN 1 + sunk ELSE 0)
                             + (IF state = "init" THEN 0 ELSE patch.head_len)
        <5>1. patch.head_len \in Nat /\ sunk \in Nat
          BY <1>1, PatchFacts DEF IInv, TypeOK, ReaderTypeOK, InputTypeOK
        <5> QED
          BY <1>1, <1>2, <4>1, <5>1 DEF IInv, Accounted, Compressed
      <4> QED
        BY <1>1, <4>2 DEF DumpAccounted, Dumped, IInv, Accounted
    <3>4. DumpFits(Dumped) /\ Dumped.to_offset = Len(out)
      BY <1>1, <1>2 DEF DumpFits, Dumped, IInv, Exact, SectionFits
    <3>5. Len(out) <= Len(out)
      BY <1>1 DEF KeptByCrash
    <3> QED
      BY <3>1, <3>2, <3>3, <3>4, <3>5 DEF DumpSound, DumpTyped, DumpAccounted, DumpFits
  <2> QED
    BY <1>1, <2>1, <2>2
<1> QED
  BY <1>3, <1>4 DEF ResumeInv

(* A crash leaves the target and the dump.                                 *)
LEMMA CrashKeeps ==
  ASSUME ResumeInv, Crash
  PROVE  ResumeInv'
<1>1. pc' = "crashed" /\ call' = "none"
      /\ UNCHANGED << input_vars, target_vars, dumped, due >>
  BY DEF Crash
<1>2. Running' /\ Stopped'
  BY <1>1 DEF Running, Stopped, SuccessIsExact
<1>3. KeptByCrash'
  BY <1>1 DEF ResumeInv, KeptByCrash, input_vars, target_vars
<1>4. DumpSound'
  BY <1>1, DumpStays DEF ResumeInv, input_vars, target_vars, KeptByCrash
<1> QED
  BY <1>2, <1>3, <1>4 DEF ResumeInv

(* An engine opened anew that takes over a good dump, and a target of the  *)
(* length the dump tells, is one the engine could have come to by itself.  *)
LEMMA Reopened ==
  ASSUME KeptByCrash, Opened,
         NEW d, DumpTyped(d), DumpAccounted(d), DumpFits(d),
         NEW o \in Seq(Byte), Len(o) = d.to_offset, out' = o,
         NEW i \in Int, from_pos' = i,
         state' = d.state, patch_offset' = d.patch_offset,
         to_offset' = d.to_offset, to_size' = d.to_size,
         from_offset' = d.from_offset, chunk_size' = d.chunk_size,
         window_known' = d.window_known, usize' = d.usize,
         sunk' = d.sunk, taken' = d.taken
  PROVE  Running' /\ Stopped' /\ KeptByCrash'
<1>1. /\ pc' = "read" /\ call' = "none" /\ res' = 0 /\ cb_res' = 0
      /\ chunk_left' = 0 /\ seek' = 0 /\ buf' = << >>
      /\ patch' = patch /\ patch_size' = patch_size /\ ret' = ret
  BY DEF Opened
<1>2. TypeOK'
  <2>1. InputTypeOK'
    BY <1>1 DEF InputTypeOK, KeptByCrash, DumpTyped
  <2>2. ControlTypeOK'
    BY <1>1 DEF ControlTypeOK, DumpTyped, States
  <2>3. ReaderTypeOK'
    <3>1. window_known' \in BOOLEAN
      BY DEF DumpTyped
    <3>2. chunk_left' \in 0 .. CHUNK_BUF
      BY <1>1, ChunkAssumption
    <3>3. (sunk \in 0 .. Len(patch.upto) /\ taken \in 0 .. Upto(patch, sunk))'
      BY <1>1 DEF DumpTyped
    <3>4. (usize \in UsizeType)'
      BY DEF DumpTyped
    <3> QED
      BY <3>1, <3>2, <3>3, <3>4 DEF ReaderTypeOK, UsizeType
  <2>4. TargetTypeOK'
    BY DEF TargetTypeOK, DumpTyped
  <2>5. SourceTypeOK'
    BY <1>1, ChunkAssumption DEF SourceTypeOK, DumpTyped
  <2> QED
    BY <2>1, <2>2, <2>3, <2>4, <2>5 DEF TypeOK
<1>3. Accounted'
  <2>1. patch.head_len \in Nat /\ d.sunk \in Nat
    BY PatchFacts DEF KeptByCrash, DumpTyped
  <2> QED
    BY <1>1, <2>1 DEF Accounted, Compressed, DumpAccounted
<1>4. Phases'
  BY <1>1 DEF Phases
<1>5. SectionFits' /\ Exact'
  BY <1>1 DEF SectionFits, Exact, SuccessIsExact, DumpFits, DumpTyped, DETOOLS_ALREADY_DONE
<1>6. Processing' /\ FailureKnown'
  BY <1>1 DEF Processing, FailureKnown, DumpTyped
<1>7. KeptByCrash'
  BY <1>1 DEF KeptByCrash
<1> QED
  BY <1>1, <1>2, <1>3, <1>4, <1>5, <1>6, <1>7 DEF IInv, Running, Stopped

(* What detools_apply_patch_init makes of a new object, as a dump of it.   *)
FreshDump ==
  [state |-> "init", patch_size |-> patch_size, patch_offset |-> 0,
   to_offset |-> 0, to_size |-> 0, from_offset |-> 0, chunk_size |-> 0,
   window_known |-> FALSE, sunk |-> 0, taken |-> 0,
   usize |-> [state |-> "first", value |-> 0, offset |-> 0, is_signed |-> FALSE]]

(* An engine that starts anew is as it was at first.                       *)
LEMMA FreshReopened ==
  ASSUME ResumeInv, Opened, Fresh
  PROVE  Running' /\ Stopped' /\ KeptByCrash'
<1>1. KeptByCrash
  BY DEF ResumeInv
<1>2. DumpTyped(FreshDump)
  <2>1. FreshDump.usize \in UsizeType /\ FreshDump.window_known \in BOOLEAN
    <3>1. 0 \in Int /\ FALSE \in BOOLEAN
      OBVIOUS
    <3> QED
      BY <3>1, Zenon DEF FreshDump, UsizeType
  <2>2. Upto(patch, 0) = 0 /\ Len(patch.upto) \in Nat
    BY <1>1, PatchFacts DEF Upto, KeptByCrash
  <2>3. patch_size \in Nat
    BY <1>1 DEF KeptByCrash
  <2> QED
    BY <2>1, <2>2, <2>3, SizeAssumption DEF DumpTyped, FreshDump, States
<1>3. DumpAccounted(FreshDump) /\ DumpFits(FreshDump)
  BY DEF DumpAccounted, DumpFits, FreshDump, DataStates
<1>4. PICK o \in Seq(Byte), i \in Int :
        Len(o) = FreshDump.to_offset /\ out' = o /\ from_pos' = i
  <2>1. << >> \in Seq(Byte) /\ Len(<< >>) = FreshDump.to_offset /\ 0 \in Int
    BY DEF FreshDump
  <2> QED
    BY <2>1 DEF Fresh
<1>5. /\ Opened
      /\ state' = FreshDump.state /\ patch_offset' = FreshDump.patch_offset
      /\ to_offset' = FreshDump.to_offset /\ to_size' = FreshDump.to_size
      /\ from_offset' = FreshDump.from_offset /\ chunk_size' = FreshDump.chunk_size
      /\ window_known' = FreshDump.window_known /\ usize' = FreshDump.usize
      /\ sunk' = FreshDump.sunk /\ taken' = FreshDump.taken
  BY DEF Fresh, FreshDump
<1> QED
  BY <1>1, <1>2, <1>3, <1>4, <1>5, Reopened

(* An update that starts over,                                             *)
LEMMA StartOverKeeps ==
  ASSUME ResumeInv, StartOver \/ RestoreInit
  PROVE  ResumeInv'
<1>1. Running' /\ Stopped' /\ KeptByCrash'
  BY FreshReopened DEF StartOver, RestoreInit
<1>2. /\ Opened /\ Fresh
      /\ dumped = NoDump \/ dumped.state = "init"
  BY DEF StartOver, RestoreInit
<1>3. due = 0
  BY <1>2 DEF ResumeInv, DumpSound, DumpFits, DumpTyped, States, NoDump
<1>4. DumpSound'
  <2>1. Len(out') = 0 /\ UNCHANGED << dumped, due, patch, patch_size >>
    BY <1>2 DEF Opened, Fresh
  <2> QED
    BY <1>3, <2>1, DumpStays DEF ResumeInv
<1> QED
  BY <1>1, <1>4 DEF ResumeInv

(* The target is cut back to where the dump was written.                   *)
LEMMA RestoredFacts ==
  ASSUME ResumeInv, Restore
  PROVE  /\ DumpTyped(dumped) /\ DumpAccounted(dumped) /\ DumpFits(dumped)
         /\ CutBack(due) \in Seq(Byte) /\ Len(CutBack(due)) = due
         /\ dumped.to_offset = due /\ told' = due /\ out' = CutBack(due)
         /\ due \in Nat
<1>1. /\ DumpTyped(dumped) /\ DumpAccounted(dumped) /\ DumpFits(dumped)
      /\ dumped.to_offset = due /\ due <= Len(out)
  BY DEF ResumeInv, DumpSound, Restore, NoDump
<1>2. due \in Nat /\ out \in Seq(Byte)
  BY <1>1 DEF DumpTyped, ResumeInv, KeptByCrash
<1>3. CutBack(due) \in Seq(Byte) /\ Len(CutBack(due)) = due
  <2>1. CASE due < Len(out)
    BY <1>2, <2>1 DEF CutBack
  <2>2. CASE ~(due < Len(out))
    BY <1>1, <1>2, <2>2 DEF CutBack
  <2> QED
    BY <2>1, <2>2
<1>4. told' = due /\ out' = CutBack(due)
  BY <1>1 DEF Restore
<1> QED
  BY <1>1, <1>2, <1>3, <1>4

(* one that goes on from its dump,                                         *)
LEMMA RestoreKeeps ==
  ASSUME ResumeInv, Restore
  PROVE  ResumeInv'
<1>1. /\ DumpTyped(dumped) /\ DumpAccounted(dumped) /\ DumpFits(dumped)
      /\ CutBack(due) \in Seq(Byte) /\ Len(CutBack(due)) = due
      /\ dumped.to_offset = due /\ told' = due /\ out' = CutBack(due)
      /\ due \in Nat
  BY RestoredFacts
<1>2. Opened /\ from_pos' = dumped.from_offset /\ dumped.from_offset \in Int
  BY <1>1 DEF Restore, RestoredPosition, DumpTyped
<1>3. /\ state' = dumped.state /\ patch_offset' = dumped.patch_offset
      /\ to_offset' = dumped.to_offset /\ to_size' = dumped.to_size
      /\ from_offset' = dumped.from_offset /\ chunk_size' = dumped.chunk_size
      /\ window_known' = dumped.window_known /\ usize' = dumped.usize
      /\ sunk' = dumped.sunk /\ taken' = dumped.taken
  BY DEF Restore
<1>4. Running' /\ Stopped' /\ KeptByCrash'
  BY <1>1, <1>2, <1>3, Reopened DEF ResumeInv
<1>5. DumpSound'
  <2>1. due <= Len(out') /\ UNCHANGED << dumped, due, patch, patch_size >>
    BY <1>1, <1>2 DEF Opened
  <2> QED
    BY <2>1, DumpStays DEF ResumeInv
<1> QED
  BY <1>4, <1>5 DEF ResumeInv

(* and one whose restore fails.                                            *)
LEMMA RestoreFailsKeeps ==
  ASSUME ResumeInv, RestoreFails
  PROVE  ResumeInv'
<1>1. /\ pc' = "done" /\ ret' = -10 /\ call' = call /\ pc = "crashed"
      /\ UNCHANGED << patch, patch_size, out, dumped, due >>
  BY DEF RestoreFails, DETOOLS_IO_FAILED, target_vars
<1>2. Running' /\ Stopped' /\ KeptByCrash'
  BY <1>1 DEF ResumeInv, Running, Stopped, SuccessIsExact, KeptByCrash
<1>3. DumpSound'
  BY <1>1, DumpStays DEF ResumeInv
<1> QED
  BY <1>2, <1>3 DEF ResumeInv

(* Nothing changes.                                                        *)
LEMMA ResumeStutter ==
  ASSUME ResumeInv, UNCHANGED resume_vars
  PROVE  ResumeInv'
<1>1. UNCHANGED vars /\ UNCHANGED << dumped, due >>
  BY DEF resume_vars
<1>2. IInv => IInv'
  BY <1>1, StutterStep
<1>3. UNCHANGED << pc, call, res, cb_res, state, ret, patch, patch_size, out >>
  BY <1>1 DEF vars, input_vars, target_vars
<1>4. Running' /\ Stopped' /\ KeptByCrash'
  BY <1>2, <1>3 DEF ResumeInv, Running, Stopped, KeptByCrash, Processing,
     FailureKnown, SuccessIsExact
<1>5. DumpSound'
  BY <1>1, <1>3, DumpStays DEF ResumeInv
<1> QED
  BY <1>4, <1>5 DEF ResumeInv

(* The inductive invariant holds throughout.                               *)
LEMMA ResumeInvariance == ResumeSpec => []ResumeInv
<1>1. ResumeInv /\ [ResumeNext]_resume_vars => ResumeInv'
  BY WorkKeeps, DumpKeeps, CrashKeeps, StartOverKeeps, RestoreKeeps,
     RestoreFailsKeeps, ResumeStutter DEF ResumeNext
<1> QED
  BY <1>1, ResumeInitKeeps, PTL DEF ResumeSpec

(***************************************************************************)
(* However often the update crashes and is taken up again: success means a *)
(* target of exactly the announced size (detools.c:642-668, 690-747).      *)
(***************************************************************************)
THEOREM ResumedIsExact == ResumeSpec => []SuccessIsExact
<1>1. ResumeInv => SuccessIsExact
  BY EngineKeeps DEF ResumeInv, Running, Stopped
<1> QED
  BY <1>1, ResumeInvariance, PTL

(***************************************************************************)
(* The offset an engine tells after restore is how many bytes of the       *)
(* target it had been granted when it was dumped, and that many are there  *)
(* when the target is cut back to it (detools.c:710-757).                  *)
(***************************************************************************)
THEOREM RestoreTellsWhatIsDue == ResumeSpec => RestoredOffsetIsDue
<1> DEFINE Comes == pc = "crashed" /\ pc' = "read" /\ dumped.state # "init" =>
                      told' = due /\ Len(out') = due
<1>1. ASSUME ResumeInv, [ResumeNext]_resume_vars,
             pc = "crashed", pc' = "read", dumped.state # "init"
      PROVE  told' = due /\ Len(out') = due
  <2>1. StartOver \/ Restore
    BY <1>1 DEF ResumeNext, Work, Dump, Crash, RestoreInit, RestoreFails,
       resume_vars, vars
  <2>2. CASE Restore
    BY <1>1, <2>2, RestoredFacts
  <2>3. CASE StartOver
    <3>1. due = 0
      BY <1>1, <2>3 DEF ResumeInv, DumpSound, StartOver, DumpTyped, NoDump, States
    <3> QED
      BY <2>3, <3>1 DEF StartOver, Fresh
  <2> QED
    BY <2>1, <2>2, <2>3
<1>2. ResumeInv /\ [ResumeNext]_resume_vars => [Comes]_resume_vars
  BY <1>1
<1> QED
  BY <1>2, ResumeInvariance, PTL DEF ResumeSpec, RestoredOffsetIsDue

-----------------------------------------------------------------------------
(***************************************************************************)
(* A dump is a place in the reading of the reference as well: d is the     *)
(* dump and o the target as it was then.                                   *)
(***************************************************************************)
DumpBegun(d) ==
  d.state # "init" =>
    /\ patch.type = PATCH_TYPE_SEQUENTIAL /\ patch.head_len <= 5
    /\ patch_size >= patch.head_len
    /\ d.state # "done" => d.to_size > 0
    /\ d.window_known => patch.heatshrink = HEATSHRINK_STATIC

DumpDrained(d) == \A i \in 0 .. d.sunk - 1 : Upto(patch, i) <= d.taken

DumpInNumber(d, o, r) ==
  /\ r.kind = d.state /\ o = r.out /\ d.from_offset = r.pos
  /\ NumberHeld(Plain, r.next, d.taken, d.usize)

DumpInSection(d, o, r) ==
  LET num == Number(Plain, r.next)
      w   == (num.value % SIZE_MOD) - d.chunk_size
  IN
  /\ r.kind = IF d.state = "diff_data" THEN "diff_size" ELSE "extra_size"
  /\ num.ok /\ d.usize.state = "first"
  /\ ~((Len(r.out) + num.value) % SIZE_MOD > d.to_size)
  /\ w \in Nat /\ d.taken = num.next - 1 + w + 0
  /\ d.from_offset = IF d.state # "diff_data" THEN r.pos ELSE r.pos + w + 0
  /\ SourceHas(r, w) /\ o = r.out \o Data(Plain, r, num.next, w)

DumpAtEnd(d, o, r) ==
  /\ r.kind = "end" /\ r.ret = d.to_size /\ o = r.out
  /\ d.taken = r.next - 1 /\ d.taken > 0
  /\ \A i \in 0 .. d.sunk - 1 : Upto(patch, i) < d.taken

DumpAt(d, o, r) ==
  /\ d.state \in SizeStates => DumpInNumber(d, o, r)
  /\ d.state \in DataStates => DumpInSection(d, o, r)
  /\ d.state = "done" => DumpAtEnd(d, o, r)

DumpFollows(d, o) ==
  \/ d.state = "init"
  \/ d.state = "done" /\ d.to_size = 0 /\ o = << >> /\ ~d.window_known
  \/ d.to_size > 0 /\ \E r : Reached(Plain, d.to_size, r) /\ DumpAt(d, o, r)

DumpMatches(d, o) == DumpBegun(d) /\ DumpDrained(d) /\ DumpFollows(d, o)

(* The position behind the callback and the offset that is dumped agree.   *)
ResumeMatching ==
  /\ InputTypeOK
  /\ from_offset = from_pos
  /\ pc \notin {"crashed", "done"} => Matching
  /\ Agrees(-DETOOLS_IO_FAILED)
  /\ pc = "done" => Agrees(ret)
  /\ dumped # NoDump => DumpMatches(dumped, CutBack(due))

(* The target cut back to the bytes that are due begins it.                *)
LEMMA CutBackIs ==
  ASSUME out \in Seq(Byte), due \in Nat, due <= Len(out)
  PROVE  /\ CutBack(due) \in Seq(Byte) /\ Len(CutBack(due)) = due
         /\ \A m \in 1 .. due : CutBack(due)[m] = out[m]
<1>1. PICK l \in Nat, n \in Nat : l = Len(out) /\ n = due /\ n <= l
  BY LenProperties
<1>2. CASE n < l
  <2>1. CutBack(due) = SubSeq(out, 1, n)
    BY <1>1, <1>2 DEF CutBack
  <2>2. \A m \in 1 .. n : out[m] \in Byte
    BY <1>1, ElementOfSeq
  <2>3. /\ SubSeq(out, 1, n) \in Seq(Byte)
        /\ Len(SubSeq(out, 1, n)) = IF 1 <= n THEN n - 1 + 1 ELSE 0
        /\ \A m \in 1 .. n - 1 + 1 : SubSeq(out, 1, n)[m] = out[1 + m - 1]
    BY <2>2, SubSeqProperties
  <2>4. n - 1 + 1 = n /\ (n = 0 \/ 1 <= n) /\ \A m \in 1 .. n : 1 + m - 1 = m
    OBVIOUS
  <2>5. Len(SubSeq(out, 1, n)) = n
    BY <2>3, <2>4
  <2> QED
    BY <1>1, <2>1, <2>3, <2>4, <2>5
<1>3. CASE ~(n < l)
  <2>1. CutBack(due) = out /\ l = n
    BY <1>1, <1>3 DEF CutBack
  <2> QED
    BY <1>1, <2>1
<1> QED
  BY <1>2, <1>3

(* What was written behind it does not change the target of the dump.      *)
LEMMA CutBackStays ==
  ASSUME out \in Seq(Byte), due \in Nat, due <= Len(out), NEW b \in Seq(Byte),
         due' = due, out' = out \/ out' = out \o b
  PROVE  CutBack(due)' = CutBack(due)
<1>1. CASE out' = out
  BY <1>1 DEF CutBack
<1>2. CASE out' = out \o b
  <2>1. PICK l \in Nat, k \in Nat, n \in Nat : l = Len(out) /\ k = Len(b) /\ n = due /\ n <= l
    BY LenProperties
  <2>2. /\ out \o b \in Seq(Byte) /\ Len(out \o b) = Len(out) + Len(b)
        /\ \A m \in 1 .. Len(out) + Len(b) :
             (out \o b)[m] = IF m <= Len(out) THEN out[m] ELSE b[m - Len(out)]
    BY ConcatProperties
  <2>3. PICK e \in Seq(Byte) : e = out \o b /\ Len(e) = l + k
        /\ \A m \in 1 .. l + k : e[m] = IF m <= l THEN out[m] ELSE b[m - l]
    BY <2>1, <2>2
  <2>4. out' = e /\ due' = n
    BY <1>2, <2>1, <2>3
  <2>5. PICK c \in Seq(Byte) : c = CutBack(due) /\ Len(c) = n /\ \A m \in 1 .. n : c[m] = out[m]
    BY <2>1, CutBackIs
  <2>6. CutBack(due)' = IF n < l + k THEN SubSeq(e, 1, n) ELSE e
    BY <2>3, <2>4 DEF CutBack
  <2>7. \A m \in 1 .. n : m \in 1 .. l + k /\ m <= l
    BY <2>1
  <2>8. PICK f \in Seq(Byte) : f = CutBack(due)' /\ Len(f) = n /\ \A m \in 1 .. n : f[m] = e[m]
    <3>1. CASE n < l + k
      <4>1. \A m \in 1 .. n : e[m] \in Byte
        BY <2>3, <2>7, ElementOfSeq
      <4>2. /\ SubSeq(e, 1, n) \in Seq(Byte)
            /\ Len(SubSeq(e, 1, n)) = IF 1 <= n THEN n - 1 + 1 ELSE 0
            /\ \A m \in 1 .. n - 1 + 1 : SubSeq(e, 1, n)[m] = e[1 + m - 1]
        BY <4>1, SubSeqProperties
      <4>3. n - 1 + 1 = n /\ (n = 0 \/ 1 <= n) /\ \A m \in 1 .. n : 1 + m - 1 = m
        OBVIOUS
      <4>4. Len(SubSeq(e, 1, n)) = n /\ \A m \in 1 .. n : SubSeq(e, 1, n)[m] = e[m]
        BY <4>2, <4>3
      <4> QED
        BY <2>6, <3>1, <4>2, <4>4
    <3>2. CASE ~(n < l + k)
      <4>1. n = l + k
        BY <2>1, <3>2
      <4> QED
        BY <2>3, <2>6, <3>2, <4>1
    <3> QED
      BY <3>1, <3>2
  <2>9. \A m \in 1 .. n : f[m] = c[m]
    BY <2>3, <2>5, <2>7, <2>8
  <2>10. f = c
    BY <2>5, <2>8, <2>9, SeqEqual
  <2> QED
    BY <2>5, <2>8, <2>10
<1> QED
  BY <1>1, <1>2

(* A prefix of the target is a prefix of what the target begins.           *)
LEMMA CutBackAgrees ==
  ASSUME out \in Seq(Byte), due \in Nat, due <= Len(out), Expected.out \in Seq(Byte),
         Begins(out, Expected.out)
  PROVE  Begins(CutBack(due), Expected.out)
<1>1. PICK c \in Seq(Byte) :
        c = CutBack(due) /\ Len(c) = due /\ \A m \in 1 .. due : c[m] = out[m]
  BY CutBackIs
<1>2. Begins(c, out)
  BY <1>1 DEF Begins
<1> QED
  BY <1>1, <1>2, BeginsOn

(* The dump keeps its place while neither it nor the patch changes.        *)
LEMMA DumpPlaceKept ==
  ASSUME ResumeMatching, UNCHANGED << patch, patch_size, dumped >>,
         dumped # NoDump => CutBack(due)' = CutBack(due) \/ dumped.state = "init"
  PROVE  dumped' # NoDump => DumpMatches(dumped, CutBack(due))'
<1>1. Plain' = Plain /\ patch' = patch /\ patch_size' = patch_size /\ dumped' = dumped
  BY ExpectedKept
<1> SUFFICES ASSUME dumped # NoDump
             PROVE  DumpMatches(dumped, CutBack(due))'
  BY <1>1
<1>2. DumpBegun(dumped) /\ DumpDrained(dumped) /\ DumpFollows(dumped, CutBack(due))
  BY DEF ResumeMatching, DumpMatches
<1>3. DumpBegun(dumped)' /\ DumpDrained(dumped)'
  BY <1>1, <1>2 DEF DumpBegun, DumpDrained, Upto
<1>4. DumpFollows(dumped, CutBack(due))'
  <2>1. CASE dumped.state = "init"
    BY <1>1, <2>1 DEF DumpFollows
  <2>2. CASE CutBack(due)' = CutBack(due)
    <3>1. PICK o : o = CutBack(due) /\ o = CutBack(due)'
      BY <2>2
    <3>2. \A r : DumpAt(dumped, o, r) => DumpAt(dumped, CutBack(due), r)'
      BY <1>1, <3>1 DEF DumpAt, DumpInNumber, DumpInSection, DumpAtEnd, Upto
    <3> QED
      BY <1>1, <1>2, <3>1, <3>2 DEF DumpFollows
  <2> QED
    BY <2>1, <2>2
<1> QED
  BY <1>3, <1>4 DEF DumpMatches

(* At first all of this holds of the engine alone.                         *)
LEMMA ResumeMatchingBegins ==
  ASSUME ResumeInit
  PROVE  ResumeMatching
<1>1. Matching /\ from_offset = from_pos /\ pc = "read" /\ dumped = NoDump
  BY MatchingBegins DEF ResumeInit, Init
<1> QED
  BY <1>1 DEF ResumeMatching, Matching, IInv, TypeOK, Reported

(* The engine's offset in the source moves with the port behind it.        *)
LEMMA OffsetIsPosition ==
  ASSUME Next, IInv, Processing, FailureKnown, from_offset = from_pos
  PROVE  from_offset' = from_pos'
<1>1. CASE Engine
  BY <1>1 DEF Engine, ProcessEnd, FinalizeStart, Finalize, ProcessInit, UnpackStops,
     UnpackOverflows, UnpackContinues, ProcessDfpatchSize, ProcessSize, ProcessAdjustment,
     SectionEnd, DecompressData, ProcessNothing, source_vars
<1>2. ASSUME NEW r, Callback(r)
      PROVE  from_offset' = from_pos'
  BY <1>2 DEF Callback, PatchRead, FromRead, FromSeek, ToWrite, source_vars
<1> QED
  BY <1>1, <1>2 DEF Next

(* The engine at work follows the reference as it does without dumps.      *)
LEMMA WorkMatches ==
  ASSUME ResumeInv, ResumeMatching, Work
  PROVE  ResumeMatching'
<1>1. /\ Next /\ pc \notin {"crashed", "done"} /\ Matching /\ from_offset = from_pos
      /\ UNCHANGED << dumped, due >>
  BY DoneIsDone DEF Work, ResumeInv, Stopped, ResumeMatching
<1>2. Matching'
  BY <1>1, MatchingKept
<1>3. IInv /\ Processing /\ FailureKnown
  BY <1>1 DEF Matching
<1>4. from_offset' = from_pos'
  BY <1>1, <1>3, OffsetIsPosition
<1>5. InputTypeOK' /\ Agrees(-DETOOLS_IO_FAILED)' /\ (pc' = "done" => Agrees(ret)')
  BY <1>2 DEF Matching, IInv, TypeOK, Reported
<1>6. UNCHANGED << patch, patch_size >> /\ (out' = out \/ out' = out \o buf)
  <2>1. CASE Engine
    BY <1>3, <2>1, EngineQuiet DEF Quiet
  <2>2. ASSUME NEW r, Callback(r)
        PROVE  UNCHANGED << patch, patch_size >> /\ (out' = out \/ out' = out \o buf)
    BY <1>3, <2>2, CallbackQuiet
  <2> QED
    BY <1>1, <2>1, <2>2 DEF Next
<1>7. dumped # NoDump => CutBack(due)' = CutBack(due)
  <2>1. ASSUME dumped # NoDump
        PROVE  due \in Nat /\ due <= Len(out)
    BY <2>1 DEF ResumeInv, DumpSound, DumpTyped
  <2>2. out \in Seq(Byte) /\ buf \in Seq(Byte)
    BY <1>3 DEF IInv, TypeOK, TargetTypeOK, SourceTypeOK
  <2>3. PICK b \in Seq(Byte) : b = buf
    BY <2>2
  <2> QED
    BY <1>1, <1>6, <2>1, <2>2, <2>3, CutBackStays
<1>8. dumped' # NoDump => DumpMatches(dumped, CutBack(due))'
  BY <1>1, <1>6, <1>7, DumpPlaceKept
<1> QED
  BY <1>2, <1>4, <1>5, <1>8 DEF ResumeMatching

(* A dump is made of an engine that follows the reference.                 *)
LEMMA DumpMatched ==
  ASSUME ResumeInv, ResumeMatching, Dump
  PROVE  ResumeMatching'
<1>1. /\ Matching /\ pc = "read" /\ cb_res = 0 /\ UNCHANGED vars
      /\ dumped' \in {Dumped, NoDump}
      /\ due' = IF dumped' = NoDump THEN 0 ELSE Len(out)
      /\ InputTypeOK /\ from_offset = from_pos /\ Agrees(-DETOOLS_IO_FAILED)
  BY DEF Dump, ResumeMatching
<1>2. /\ IInv /\ Begun /\ Drained /\ Follows /\ state # "failed" /\ call = "none"
  BY <1>1 DEF Matching, FailureKnown, IInv, Phases
<1>3. Matching'
  BY <1>1, StutterMatches
<1>4. InputTypeOK' /\ Agrees(-DETOOLS_IO_FAILED)' /\ pc' = "read" /\ from_offset' = from_pos'
  BY <1>1, <1>3 DEF Matching, IInv, TypeOK, Reported, vars, source_vars
<1>5. Plain' = Plain /\ patch' = patch /\ patch_size' = patch_size /\ out' = out
  BY <1>1, ExpectedKept DEF vars, input_vars, target_vars
<1>6. ASSUME dumped' # NoDump
      PROVE  DumpMatches(dumped, CutBack(due))'
  <2>1. dumped' = Dumped /\ due' = Len(out)
    BY <1>1, <1>6
  <2>2. CutBack(due)' = out
    <3>1. Len(out) \in Nat
      BY <1>2, LenProperties DEF IInv, TypeOK, TargetTypeOK
    <3>2. ~(Len(out) < Len(out))
      BY <3>1
    <3> QED
      BY <1>5, <2>1, <3>2 DEF CutBack
  <2>3. PICK d : d = Dumped
    OBVIOUS
  <2>4. /\ d.state = state /\ d.patch_size = patch_size /\ d.to_size = to_size
        /\ d.from_offset = from_pos /\ d.chunk_size = chunk_size
        /\ d.window_known = window_known /\ d.sunk = sunk /\ d.taken = taken
        /\ d.usize = usize
    BY <1>1, <2>3 DEF Dumped
  <2>5. DumpBegun(d)
    BY <1>2, <2>4 DEF DumpBegun, Begun
  <2>6. DumpDrained(d)
    BY <1>2, <2>4 DEF DumpDrained, Drained
  <2>7. DumpFollows(d, out)
    <3>1. CASE state = "init"
      BY <2>4, <3>1 DEF DumpFollows
    <3>2. CASE state = "done" /\ to_size = 0 /\ out = << >> /\ ~window_known
      BY <2>4, <3>2 DEF DumpFollows
    <3>3. CASE to_size > 0 /\ \E r : Reached(Plain, to_size, r) /\ At(r)
      <4>1. PICK r : Reached(Plain, to_size, r) /\ At(r)
        BY <3>3
      <4>2. state \in SizeStates => DumpInNumber(d, out, r)
        BY <1>2, <2>4, <4>1 DEF At, InNumber, DumpInNumber
      <4>3. state \in DataStates => DumpInSection(d, out, r)
        <5>1. ASSUME state \in DataStates
              PROVE  DumpInSection(d, out, r)
          <6>1. InSection(r)
            BY <4>1, <5>1 DEF At
          <6>2. PICK w \in Nat : w = Written(Number(Plain, r.next))
            BY <6>1 DEF InSection
          <6>3. PICK p \in Int : p = r.pos
            <7>1. Plain \in Seq(Byte) /\ to_size \in Nat
              BY <1>1, <1>2, PlainFacts DEF IInv, TypeOK, TargetTypeOK
            <7>2. r \in Piece
              BY <4>1, <7>1, ReachedType
            <7> QED
              BY <7>2 DEF Piece
          <6>4. from_pos = IF state # "diff_data" THEN r.pos ELSE r.pos + w + 0
            BY <1>2, <6>1, <6>2 DEF InSection
          <6>5. taken = Number(Plain, r.next).next - 1 + w + 0 /\ SourceHas(r, w)
            BY <1>2, <6>1, <6>2 DEF InSection
          <6>6. w = (Number(Plain, r.next).value % SIZE_MOD) - d.chunk_size
            BY <2>4, <6>2 DEF Written
          <6> QED
            BY <2>4, <6>1, <6>2, <6>4, <6>5, <6>6 DEF InSection, DumpInSection
        <5> QED
          BY <5>1
      <4>4. state = "done" => DumpAtEnd(d, out, r)
        BY <2>4, <4>1 DEF At, AtEnd, DumpAtEnd, NumberDrained
      <4>5. DumpAt(d, out, r)
        BY <2>4, <4>2, <4>3, <4>4 DEF DumpAt
      <4> QED
        BY <2>4, <3>3, <4>1, <4>5 DEF DumpFollows
    <3> QED
      BY <1>2, <3>1, <3>2, <3>3 DEF Follows
  <2>8. DumpMatches(d, out)
    BY <2>5, <2>6, <2>7 DEF DumpMatches
  <2>9. dumped' = d
    BY <2>1, <2>3
  <2> QED
    BY <1>5, <2>2, <2>8, <2>9
       DEF DumpMatches, DumpBegun, DumpDrained, DumpFollows, DumpAt, DumpInNumber,
           DumpInSection, DumpAtEnd, Upto
<1> QED
  BY <1>3, <1>4, <1>6 DEF ResumeMatching

(* A crash changes neither the target nor the dump.                        *)
LEMMA CrashMatches ==
  ASSUME ResumeInv, ResumeMatching, Crash
  PROVE  ResumeMatching'
<1>1. /\ pc' = "crashed"
      /\ UNCHANGED << patch, patch_size, patch_offset, cb_res, ret, out, from_offset,
                      from_pos, dumped, due >>
  BY DEF Crash, input_vars, target_vars, source_vars
<1>2. InputTypeOK'
  BY <1>1 DEF ResumeMatching, InputTypeOK
<1>3. Agrees(-DETOOLS_IO_FAILED)'
  BY <1>1, AgreesKept DEF ResumeMatching
<1>4. CutBack(due)' = CutBack(due)
  BY <1>1 DEF CutBack
<1>5. dumped' # NoDump => DumpMatches(dumped, CutBack(due))'
  BY <1>1, <1>4, DumpPlaceKept
<1> QED
  BY <1>1, <1>2, <1>3, <1>5 DEF ResumeMatching

(* A restore that fails ends the update with the error of a callback.      *)
LEMMA RestoreFailsMatches ==
  ASSUME ResumeInv, ResumeMatching, RestoreFails
  PROVE  ResumeMatching'
<1>1. /\ pc' = "done" /\ ret' = -DETOOLS_IO_FAILED
      /\ UNCHANGED << patch, patch_size, patch_offset, cb_res, out, from_offset,
                      from_pos, dumped, due >>
  BY DEF RestoreFails, target_vars, source_vars
<1>2. InputTypeOK'
  BY <1>1 DEF ResumeMatching, InputTypeOK, DETOOLS_IO_FAILED
<1>3. Agrees(-DETOOLS_IO_FAILED)'
  BY <1>1, AgreesKept DEF ResumeMatching
<1>4. Agrees(ret)'
  BY <1>1, <1>3 DEF Agrees
<1>5. CutBack(due)' = CutBack(due)
  BY <1>1 DEF CutBack
<1>6. dumped' # NoDump => DumpMatches(dumped, CutBack(due))'
  BY <1>1, <1>5, DumpPlaceKept
<1> QED
  BY <1>1, <1>2, <1>3, <1>4, <1>6 DEF ResumeMatching

(* An update that starts over has no target yet.                           *)
LEMMA StartOverMatches ==
  ASSUME ResumeInv, ResumeMatching, StartOver \/ RestoreInit
  PROVE  ResumeMatching'
<1>1. /\ Opened /\ Fresh /\ pc' = "read" /\ cb_res' = 0 /\ state' = "init" /\ sunk' = 0
      /\ out' = << >> /\ from_pos' = 0 /\ from_offset' = 0 /\ usize'.state = "first"
      /\ dumped = NoDump \/ dumped.state = "init"
      /\ UNCHANGED << patch, patch_size, dumped, due >>
  BY DEF StartOver, RestoreInit, Opened, Fresh
<1>2. Running'
  BY <1>1, FreshReopened
<1>3. IInv' /\ Processing' /\ FailureKnown'
  BY <1>1, <1>2 DEF Running
<1>4. Expected' = Expected
  BY <1>1, ExpectedKept
<1>5. Begins(<< >>, Expected.out)
  BY ExpectedType DEF ResumeMatching
<1>6. Agrees(-DETOOLS_IO_FAILED)'
  BY <1>1, <1>4, <1>5 DEF Agrees
<1>7. Reported'
  BY <1>1, <1>6 DEF Reported
<1>8. Begun' /\ Drained' /\ Follows'
  BY <1>1 DEF Begun, Drained, Follows
<1>9. Matching'
  BY <1>3, <1>7, <1>8 DEF Matching
<1>10. InputTypeOK'
  BY <1>3 DEF IInv, TypeOK
<1>11. dumped' # NoDump => DumpMatches(dumped, CutBack(due))'
  BY <1>1, DumpPlaceKept
<1> QED
  BY <1>1, <1>6, <1>9, <1>10, <1>11 DEF ResumeMatching

(* What is restored follows the reference from where it was dumped.        *)
LEMMA RestoreMatches ==
  ASSUME ResumeInv, ResumeMatching, Restore
  PROVE  ResumeMatching'
<1>1. /\ CutBack(due) \in Seq(Byte) /\ Len(CutBack(due)) = due /\ due \in Nat
      /\ out' = CutBack(due)
  BY RestoredFacts
<1>2. /\ Opened /\ pc' = "read" /\ call' = "none" /\ cb_res' = 0 /\ res' = 0 /\ buf' = << >>
      /\ UNCHANGED << patch, patch_size, dumped, due >>
      /\ dumped # NoDump /\ dumped.state # "init"
  BY DEF Restore, Opened, NoDump
<1>3. PICK d : d = dumped
  OBVIOUS
<1>4. /\ state' = d.state /\ to_size' = d.to_size /\ from_offset' = d.from_offset
      /\ from_pos' = d.from_offset /\ chunk_size' = d.chunk_size
      /\ window_known' = d.window_known /\ usize' = d.usize
      /\ sunk' = d.sunk /\ taken' = d.taken
  BY <1>3 DEF Restore, RestoredPosition
<1>5. PICK o \in Seq(Byte) : o = CutBack(due) /\ out' = o
  BY <1>1
<1>6. DumpBegun(d) /\ DumpDrained(d) /\ DumpFollows(d, o)
  BY <1>2, <1>3, <1>5 DEF ResumeMatching, DumpMatches
<1>7. IInv' /\ Processing' /\ FailureKnown'
  <2>1. ResumeInv'
    BY RestoreKeeps
  <2> QED
    BY <1>2, <2>1 DEF ResumeInv, Running
<1>8. Expected' = Expected /\ Plain' = Plain /\ patch' = patch /\ patch_size' = patch_size
  BY <1>2, ExpectedKept
<1>9. Agrees(-DETOOLS_IO_FAILED)'
  <2>1. out \in Seq(Byte) /\ due <= Len(out)
    BY <1>2 DEF ResumeInv, KeptByCrash, DumpSound
  <2>2. Expected.out \in Seq(Byte)
    BY ExpectedType DEF ResumeMatching
  <2>3. Begins(out, Expected.out) => Begins(o, Expected.out)
    BY <1>1, <1>5, <2>1, <2>2, CutBackAgrees
  <2>4. Agrees(-DETOOLS_IO_FAILED)
    BY DEF ResumeMatching
  <2>5. out = Expected.out => Begins(out, Expected.out)
    BY <2>1, BeginsItself
  <2> QED
    BY <1>5, <1>8, <2>3, <2>4, <2>5 DEF Agrees
<1>10. Reported'
  BY <1>2, <1>9 DEF Reported
<1>11. Begun' /\ Drained'
  BY <1>2, <1>3, <1>4, <1>6, <1>8 DEF Begun, Drained, DumpBegun, DumpDrained, Upto
<1>12. Follows'
  <2>1. CASE d.state = "done" /\ d.to_size = 0 /\ o = << >> /\ ~d.window_known
    BY <1>4, <1>5, <2>1 DEF Follows
  <2>2. CASE d.to_size > 0 /\ \E r : Reached(Plain, d.to_size, r) /\ DumpAt(d, o, r)
    <3>1. PICK r : Reached(Plain, d.to_size, r) /\ DumpAt(d, o, r)
      BY <2>2
    <3>2. (InNumber(r))' \/ d.state \notin SizeStates
      BY <1>4, <1>5, <1>8, <3>1 DEF DumpAt, DumpInNumber, InNumber
    <3>3. (InSection(r))' \/ d.state \notin DataStates
      <4>1. ASSUME d.state \in DataStates
            PROVE  InSection(r)'
        <5>1. DumpInSection(d, o, r)
          BY <3>1, <4>1 DEF DumpAt
        <5>2. PICK w \in Nat : w = (Number(Plain, r.next).value % SIZE_MOD) - d.chunk_size
          BY <5>1 DEF DumpInSection
        <5>3. Written(Number(Plain, r.next))' = w
          BY <1>4, <1>8, <5>2 DEF Written
        <5> QED
          BY <1>2, <1>4, <1>5, <1>8, <5>1, <5>2, <5>3 DEF InSection, DumpInSection
      <4> QED
        BY <4>1
    <3>4. (AtEnd(r))' \/ d.state # "done"
      BY <1>4, <1>5, <1>8, <3>1 DEF DumpAt, DumpAtEnd, AtEnd, NumberDrained, Upto
    <3>5. At(r)'
      BY <1>2, <1>4, <3>2, <3>3, <3>4 DEF At, SizeStates, DataStates
    <3> QED
      BY <1>4, <1>8, <2>2, <3>1, <3>5 DEF Follows
  <2> QED
    BY <1>2, <1>3, <1>6, <2>1, <2>2 DEF DumpFollows
<1>13. Matching'
  BY <1>7, <1>10, <1>11, <1>12 DEF Matching
<1>14. InputTypeOK'
  BY <1>7 DEF IInv, TypeOK
<1>15. CutBack(due)' = CutBack(due)
  <2>1. Len(o) = due /\ due' = due /\ out' = o /\ ~(due < due)
    BY <1>1, <1>2, <1>5
  <2> QED
    BY <1>5, <2>1 DEF CutBack
<1>16. dumped' # NoDump => DumpMatches(dumped, CutBack(due))'
  BY <1>2, <1>15, DumpPlaceKept
<1> QED
  BY <1>2, <1>4, <1>9, <1>13, <1>14, <1>16 DEF ResumeMatching

(* Nothing changes.                                                        *)
LEMMA ResumeStutterMatches ==
  ASSUME ResumeInv, ResumeMatching, UNCHANGED resume_vars
  PROVE  ResumeMatching'
<1>1. UNCHANGED vars /\ UNCHANGED << dumped, due >>
  BY DEF resume_vars
<1>2. UNCHANGED << patch, patch_size, patch_offset, cb_res, ret, pc, out, from_offset, from_pos >>
  BY <1>1 DEF vars, input_vars, target_vars, source_vars
<1>3. Matching => Matching'
  BY <1>1, StutterMatches
<1>4. Agrees(-DETOOLS_IO_FAILED)' /\ InputTypeOK'
  BY <1>2, AgreesKept DEF ResumeMatching, InputTypeOK
<1>5. pc = "done" => Agrees(ret)'
  <2>1. Expected' = Expected
    BY <1>2, ExpectedKept
  <2> QED
    BY <1>2, <2>1 DEF ResumeMatching, Agrees
<1>6. dumped' # NoDump => DumpMatches(dumped, CutBack(due))'
  <2>1. CutBack(due)' = CutBack(due)
    BY <1>1, <1>2 DEF CutBack
  <2> QED
    BY <1>1, <1>2, <2>1, DumpPlaceKept
<1> QED
  BY <1>2, <1>3, <1>4, <1>5, <1>6 DEF ResumeMatching

(***************************************************************************)
(* However often the update crashes, wherever it was dumped and taken up   *)
(* again: the answer and the target are those of the reference, which      *)
(* knows nothing of crashes (detools.c:642-668, 690-747, 759-836).         *)
(***************************************************************************)
THEOREM ResumedAnswersMatch == ResumeSpec => []MatchesReference
<1>1. ResumeInit => ResumeMatching
  BY ResumeMatchingBegins
<1>2. ResumeInv /\ ResumeMatching /\ [ResumeNext]_resume_vars => ResumeMatching'
  BY WorkMatches, DumpMatched, CrashMatches, StartOverMatches, RestoreMatches,
     RestoreFailsMatches, ResumeStutterMatches DEF ResumeNext
<1>3. ResumeInv /\ ResumeMatching => MatchesReference
  <2> SUFFICES ASSUME ResumeInv, ResumeMatching
               PROVE  MatchesReference
    OBVIOUS
  <2>1. out \in Seq(Byte) /\ InputTypeOK /\ (pc = "done" => Agrees(ret))
    BY DEF ResumeInv, KeptByCrash, ResumeMatching
  <2> QED
    BY <2>1, AgreesMatches
<1> QED
  BY <1>1, <1>2, <1>3, ResumeInvariance, PTL DEF ResumeSpec

=============================================================================
