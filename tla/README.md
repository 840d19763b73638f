# Verification of the delta update firmware

TLA+ models, TLC runs and TLAPS proofs for the firmware in `src/`: an nRF52
application that applies a compressed binary patch to its own image, writes the
result to the secondary slot of its flash and asks MCUboot to boot it.

## 1. The system

### Components

| component | code | state it keeps | operations | what makes it correct |
|---|---|---|---|---|
| patch engine | `app/src/detools/detools.c` | `struct detools_apply_patch_t`: state, to/from offsets, section size, current chunk, partially unpacked size | `detools_apply_patch_callbacks` (init, process, finalize), nine states of `apply_patch_process_once` | success means a target of exactly the announced size; the result does not depend on where chunks end or how far the decoder lags; it always ends |
| patch reader | `patch_reader_heatshrink_*` in `detools.c` | the decoder, whether its header byte was read | init, decompress, destroy | a call hands over all that can be had of the chunk, takes no byte it does not need, and stalls only when there is nothing |
| heatshrink decoder | `app/src/heatshrink/` | input buffer, window, bit and back-reference counters | reset, sink, poll, finish | the output is a function of the bytes sunk, however they and it are cut into pieces; the end is known exactly |
| flash port | `delta_init`, `delta_flash_write/from_read/patch_read/seek` in `app/src/delta/delta.c` | three cursors and their ends, `write_buf` | one callback each, `delta_init` | every byte is erased before it is programmed and never after; nothing outside the secondary slot changes |
| update call | `delta_check_and_apply`, `delta_read_patch_header` | the header of the patch partition (magic and size) | mark, apply, request upgrade, reboot | an upgrade is requested only for a whole image; a patch is taken once |
| main loop and button | `app/src/main.c` | `btn_flag`, the installed interrupt | `config_devices`, the loop, `button_pressed` | a press leads to a check |
| bootloader | MCUboot (external) | slots, swap request | swap at boot | only a valid image is booted |
| host tools | `Makefile`, `scripts/set_current.py`, `scripts/pad_patch.py` | the host's copy of the running image | build, create-patch, flash-patch, flash-image, the prompt | patches are made for the image that runs |
| error strings | `delta_error_as_string`, `detools_error_as_string` | none | code to text | each code has its own text |
| dump and restore | `detools_apply_patch_dump`, `_restore` | a serialised engine | dump, restore, the two getters of offsets; not called by this program | a restored engine goes on where it was |

### How they interact

`main` polls `btn_flag`, which the GPIO interrupt sets, and calls
`delta_check_and_apply`. That reads and marks the header of the patch
partition, prepares the flash port and hands the engine four callbacks. The
engine pulls the patch through `patch_read` 512 bytes at a time, has the patch
reader run it through the decoder byte by byte and calls `from_read`, `from_seek` and `to_write`. Engine
and port never tell each other where they are: each keeps its own cursors. If
the engine returns a size, MCUboot is asked for an upgrade and the device
reboots. The host rewrites the patch partition while the device is halted.

### What is hard

- **A page counter that is not the cursor** (`delta.c:33-39`). Pages are erased
  ahead of the cursor when `write_buf` reaches `PAGE_SIZE`, and the counter then
  restarts from zero wherever the cursor is. Whether a byte is programmed once
  after an erase depends on the sizes of all buffers before it.
- **Input that stops anywhere.** A chunk ends inside a section, a multi-byte
  size or the decoder's output; the engine must resume, and at the end tell a
  stall from a finish.
- **A decoder that stops anywhere.** Its input runs out inside of a token or of
  a byte, its output buffer fills up inside of a back-reference
  (`heatshrink_decoder.c:205, 298`); its window is a ring under an index that
  wraps on its own (`:275-281`).
- **Partial failure.** Any callback may fail at any call; the engine has advanced
  its offsets by then, and is finalized even after a failed read of the patch.
- **Unsigned arithmetic on signed sizes** (`detools.c:388`).
- **Power loss** between mark, write and upgrade request, and, for a caller of
  dump and restore, between any two chunks.
- **An interrupt that sets a flag** the loop clears after a check has returned, and
  once more after the interrupt has been installed.

`PROJECT.json` lists each hazard at its line with the properties aimed at it.

## 2. The modules

```
 HeatshrinkDecoder
      |
 HeatshrinkReference -- MCHeatshrink
      |        \
      |         HeatshrinkDecoderProofs
      |                 \
 PatchReader ---------- PatchReaderProofs
      |    \
      |     MCPatchReader
      |
 implements (refinement mapping)
      v
 StreamReader
      |
 ApplyPatch -- ApplyPatchProofs
      |    \
      |     ResumePatch
      |
 PatchReference -- MCApplyPatch -- MCResumePatch (with ResumePatch)
      |    \
      |     PatchReferenceProofs        EXTENDS ApplyPatchProofs too
      |          \
      |           ResumePatchProofs     EXTENDS ResumePatch too
      |
 DeltaCheck -- MCDeltaCheck     EXTENDS DeltaFlash and ErrorStrings too
      |    \
      |     DeltaCheckProofs    EXTENDS PatchReferenceProofs too
      |
 implements (refinement mapping)
      v
 UpdateContract
      |
 DeltaUpdate -- DeltaUpdateProofs

 DeltaFlash -- MCDeltaFlash     (its theorems are in DeltaCheckProofs)
 Buffers -- StreamReader, PatchReader, DeltaFlash
 NumberFacts -- ApplyPatchProofs, HeatshrinkDecoderProofs
```

A line is `EXTENDS`, from the lower module to the upper one, unless it says
otherwise. The chain of refinements is what ties the levels together: the
decoder inside the patch reader implements the stream the engine is written
against, and the engine on the flash port implements the call the device is
written against. `Buffers` holds the two buffer sizes that several components
share.

### HeatshrinkDecoder: the decoder

| TLA+ | code |
|---|---|
| `input`, `input_size`, `input_index` | the first part of `buffers`, and its two counters |
| `current` | `current_byte` and `bit_index`: the bits of it not taken yet |
| `window`, `head_index` | the second part of `buffers`, a ring; the index wraps at `INDEX_MOD` |
| `output_count`, `output_index`, `state` | the fields of that name |
| `buf_size`, `output_size` | the caller's buffer and `*output_size` |
| `poll_res` | where poll is: running, or what it returned |
| `stream`, `sunk`, `out` | history: the input, how much of it was sunk, all output |
| `Reset`, `Sink`, `FinishDone` | `heatshrink_decoder_reset`, `_sink`, `_finish` |
| `PollStart`, `TagBit`, `YieldLiteral`, `IndexMsb`, ..., `PollReturn` | `heatshrink_decoder_poll`, one action per state, and its way out |
| `HasBits`, `GetBits`, `TakeBits` | `get_bits`, which takes all the bits asked for or none |
| `Yield`, `Mask` | `push_byte` and the masks of the ring |

`get_bits` is said on sequences of bits: no state asks for more than eight, so
that the byte at hand and the next one always suffice. A decoder is reset by
its caller at any moment, whatever is still in it.

### HeatshrinkReference: what a stream means

What the first so many bytes of a stream decompress to, with all bits at hand
and without a window: `NextToken` reads one whole token, a back-reference repeats
the text so far (`Repeated`), and `AfterTokens` is the text after so many of
them. A reference for `HeatshrinkDecoder`, not a translation of code. It is
written with recursive functions, so that it can be reasoned about.

### PatchReader: the decoder inside the reader

`patch_reader_heatshrink_decompress` around the decoder: `Enter` (with the
header byte), `Poll`, `PollRuns`, `Polled` (which returns, or sinks one more
byte of the chunk), and `InitAgain`, `NewChunk` for what the engine does between
calls. `entry` remembers what the call found, so that the whole call maps to one
step. A patch whose heatshrink byte is not the build's is refused by `Enter`;
`BuildAssumption` gives the window and lookahead of the build, the only ones that
the reader accepts.

### StreamReader: what the engine sees of it

A patch is a record: its header, the heatshrink parameter byte, the plain stream
of bytes, and `upto`, how many plain bytes can be had of so many compressed ones.
`Decompress` is one step: it hands over the next bytes of the plain stream and
uses as few compressed ones as it can. Any monotone `upto` is allowed, so that
the decoder may lag, burst or withhold output in any way. `PatchReader`
implements it, with `upto` and `plain` taken from `HeatshrinkReference`.

### DeltaFlash: the flash port

| TLA+ | code |
|---|---|
| `patch_current`, `from_current`, `to_current`, `write_buf` | the fields of `struct flash_mem` |
| `cells` | what was done to each byte of flash: `old`, `erased`, `new`, `garbled` |
| `active` | the caller may still call: `delta_init` and every callback so far succeeded |
| `drift` | history: by how much `write_buf` overshot `PAGE_SIZE`, summed up |
| `DeltaInit` | `delta_init`, with the first erase |
| `DeltaFlashWrite`, `DeltaFlashFromRead`, `DeltaFlashPatchRead`, `DeltaFlashSeek` | the callback of that name, one step each; the driver may fail at every call it makes |
| `PageDue`, `EraseAhead`, `WriteResult`, `ReadResult`, `Sought` | the conditions of those callbacks |
| `InFlash`, `Erased`, `Programmed` | the flash driver (external): an erase covers a page, programming only clears bits, addresses are checked against the device |

`FlashNext` is the most general caller: any callbacks in any order until one
fails, with buffers and chunks of up to the engine's sizes and seeks that end
anywhere between the start of the flash and the end of the source.
A failed read of the patch does not end the calls, because the engine is still
finalized. A write that fails in the driver leaves the cells as they were; no
property speaks of the slot after a failure.

### ApplyPatch: the engine

The variables are the fields of `detools_apply_patch_t` and the locals of the
loops that outlive a call: `pc` (read loop, process loop, finalize loop, done),
`state`, `call` (the callback or loop a handler is inside of), `res`, `cb_res`,
`ret`, the chunk (`patch_offset`, `chunk_left`), the reader (`window_known`,
`sunk`, `taken`, `usize`), the target (`to_size`, `to_offset`, `chunk_size`)
and the source (`seek`, `from_offset`). `from_pos` is where the source behind
the callback really is and `out` what `to_write` accepted. Each action is one
outcome of a state's handler; a handler that calls back is cut in two at the
call, so that a composition can answer it (`DecompressData`, `FromRead`,
`ToWrite`; `ProcessAdjustment`, `FromSeek`).

What a patch is, and what a call of `patch_reader_decompress` does, comes from
`StreamReader`. Sizes are unpacked byte by byte with the code's shifts, sums are
taken modulo `SIZE_MOD` where the code adds in `size_t`.

### PatchReference: what a patch means

The answer and the target of a patch without chunks, buffers or resumption: all of
the plain stream is at hand. `Number` reads one size (its bytes are weighted by
`Magnitude`), `Section` the bytes of one diff or extra section, `NextSection` one
number and what it is the size of, and `AfterSections`, a recursive function, is how
far the reading has come after so many of them: what is read next, from which
position, where the source is then, and the target so far. `Reference` adds the
header, and `Closed` what must not follow the end. It is a reference for
`ApplyPatch`, not a translation of code.

### ResumePatch: dump, crash, restore

`ResumePatch` extends the engine with `Dump` between two chunks, `Crash`
anywhere, and `Restore`, `RestoreInit`, `StartOver` and `RestoreFails` after it.
This program calls neither function; the caller is the one `detools.h` describes,
in the loop of `callbacks_process`, and it opens its ports anew (so that the
absolute offset `restore` hands to `from_seek` is one from the start) and cuts the
target back to the restored `to_offset`. `due` remembers what the target had
accepted at the dump. A failing `state_write` may spoil the dump there was.

### ErrorStrings: code to text

The two functions as operators over the codes; a text is represented by the code
it belongs to. `DeltaCheck` asks them for every error a call returns.

### DeltaCheck: the call, composed

`DeltaCheck` extends `ApplyPatch` and `DeltaFlash`. Each callback
of the engine is one step together with the function of `delta.c` that answers
it (`ApplyToWrite` is `ToWrite(r)` and `DeltaFlashWrite(Len(buf), r)` at once);
`ReadPatchHeader`, `InitFlash` and `RequestUpgrade` are the rest of
`delta_check_and_apply`, with `header`, `step` and `result`. The header is
programmed in place; if the driver fails, the mark may or may not be there.

### UpdateContract: what the call promises

Three variables (`header`, `slot1`, `status`) and five actions: mark first, then
touch the slot, request only when the target is whole, return zero only if there
was nothing to do, fail at any time. `DeltaCheck` implements it: `SlotNow` is
`kept` before `delta_init`, `written` when as many bytes as the patch
announced have been accepted, else `partial`; `StatusNow` comes from `step` and
`result`.

### DeltaUpdate: the device

`DeltaUpdate` extends `UpdateContract` and uses the contract's actions as the
steps of the call. Around it: `main` and `btn_flag` (`ConfigDevices`,
`ClearFlag`, `CallCheck`, `CheckReturns`, `ToggleFails`), the interrupt
(`ButtonPressed`, possible between any two steps while `listening`), `PowerLoss`
anywhere, MCUboot (`Boot`: swap if requested and valid), and the host, one action
per make target: `HostBuild`, `HostCreatePatch`, `HostFlashPatch` and the answer
to its prompt (`HostAnswer`, at any later moment), `HostFlashImage` (where the
prompt comes first and the source image is flashed). Images are numbered in the
order they were built; a patch that is applied to another image than the one it
was made for leaves a broken one. The history variables are `wanted` (a press
that no read of the header followed), `uses` (how often this patch was taken),
`applied` (an upgrade was requested with it) and `base` (the image that ran when
a swap was last requested: the host may have flashed another one since).
`RequestFails` is the one step that is not the contract's: it tells an error of `boot_request_upgrade` from earlier ones, since
the trailer may have been written by then.

## 3. The runs

| run | result | what it shows |
|---|---|---|
| `flash` | pass | `InStepIntact`: written bytes read back as long as the page counter is in step; `SuccessStaysInSlot`: a callback that succeeds changed nothing outside the slot |
| `flash_end` | violation of `NothingBehindSlot` | the erase-ahead at the last page of the slot erases the page behind it |
| `engine` | pass | `SuccessIsExact`, `SectionFits`, `MatchesReference` (engine and reference agree on the answer and the target) and, under fairness, `Terminates`, over every short stream and patches of every kind, cut off anywhere, with callbacks failing anywhere |
| `heatshrink` | pass | `DecodesStream` and `FinishIsExact`: however input and output are cut into pieces, the output is what the stream means, and finish knows when it is all there; `UnreadIsSuffix`: no bit is lost or taken twice |
| `patch_reader` | pass | `ImplementsReader`: a call of the reader with the real decoder inside is a step of `StreamReader`; `AnswerIsExact`, `DestroyIsExact` for its answers; `WindowHoldsOutput`, `DecodesStream` for the decoder inside of it, once around the window. What finish says is checked between calls, where the code asks for it (`DestroyIsExact`) |
| `resume` | pass | `SuccessIsExact` and `MatchesReference`: an update dumped between any two chunks, crashed and restored, ends like one that never crashed; `RestoredOffsetIsDue`: the target is cut back to what it had accepted at the dump |
| `check` | pass | `CursorsAgree` (the engine's offsets and the port's cursors, also after a failed read of the patch), `UpgradeIsWhole`, `UpgradeIsMeant` (an upgrade is requested only for the bytes that the patch means), the refinement `ImplementsContract`, and `CallEnds` |
| `check_image` | violation of `BootsNewImage` | with odd sections the counter loses step: an upgrade is requested for an image with damaged bytes |
| `check_errors` | violation of `ErrorIsNamed` | the errors of the header and of the flash are printed as unknown ones |
| `device` | pass | `TakenOnce`, `PendingIsWhole`, `ForwardOnly` over two updates, with presses, power loss and the host at any moment; under fairness `PressTakesPatch`: a press the loop sees leads to the patch being taken |
| `device_press` | violation of `PressIsAnswered` | a press before the loop is entered, or during a check, is forgotten |
| `device_mark` | violation of `MarkedIsApplied` | a patch whose application was cut off stays marked and is not applied |

Each passing run also checks its module's type invariant, where there is one.
The runs that pass and those that fail complement each other:
`InStepIntact` and `UpgradeIsWhole` say when an image is intact (`drift = 0`),
`BootsNewImage` that nothing keeps `drift` at zero. `SuccessStaysInSlot` rests
on `delta_flash_write` failing at the end of the slot, `NothingBehindSlot` shows
what it has already done by then.

### Findings

1. `delta.c:39`: `write_buf = 0` after an erase forgets the bytes that lie
   beyond the page; the counter falls behind the cursor (`check_image`).
2. `delta.c:36`: the page after the buffer is erased before `to_end` is checked
   (`flash_end`).
3. `main.c:86` and `main.c:124`: `btn_flag` is cleared after the call and not
   before it, and after the interrupt has been installed (`device_press`).
4. `delta.c:225`: the mark is written before the patch is applied, against the
   comment at `delta.h:78-80` (`device_mark`). `TakenOnce` shows what the order
   of the code is good for.
5. `delta.c:234`: the code is compared with 28 before its sign is removed, so that
   no error of `delta.c` has a text of its own (`check_errors`).

### Bounds

- Pages have 4 bytes (4096 on the device), buffers at most 3 in `flash` and 2 in
  `check` (128), chunks 6 (512). What matters is kept: a buffer is shorter than
  a page, in `check` it divides a page as 128 divides 4096, and a chunk is
  several buffers. The secondary slot has three and four pages, so that first,
  middle and last page differ. The seeks
  of `flash` end within the flash; one that ends below it would only make the
  driver fail.
- `SIZE_MOD` is 2^28 instead of 2^32, since TLC's integers have 32 bits.
  Sizes have at most 27 bits (`WidthAssumption`), so that as in the code the sum
  wraps exactly when a size is negative.
- `engine` takes all streams of five bytes over {0, 1, 2, -1, a continuation
  byte} that start with the right type, with a target of one byte in three
  shapes of `upto` (even, lagging, in bursts) and of two bytes in the lagging
  one, and every cut; the hand-made patches add two rounds with a seek, a section
  too long for the target, sizes of several bytes, overlong, negative and
  trailing ones, a source read past its end and the wrong type, parameter or
  header.
- `heatshrink` has a window of 10 and a lookahead of 9 bits, so that each field is
  read in two parts (the build's 8 and 7 never are), an input buffer of three
  bytes that fills up and empties anywhere, at most two bytes sunk and zero, one or
  three polled at once; four streams hold copies from before the start, copies over
  themselves, lengths above 255, paddings of zeros and ones.
- `patch_reader` has the build's window and lookahead, chunks up to three bytes,
  buffers up to two. One stream has 262 bytes of output, so that window and
  `head_index` go round; `INDEX_MOD` is 256 there (65536 in the code; all that
  matters is that it is a multiple of the window, `WrapAssumption`).
- `resume` has chunks of five bytes, so that patches of 11 to 20 bytes are dumped
  inside of sections and sizes, and `MAX_CRASHES` 2: a crash after a restore.
- `check` takes ten patches, some of which leave output in the decoder when a chunk
  ends, so that callbacks follow a failed read of the patch: whole buffers, odd
  sections, a seek back, a target that fills the slot, a source read to its last
  byte and an empty target.
- In `device`, `MAX_IMAGE` is 2: two updates, so that the second finds what the
  first left.

### Fairness

- `ApplyPatch!FairSpec`: weak fairness of `Next`. The engine runs in one thread
  and its callbacks return, with whatever answer.
- `DeltaCheck!FairCheckSpec`: the same for the call as a whole: the flash driver
  returns, with or without an error.
- `DeltaUpdate!FairUpdateSpec`: weak fairness of the firmware's own steps, and
  of the end of the call, which `CallEnds` shows of `DeltaCheck`. Nothing is
  assumed of power, developer or button, nor that the LED can be toggled.

Deadlock is not checked where the system stops by itself: the engine, a call and
an update end. The device is checked for deadlock.

## 4. The proofs

All are checked by TLAPS, for every value of the constants that satisfies the
assumptions of the modules:

- `ChunkAssumption` (`Buffers`): chunks and buffers are not empty.
  `PageAssumption`: a buffer is shorter than a page. `LayoutAssumption`: slots of
  whole pages, in the order of the board's layout.
- `PatchesAssumption`: a patch is a well-typed record and `upto` is monotone; the
  theorem `StreamsArePatches` shows that the patches made from the streams of the
  decoder are of this kind. `FromAssumption`: the source is made of bytes.
  `WidthAssumption`: sizes have 27 bits, a `size_t` more.
- `FirstChunkAssumption` (`PatchReference`): the first chunk holds the header, or six
  bytes of it (the code reads 512 bytes at once). Without it a header cut by the end of
  the first chunk is refused as too short, whatever follows.
- `BitsAssumption`: the sizes `heatshrink_common.h` allows. `BufferAssumption`:
  there is an input buffer, and streams are made of bytes. `WrapAssumption`:
  `head_index` wraps at a multiple of the window.
- `HeaderAssumption`, `BuildAssumption`, `CallerAssumption` (`PatchReader`): headers
  are bytes, the build has window 8 and lookahead 7, and the decoder may be sunk one
  byte and polled into any buffer of the engine's.
- `CrashAssumption` and `ImageAssumption`: the numbers of crashes and of images are
  natural numbers.

| module | theorem | statement |
|---|---|---|
| `HeatshrinkDecoderProofs` | `TypeCorrect` | `DecoderSpec => []DecoderTypeOK` |
| `HeatshrinkDecoderProofs` | `WindowIsOutput` | `DecoderSpec => []WindowHoldsOutput` |
| `HeatshrinkDecoderProofs` | `NoBitIsLost` | `DecoderSpec => []UnreadIsSuffix` |
| `HeatshrinkDecoderProofs` | `DecoderDecodes` | `DecoderSpec => []DecodesStream` |
| `HeatshrinkDecoderProofs` | `FinishTellsEnd` | `DecoderSpec => []FinishIsExact` |
| `PatchReaderProofs` | `UsesDecoder` | `Spec => DecoderSpec` |
| `PatchReaderProofs` | `WindowInReader` | `Spec => []WindowHoldsOutput` |
| `PatchReaderProofs` | `AnswersAreExact` | `Spec => AnswerIsExact` |
| `PatchReaderProofs` | `ReaderKeepsContract` | `Spec => ImplementsReader` |
| `PatchReaderProofs` | `DestroyTellsLeftover` | `Spec => []DestroyIsExact` |
| `PatchReaderProofs` | `StreamsArePatches` | the patches shown to `StreamReader` satisfy its `PatchesAssumption` |
| `ApplyPatchProofs` | `TypeCorrect` | `Spec => []TypeOK` |
| `ApplyPatchProofs` | `ExactSuccess` | `Spec => []SuccessIsExact` |
| `ApplyPatchProofs` | `SectionsFit` | `Spec => []SectionFits` |
| `PatchReferenceProofs` | `AnswersMatch` | `Spec => []MatchesReference` |
| `ResumePatchProofs` | `ResumedAnswersMatch` | `ResumeSpec => []MatchesReference` |
| `ResumePatchProofs` | `ResumedIsExact` | `ResumeSpec => []SuccessIsExact` |
| `ResumePatchProofs` | `RestoreTellsWhatIsDue` | `ResumeSpec => RestoredOffsetIsDue` |
| `DeltaCheckProofs` | `FlashTypeCorrect` | `FlashSpec => []FlashTypeOK` |
| `DeltaCheckProofs` | `IntactWhileInStep` | `FlashSpec => []InStepIntact` |
| `DeltaCheckProofs` | `ConfinedToSlot` | `FlashSpec => SuccessStaysInSlot` |
| `DeltaCheckProofs` | `CheckTypeCorrect` | `CheckSpec => []CheckTypeOK` |
| `DeltaCheckProofs` | `CursorsAlwaysAgree` | `CheckSpec => []CursorsAgree` |
| `DeltaCheckProofs` | `UpgradesAreWhole` | `CheckSpec => []UpgradeIsWhole` |
| `DeltaCheckProofs` | `CallUsesEngine` | `CheckSpec => Spec` |
| `DeltaCheckProofs` | `UpgradesAreMeant` | `CheckSpec => []UpgradeIsMeant` |
| `DeltaCheckProofs` | `CallKeepsContract` | `CheckSpec => ImplementsContract` |
| `DeltaUpdateProofs` | `UpdateTypeCorrect` | `UpdateSpec => []UpdateTypeOK` |
| `DeltaUpdateProofs` | `PatchTakenOnce` | `UpdateSpec => []TakenOnce` |
| `DeltaUpdateProofs` | `SwapIsWhole` | `UpdateSpec => []PendingIsWhole` |
| `DeltaUpdateProofs` | `NeverBackwards` | `UpdateSpec => ForwardOnly` |

Both refinements are among them: the reader with its decoder is the stream the
engine reads, and the engine on the flash port is the call the device makes. Every
invariant and every action property that a passing run checks is stated by one of
these theorems.

`NumberFacts` holds the lemmas about `%` that pages, sizes and the ring need, and
induction on the natural numbers, said of sets, because the provers cannot
instantiate a theorem about operators: a set of numbers that holds 0 and with each
number the next holds them all (`Induction`, from the well-foundedness of `<`).
`PrimitiveRecursion` follows from it: a function built from a first value and
a step exists. That is what gives the recursive functions of
`HeatshrinkReference` and `PatchReference` their defining equations (`NumberSteps`,
`AfterSteps`).

**Flash port.** `InStepIntact` is not inductive: whether the page erased next is
the right one depends on where the cursor is in its page. The invariant is
`FlashInv`: `FlashTypeOK /\ CursorInSlot /\ PageInStep /\ InStepIntact`. `PageInStep` says that
while `drift = 0`, `to_current - write_buf` is the start of a page of the slot; so
a page is due exactly when a buffer reaches its end, the buffer ends exactly
there, and the page erased is the next one. `ConfinedToSlot` needs
`CursorInSlot`: whenever a callback is called the cursor is inside the slot, and
one that succeeds leaves it below `to_end`; the page of an address of the slot
lies in the slot because slots are made of whole pages.

**Engine.** `SuccessIsExact` needs to know how an answer that is not negative comes
about: only from `state = "done"`, or with an empty target. The invariant `IInv` is
`TypeOK /\ Accounted /\ Phases /\ SectionFits /\ Exact`. `Accounted` keeps the
books of the input: the bytes read are the header, the compressed bytes used and
the rest of the chunk (which bounds `sunk`). `Phases` says how the loops, the
callbacks, `state` and `res` go together: a negative `res` comes with the failed
state, a buffer on its way to `to_write` is no longer than its section. `Exact`
says that `Len(out) = to_offset` unless the engine has failed, that `to_size` is
the patch's, and that `done` is reached only at `to_offset = to_size`.
`SectionFits` survives a write because of the bound of `Phases` on the buffer.
A stall answers 1, which
`FinalResult` turns into an error, so no other way leads to success.

**Engine follows the reference.** `MatchesReference` compares the end of an update
with a reading of the whole stream, and says nothing of an engine half-way. The
invariant `Matching` does. `Follows`: there is a number of sections after which the
reading of the reference is at a place `r` (`Reached`), and the engine is at that place
(`At`) - inside of the number at `r` (`InNumber`), about to seek by it (`InSeek`),
inside of the section whose size it is (`InSection`), or where the reading ends
(`AtEnd`). `NumberHeld` compares `usize` with the bytes of the number taken so far:
they all have the continuation bit, the value is their `Magnitude`, and the offset is
the shift of the next one. In a section, the target is that of the reference and as many
bytes more as `chunk_size` lacks from the size (`Written`), the source is as far on, and
a buffer on its way holds the bytes that follow; a callback may wait in the middle.
`Drained` says that the engine never takes compressed bytes before it needs what they
yield, which is what lets `Closed` tell bytes behind the end from a stream that
is complete; `Begun` that a good header was read from the first chunk, and `Reported`
that what the loops were told so far, and would be told of an end now, is what the patch
deserves. Two facts about the reference carry the steps: it ends (`ReadingEnds`: every
section takes a byte, so that `Len + 1` of them are enough), and its target only grows
(`TargetGrows`), so that a target cut short by a failed callback is how the whole one
begins. `SectionPart` reads one section of the reference in pieces.

**Call means the patch.** `CallUsesEngine`: from the engine's side each step of the
call is one of its own or none, since it only tells an answer of zero from any other. So
`MatchesReference` holds in the call; with `Granted` (an upgrade is requested only after a
size was returned) only the first of its three cases is left, which is
`UpgradeIsMeant`.

**Decoder.** `DecoderTypeOK` states the decoder's assertions; that a distance is
inside the window when it is used follows from how much of it is still missing
while it is read, which `FieldsFit` adds: a distance with its high part read leaves
room for the low one. `WindowHoldsOutput` is inductive with it: a byte yielded at
`head_index` is the one at distance 1 from the new head, each other cell is one
further away (lemma `Elsewhere`: no other distance up to the window's size falls
on that cell), and the oldest is the one overwritten; `WrappedMask` carries this
over the wrap of `head_index`, and rests on `WrapAssumption`. `UnreadIsSuffix`
needs `SunkCovers`: what waits in the buffer, and the byte that bits are left of,
has been sunk. Its steps are the three ways to take bits: from the byte at hand,
from the next one, and from the last one of the buffer, which empties it.

**Decoder decodes.** `DecodesStream` compares what came out with a reading of the
whole stream, and says nothing of the decoder half-way. The invariant `DecodeInv`
does: there are a number of tokens, a text and a position such that the reference,
given any number of bits beyond this position, has read just these tokens to just
there (`Reached`), and the decoder is inside of the next token (`InToken`). Its
next bit is where the fields taken so far end (`Taken`); what it has of
`output_index` and `output_count` is what the reference reads there
(`FieldsRead`, joined from the high and the low part by `NumberJoins`); and its output
is the text, or the text and what of the back-reference is not still to be copied
(`Copying`). A byte copied from the ring is the one the reference repeats because
the window holds the output (`WindowHoldsOutput`), the bits taken are those of the
stream because none is lost (`UnreadIsSuffix`). When poll answers EMPTY the
rest of the bits is shorter than the field it waits for, hence than the token, so
that the reference reads no further either (`TextEnds`); when more could be had, a
whole token is there. `FinishIsExact` is read off the same invariant.

**Patch reader.** `CallInv` says what the loop of `decompress` leaves true at its
three places: the bytes of the chunk and of the engine's buffer that a call has
used are accounted for against `entry`; EMPTY means an empty input buffer (so that
sinking one byte never fails), MORE a full output buffer; before the first byte is
sunk the decoder has nothing. With it every step of the reader is one of
`DecoderSpec` or none (`UsesDecoder`), so that the theorems about the decoder hold
inside of the reader. The last step of a call is then the step of
`StreamReader`, and all others are stutters; `NotEnoughYet` is what the call has to
remember for this: whenever it sank a byte, what could be had before was too
little.

**Call.** `CheckInv` takes the invariants of the engine and of the flash port as
they are. What links them: `InTouch`, the cursors follow the engine's offsets until
it fails (those of source and target even when the patch can no longer be read),
and `AllAccepted`, as long as nothing but reads of the patch has failed, the port is
active, its cursor is behind the bytes accepted and nothing outside of the slot has
changed. `Processing` and `FailureKnown` keep a failed callback from being forgotten
by the engine's loops, `Granted` says that only a finished patch returns a size.
`UpgradeIsWhole` is the conjunction of these at the end. For the contract, each step
either leaves `SlotNow` and `StatusNow` as they are or is one of its five actions;
the one that takes the invariant is the request: a size is returned only by a
finished engine, all of whose writes were accepted, so that `SlotNow` is
`written` then.

**Dump and restore.** `ResumeInv` is the engine's invariant while it runs
(`Running`), and what outlives a crash otherwise. `DumpSound` says what a dump is good
for: its offsets are those of an engine between two chunks (`DumpTyped`,
`DumpAccounted`, `DumpFits`: the engine's own invariant, with an empty chunk and no
call), its `to_offset` is what the target had accepted (`due`), and the
target is still at least that long - the target grows after a dump and is cut back
only to it. So `Restore` establishes `Running` again. For `ResumedAnswersMatch` the dump
follows the reference too: `DumpMatches` says of its fields, and of the target cut back
to its `to_offset`, what `Begun`, `Drained` and `Follows` say of the engine, and
`OffsetIsPosition` that the offset which is dumped is where the source behind the callback
was, so that the restored engine reads on from there. What a crashed engine
wrote after the dump does not matter (`CutBackStays`).

**Device.** `UpdateTypeOK` falls into the groups of variables that move together;
the one that is not obvious is `slot0`: `Boot` puts in it what the secondary slot
holds, and only `Bootable` keeps that from being a broken image. `TakenOnce` is
inductive. `PendingIsWhole` is not: a call might start while a swap is pending. `CallIsOver` says why none does: while a swap is pending
the call has asked for it or failed to, or main has stopped, or the device is off,
and the boot that follows clears the request. `ForwardOnly` needs in addition that
patches lead forward (`Numbered`) and that what a call has written, or has asked
to boot, is broken or no older than the running image (`WrittenIsNotOlder`); it
starts from a call that finds `slot1 = "kept"`, whatever an earlier call that was
cut off left behind.

Only model-checked: the liveness properties (`Terminates`, `CallEnds`,
`PressTakesPatch`), which are out of the prover's reach; and the five statements that
the code does not keep, for which the runs give a counterexample. What the
theorems leave to the reader is where two models meet without one importing the other:
that the patches of `StreamsArePatches` are those of `PatchesAssumption`, and that the
target is intact in the slot only while `drift` is zero, which nothing keeps there
(`check_image`).

## 5. Not modelled

- The variant of the decoder with dynamic allocation, which this build compiles
  out; the arguments it checks for NULL, which no caller passes. The encoder is
  not part of the program.
- The compression nibble of the header, which is kept but decides nothing: this
  copy of detools knows heatshrink only.
- An engine that was dumped before its first chunk: `restore` returns before it
  sets `to_offset`, and `get_to_offset` says what the memory held. `RestoreInit`
  has this, and `RestoredOffsetIsDue` leaves it out.
- Reads of zero bytes, NULL checks and allocation failures in `delta.c`, which
  cannot happen or end the call before anything is done; blinking and sleeping.
- The confirmation of the image (`boot_write_img_confirmed`): the upgrade is
  requested as permanent, so that nothing reverts it.
- The warning of `pad_patch.py` of a patch that is too large, which stops nothing;
  a read behind the end of the flash is an error of the driver in `DeltaFlash`.
- `scripts/jflashrw.py` and the build files: no state of the device.

## 6. Plan

1. Done: the flash port, the engine, the decoder and its reader, the call, its
   contract, dump and restore, the error strings and the device with its host;
   theorems about each of them, among them both refinements and that the decoder
   decodes.
2. Done: `PatchReference` with a recursive function, one section at a time, and
   `MatchesReference` for the engine, for dump and restore, and inside of the call.
3. Left: the decoder and the engine in one model, so that the target is said of the
   compressed bytes themselves; today the two meet in `StreamReader`.
