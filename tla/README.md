# ddevmem in TLA+

Specifications, model-checking runs and machine-checked proofs for
[ddevmem](../src/README.md): memory-mapped registers for Rust, with a macro that
generates typed accessors and an optional web UI.

## 1. The system

| Component | State it keeps | Operations | Where |
|---|---|---|---|
| **DevMem** | base address, length, the mapping | `new`, checked and unchecked `read`/`write`, `modify`, slices | `src/src/devmem.rs` |
| **register_map!** | none (a compile-time function from a declaration to code) | parse, validate, expand | `src/ddevmem-macros/src/` |
| **Generated map** | an `Arc<DevMem>` | `new`, getters, `set_<reg>`, `modify_<reg>`, `set_/clear_<reg>_<field>`, `write_<reg>`, offsets | `expand.rs` |
| **Field conversions** | none | `FieldValue`, enum and bool `from_raw`/`to_raw` | `field.rs`, `expand.rs` |
| **Spec table** | none | `expand`, `contains`, `is_readable`, `is_writable`, `read_register`, `write_register` | `web.rs`, `ddevmem-macros/src/web.rs` |
| **WebUi builder** | slugs, cached names, handles, callback | `add`, `with_auth`, `with_title`, `build` | `web.rs` |
| **Web server** | a tokio mutex per map | `/api/maps`, `info`, `read`, `write`, authentication | `web.rs` |
| **Web page** | the list of maps, what it displays, handlers in flight | Set, Clear, Write, Read, refresh, dump | `web_ui.html` |
| **The device** (outside) | the bits behind a register | raises flags, runs commands, drives status | — |

How they interact. A declaration becomes a struct of accessors and a spec table.
Rust tasks call accessors under the map's mutex; an accessor makes one or two
volatile bus accesses through DevMem, unchecked, because `Map::new` compared the
mapping's length once. The server's handlers take the same mutex for one read or
write each. The page composes a read request and a write request into a
read-modify-write. The device knows of none of these locks.

Where it is hard:

* the device changes a register between the two bus accesses of a
  read-modify-write, and writing 1 to some bits has an effect;
* three levels of atomicity: the bus access, the accessor under the mutex, and
  the click that holds no mutex between its two requests;
* a handler may be dropped while it waits for the mutex, or when it was just
  handed it; a closure may panic in the middle of an accessor;
* offsets are computed in four places (the length check, `__index`,
  `spec::contains`, `spec::expand`) and checked in two, in arithmetic that wraps;
* requests fail, and answers are lost after the write took effect;
* several reads of one register are in flight at once, and each answer overwrites
  what the page shows, the dropdown the user is about to use included;
* `DevMem` synchronizes nothing: a slice or a `modify` is as many accesses as it has
  elements, and threads and the device come between them;
* one field's arithmetic exists twice, in Rust and in JavaScript.

What makes the components correct, in a sentence each:

* an accessor changes its own bits, acknowledges no flag and starts no command it
  is not for, and takes effect as one atomic step;
* the server applies a request in the step that answers it, or not at all; nobody
  is lost by the mutex, and everybody who waits gets in;
* the page keeps the accessor's promises about flags and commands at any degree of
  staleness, and is atomic when nobody else writes;
* what the dropdown offers to set is what the user chose or what is displayed, and the
  page ends up showing a register that rests;
* a call of `DevMem` accesses its elements once and whole, or touches nothing;
* no access leaves the mapping, and what is listed is exactly what is served;
* a field that compiles lies inside its register, and its getter and setter lose
  nothing and touch nothing else; a declaration that keeps the rules compiles.

`PROJECT.json` lists the hazards line by line, with the property that would catch
each.

## 2. Modules

| Module | Models | Notes |
|---|---|---|
| `RegisterWord` | access kinds, field masks, insert, `__update`, the words of setter and clearer | words are sets of bit positions, so `a & !b` is `a \ b` |
| `Register` | one declaration, its writing methods, the device | the device's reaction is external |
| `AtomicRegister` | abstract: each operation one step on its own bits | no lock, no read, no mask |
| `RegisterAccess` | threads, guard, bus accesses, panics, device | implements `AtomicRegister` |
| `RegisterAccessProofs` | theorems about it | |
| `ServerTypes` | maps, requests, find_map, refusals, answers | |
| `AtomicServer` | abstract: a request takes effect and is answered in one step | |
| `WebServer` | builder, handlers, authentication, tokio mutex, Rust tasks, disconnects | implements `AtomicServer` |
| `WebServerProofs` | theorems about it | |
| `WebPage` | click handlers over separate requests | composes `AtomicRegister` for Rust tasks and the device |
| `WebPageProofs` | theorems about it | |
| `PageDisplay` | `WebPage` with the reads in flight, auto-refresh, dropdown, status line | implements `WebPage` |
| `PageDisplayProofs` | theorems about it, on top of those of `WebPage` | |
| `MemoryCalls` | the checked calls of `DevMem` and their elements | |
| `ElementMemory` | abstract: each element is accessed whole and once | |
| `DevMemory` | threads that share a `DevMem`, access by access | implements `ElementMemory` |
| `DevMemoryProofs` | theorems about it | |
| `MapLayout` | offsets, required length, bounds and alignment checks | |
| `MapLayoutProofs` | theorems about it | |
| `FieldCodec` | a bitfield among those of its register: validation, const assertions, masks, getter, setter, clearer, builder, and the page's arithmetic | `RegisterWord`'s operators are its reference |
| `FieldCodecProofs` | theorems about it | |
| `MC...` | instances for TLC | |

**Registers.** `RegisterAccess` has a program counter per thread. `Call` is the
entry of a method, `BusRead` and `BusWrite` are the two halves of `__update` or
`modify_<reg>`; `WriterSet`, `WriterClear` and `WriterDone` are the calls on the
builder a `write_<reg>` closure receives. `ClosurePanics` unwinds out of either
closure. The mutex is not in the crate but in its documented use
(`devmem.rs:96-101`, `Arc<Mutex<Map>>`); `&mut self` on every setter makes it
necessary, so `Lock` precedes `Call`. Getters change no state and are left out.
The register is declared as the documentation asks: flags are `w1c`, commands
are `wo`, the rest is what a write stores or what hardware drives
(`DeviceAssumption`). A self-changing bit that is declared plain is outside it.

**Server.** `WebServer` has a step for each stretch a handler runs between
awaits. The authentication callback is one await, the mutex the other. The mutex
is tokio's: first come first served, its permit handed to the head of the queue
on release, so that a handler may hold it without having been polled since.
`Abandon` drops a handler's future at either await. Each map has one register; an
offset stands for its entry in the spec table, because which entry an offset finds
is the subject of `MapLayout`. Before it serves, `Add` adds the maps one by one. A
task may share a map by then and hold its mutex, in which case `try_lock` fails and
the list calls the map by its slug for ever. `Maps` may use a slug twice and add one
map under two slugs.

**Page.** `WebPage` takes a request to be one step of the server, which is what
`WebServer` shows, and an accessor called by a Rust task to be one step of the
register, which is what `RegisterAccess` shows. Between the two requests anything
may happen. A write whose answer is lost ends with an error like one that was
refused. `disturbed` is a history variable: the handlers that have read the register
and had somebody else write it since.

A control of a field knows the field by its name, as the call in its `onclick` does.
`Rendered` gives the controls of each register at the offset; `Target` looks the name up
in the first register (`findField`), whichever the control was rendered for. So the
control of a later register does nothing (`ClickInVain`), or works on the first
register's field of that name. Its promises about flags and commands are about the
field that is found. `Numbers` are what the user writes into a whole register; the
server takes whatever fits the bus, also if the register's type is narrower, and
refuses the rest (`RequestFails`).

**Display.** `PageDisplay` adds what the page shows. A read request is started by the
timer, by the Read button or by a click that wrote, is answered or lost, and its
result is delivered some time later, so answers overtake each other. `Press` is
`Click` of `WebPage` with the value the dropdown has at that moment. `had` and
`picked` are histories: the values the field had, and the variant the user chose since
an answer last set the dropdown. `Readable` and `Displayed` take the registers declared
behind into account: a `wo` register in front of a readable one is read and displayed.

**Memory.** `DevMemory` has a program counter per thread that runs through the
accesses of a call: one per element of a slice, two for `modify`. The whole range is
checked on entry. Bytes of one element are accessed together (volatile accesses of the
machine's width), those of different elements are not. `disturbed` marks the threads
whose bytes somebody else wrote since they accessed them.

**Layout.** `MapLayout` has the arithmetic of `usize` (`Limit`), the two paths by
which the macro sums up the required length (literals, added by the macro;
constants, added by the compiler), and one record of the last access. A slice is
recorded as a whole: its elements are inside it.

**Fields.** `FieldCodec` follows a declaration through the two places that check it:
`Expand` is `validate` with what the macro knows (`Validates`), `Compile` the
compiler with what was left to it (`Compiles`). Neither the width of `usize` nor a
value that is not a literal is known to the macro. The masks are computed in two
ways as well, literal (`FieldPos::Literal`) and by constants (`FieldPos::Const`,
here `Deferred`), with special cases where the field is as wide as the bus. A
compiled field is then set by the program and changed by the hardware; the getter
is the operator `Got`. A named enum goes through `from_raw`/`to_raw`, or through
`FieldValue` and u64 when it belongs to a register of another type (`Direct`). An
assertion in a constant is taken to be evaluated: rustc does so for the constants
a method uses, and only such methods are called here.

Constants are cut to u32 before they are compared (`lo as u32`): `Compile` replaces the
declaration by what the generated code has of it (`Placed`, positions modulo
`PosLimit`), and everything said of a compiled field is about those positions. A
position of 2^32 or more may so be accepted and stand for other bits than it says. The
builder of a `wo` register names its masks through `Self`, but constants belong to the
map: `WriterInScope` refuses what rustc refuses.

`PageField`, `PageShows` and `PageBits` are the same field in the page's JavaScript, on
BigInts without width. The variants reach it as JSON numbers. What the page makes of
such a number (`Number`), and of the digits it puts into the dropdown (`Digits`), is
exact up to `Precision` bits (53) and left open above (`PrecisionAssumption`); register
values travel as hexadecimal strings.

`beside` are the other fields of the register, each with a position of either form.
They matter in two ways: a register compiles only if all its fields do, and every
setter writes those that are `w1c` or `wo` as zero, with a mask that is or-ed from
literals and constants (`ForceZeroMask`).

This module carries the ones above it. `RegisterAccess` and `WebPage` work on sets of
bits and know neither masks nor types; they assume that a register is declared well
(`DeclarationAssumption`) and that its methods write `SetWord` and `ClearWord`.
`CompiledIsSound` is that assumption, word for word (`Declares`), for every register
that compiles; `WordsAgree` says that what the macro generates writes just these
words. Both are theorems.

## 3. Runs

| Run | Shows | Bounds |
|---|---|---|
| `accessors_rw` | flags, commands and neighbours survive every interleaving of two threads and the device; accessors are atomic | 7-bit word with each kind of field and an undeclared bit above the type |
| `accessors_wo` | writes to a `wo` register put zero everywhere else; the inductive invariant | 6-bit word, two commands, a flag, a two-bit field |
| `server` | requests are atomic, the mutex loses nobody and hands maps on in order of arrival, a task inside a map is alone, a slug is served by the map first added; everybody is served if tasks unlock, and the list is answered even if they do not | 2 clients, 1 task, 2 maps under 3 slugs of which one is used twice, 9 requests that take every path |
| `page_shared` | the page loses no flag and starts no command under interference, and an undisturbed click is atomic | 2 handlers, Rust tasks, the device; a register narrower than the bus, and one behind it of whose fields one is not found, one is named like the flag and one is a flag named like a plain field |
| `page_display` | Set writes what was chosen or is displayed, and a register that rests is shown | 3 reads in flight, a field of 2 bits with 2 variants, Rust tasks |
| `memory` | calls are element-wise or refused, and atomic if undisturbed | 2 threads, 4 bytes of which the device changes one, 12 calls |
| `layout_checked` | bounds, and agreement of listed and served offsets | 32-byte address space, all offsets, slices of up to 3, maps at its end |
| `fields` | what both checks let pass lies inside its register, is read exactly, written inside its bits with the words `RegisterAccess` assumes, and means the same to the page; what is legal is accepted, but for builders | types of 2 to 5 bits, 5452 declarations: every kind of field, literal and not, known bus and `usize` bus, alone or beside fields of either form; a u32 that ends at 8, JSON numbers of 3 exact bits |
| `page_neighbours` | *violated*: clicks on Set undo each other's fields | 2 handlers, 2 fields |
| `page_alias` | *violated*: controls of an aliased register do nothing | a `ro` and a `wo` register at one offset |
| `misfits` | *violated*: narrow casts and unfit variants compile when the macro does not know a number | as `fields` |
| `layout_wraps` | *violated*: a wrapped length lets accessors leave the mapping | as `layout_checked`, overflow checks off |

Why the bounds are enough. A lost update needs two writers and one register; a
third thread only waits for the same guard. A flag or command needs one bit each;
the second flag of `accessors_rw` shows that clearing one leaves the other. Field
values include one that does not fit, so that masking matters. In the server two
clients and a task make a queue of two behind a holder, the least in which order
matters. The second map shows that one contended map does not stop the other; adding
it again under the first one's slug, that `find_map` does not reach it there. A
request for `info` takes the path of a read and is not among the nine; the theorems
cover it. Two reads of the timer are the least that overtake each other, and the read
after a click is a third. Two of four encodings have no variant, so the dropdown can
go blank. The calls of `memory` overlap in all and in some of their bytes, end at the
end of the mapping, cross it, and include an empty slice there; one byte is the
device's. The
32-byte address space contains a declaration whose end is exactly its size, one
beyond it, and one just below.

The fields of the scaled-down types are at bit 0, in the middle and at the top, of
one bit, as wide as the register, as wide as the bus, reversed, and one bit beyond
it: every case the code distinguishes. `usize` is wider than one type and narrower
than another, so both outcomes of a deferred check occur. The fields beside are
forced to zero or not, by literals, by constants and by both in one mask, below the
field and across it, and some do not exist in the type. Constant positions from
`PosLimit` on wrap into the register, beyond it, and to a reversed range; two variants of
one enum, 8 and 9, are one JSON number.

`accessors_*`, `server`, `page_*`, `memory` and `layout_*` may run for ever, so deadlock
is checked there. A declaration that was refused is the end of `fields` and `misfits`.

### Fairness

Runs of safety alone state none. `FairSpec` of `WebServer` assumes weak fairness of
each handler's next step (the runtime polls a future that is ready, and the
authentication callback resolves) and of a task that was handed the permit. That
a task which locks a map unlocks it again (`TasksRelease`) is the hypothesis of
`EveryoneServed`, not of the specification, so the same run shows that the list
needs no such thing (`ListNeverWaits`). Nothing is assumed of clients: they need
neither send nor stay.

`FairPageSpec` assumes that the browser fires the timer, runs the handlers of what has
arrived, and that a request ends, answered or lost (`Browser`). That not every request
is lost (`ServerAnswers`, strong fairness) is the hypothesis of `EventuallyLive`, with
auto-refresh on and a register at rest. Nothing is assumed of the user.

### Disagreements found

1. **Clicks are not atomic** (`page_neighbours`; `web_ui.html:1098-1115`). The page
   reads with one request and writes with another. A second click or a Rust task
   in between has its field written back with the old value, where the README
   promises that bitfield writes preserve neighbouring bits. Flags and commands
   are safe (`page_shared`): the force-zero mask does not depend on what was read.
2. **Aliased registers** (`page_alias`; `web_ui.html:1087-1092`). Fields are looked
   up in the first register at an offset, so the controls of the second do
   nothing and say nothing; or, where the first register has a field of the same name,
   they work on that one.
3. **Misfits compile** (`misfits`; `validate.rs:336`, `expand.rs:285-301`). The
   documentation lists narrow casts and enum values that do not fit as compile
   errors and says const assertions take over where an expression is not a literal.
   The assertions check the range and the width of a bool, and nothing else: such a
   cast truncates on read, and such a value is cut off on write.
4. **Wrapped length** (`layout_wraps`; `expand.rs:582`). The macro's own sum of
   literal offset and length wraps when overflow checks are off. The path for
   constants is a compile error, as the theorem `Bounds` assumes.

For each of the four a theorem says where the documented behaviour does hold:
`AloneKeepsNeighbours` for one handler without Rust tasks, `ControlsWork` where no
later register at an offset has writable fields, `JudgedRefused` where the macro
knows the numbers, and `Bounds` with overflow checks. The violating runs are outside
these hypotheses, and `NeighboursOrDisturbed` names the only cause in the first case:
somebody wrote between the two requests.

Three more are in the model and bound what the properties of `fields` say:

* **Builders that do not compile** (`expand.rs:933-989`). `lib.rs:145` allows constant
  positions, and registers may be `usize`; but the methods of a `write_<reg>` builder
  refer to `Self::__REG_FIELD_MASK`, which is declared for the map (`expand.rs:554-559`).
  A `wo` register with such a writable field is refused by rustc. `LegalAccepted` says
  that nothing else is refused that should not be.
* **Constant positions wrap at 2^32** (`expand.rs:286-289`), see Fields above.
* **Variants above 2^53** (`web_ui.html:822-823`, `1040`). JSON numbers are not exact
  there, as the comments at `web_ui.html:666` and `web.rs:333` say of register values; the
  dropdown then shows and sets other numbers. `PageAgrees` is limited to `Precise` enums.

Smaller ones are listed under the hazards without a property, since none of what
the page promises forbids them: `writeReg` reads a write-only register back and shows
the refusal instead of `written` (`web_ui.html:1062`); a read in flight clears the
error of a write that failed (`:1023`); an answer overwrites a choice that was not set
yet (`:1043`), and before the first answer the dropdown stands on a variant nobody chose
(`:822`).

## 4. Proofs

All hold for every value of the constants that satisfies the named assumptions.

Each module of proofs first shows that an inductive invariant is kept, one step per
action and one lemma per conjunct, and derives the listed theorems from it.

`RegisterAccessProofs`, from `DeclarationAssumption`, `DeviceAssumption` and
`ThreadAssumption`: any declaration, word, number of threads.

* The inductive invariant is `IInv`: `TypeOK`, `GuardHeld` (a thread is past the
  lock exactly while it holds it), `SeenIsCurrent`, `WriterBits` and `Quiet`.
  `SeenIsCurrent` is the heart: between read and write the storage bits read are
  still the device's and the flags seen pending still are. It is not inductive alone;
  another thread's write would break it, so `GuardHeld` is needed, and a builder's
  word starts from zero only by `Quiet`.
* `Invariance`, then from it `TypeCorrect`, `SeenStaysCurrent`, `MutualExclusion`,
  `BuilderOwnsItsBits`, the action properties `FlagSafety`, `CommandSafety`, `NeighbourSafety`, and
  `Refinement`: `Spec => AtomicSpec`. In the refinement every step but `BusWrite`
  and those of the device is a stutter; in a `modify` the value the closure saw is
  the witness of the abstract choice.

`MapLayoutProofs`, from `LayoutAssumption`:

* `Bounds`, with overflow checks: no access leaves the mapping or is misaligned,
  for every declaration, length, bus and address space. The chain is `SlotFits` and
  `ModAligned` (arithmetic), `Elements` (an element is an aligned slot inside its
  entry), `ExactEnds` (the comparison in `Map::new` is exact), and the type invariant,
  which remembers that the map compiled and fitted.
* `Served`: what is listed is found and not refused. `Declared`: what is served is
  listed, even without overflow checks (`ContainedIsElement`).

`FieldCodecProofs`, from `WidthAssumption`, `SyntaxAssumption` and `PrecisionAssumption`:
any widths of the integer types (none wider than u64), any declarations, and whatever
JavaScript makes of numbers that are not exact.

* `Sound`: the checks of `validate` and of the assertions, split by what each knows,
  together cover every declaration and all its fields (`ChecksAreComplete`). It is about
  the positions after the cast to u32; that the cast changes no literal `validate` judged,
  and what `validate` said stays true, are `PlacedTypes` and `PlacedValidates`.
* `LegalIsAccepted`, the converse: what keeps the documented rules passes both, with the
  exception of builders (`LegalValidates`, `LegalCompiles`).
* `NoSpill`: no setter leaves its field, but for bits forced to zero. `MaskOfIsField`
  shows that the mask computed by constants is the one the macro computes, at full width
  too; `ValueInField` that a value which is not masked fits because `validate` compared
  it. The type invariant is inductive and remembers that the declaration passed both checks.
* `MethodsWrite`: setters and clearers write the words of `RegisterWord`, and so do the
  builders of the `wo` registers that compile.
  `ForcedIsForceZero` gives the mask or-ed from both forms, `FieldBitsInserted` the bits of
  a value: what is cut by a mask, by a cast or not at all is what `Insert` keeps. With
  `Sound` this discharges what `RegisterAccess` and `WebPage` take for granted.
* `JudgedRefused`: a declaration the macro can judge compiles only if cast type and
  variants fit the field, which is where `misfits` does not reach.
* `GetterExact`: the getter returns what the bits mean. The steps are `ExtractedIsField`
  (masks and shifts, at full width too), `VariantsDiffer` (no two variants share a value
  and no cast changes one) and `DecodedIsVariant`.
* `SetComesBack`: what was set is read back. It needs the invariant `SetIsInField`: until
  something else writes, the field holds the bits of what was set.
* `PageAlike`: the page shows what the getter returns and writes what the setter writes,
  for enums whose values are exact as JSON numbers (`ExactFlags`, `ExactVariants`).

`WebPageProofs`, from the assumptions of `Register` and `PageAssumption`: any number of
handlers, pages and registers at one offset.

* The inductive invariant is `TypeOK`, `AtWork` (a handler at work has found its field)
  and `WordsInFlight`: the word of a write request on its way has, of the flags and the
  commands, those the click is for, whatever it was computed from; and of the storage
  bits, unless the handler is disturbed, what the register has now.
* From it `FlagSafety`, `CommandSafety` and `UndisturbedAtomicity`.
* `PageComputesAlike`: for every control and every value read, the page's `compute` is the
  accessor's word; the force-zero mask of the page is that of the macro (`PageForcesZero`).
* `NeighboursOrDisturbed`, and from `UndisturbedKeeps` and `WhoChangesStorage` also
  `AloneKeepsNeighbours`, where the invariant gains `disturbed = {}`. `ControlsWork`: every
  field control that is rendered is of the first register at its offset, where
  `findField` looks.
* The names are any (`PageAssumption`): all but `ControlsWork` hold whichever registers
  share names, of the field that is found.

`PageDisplayProofs`, from `DisplayAssumption` as well: any number of reads in flight.

* `DisplayIsPage`: `PageSpec => Spec`. Every step of the displayed page is a step of
  `WebPage` or a stutter, so its theorems hold with the display.
* `NothingIsInvented` and `DisplayTypeCorrect`, from `HistoryKept`: what the register holds
  and what the answers on their way carry the field has had.
* `OnlyFreshAnswers`, the safety half of `EventuallyLive`: while the register rests, no
  answer becomes stale, and once those that were are delivered, the page keeps showing the
  register. What is left to fairness is that they are delivered and one more read is.

`WebServerProofs`, from `RequestAssumption` and `HolderAssumption`: any number of clients,
tasks, maps and slugs, and any requests.

* The inductive invariant is `TypeOK`, `Stages` (what a handler has established at each
  await), `MutexesOK` (each mutex by itself), `HandlersAt` and `TasksAt` (who is at which
  mutex, and that a task is at one only). `TailOfQueue`, `AppendToQueue`
  and `RemoveFromQueue` say once what happens to the members of a queue, and
  `ReleaseEffect`, `EnqueueEffect` and `LeaveEffect` to the set of those at a mutex.
* `NobodyIsLost`, `TaskExclusion`, and `FirstAdded` (with `FirstOfSlug`, where the first
  index exists because < is well-founded on the naturals).
* `InTurn`, the safety half of `EveryoneServed`: the order of two at a mutex never changes
  and nobody is passed. `TailOrder`, `AppendOrder` and `RemoveOrder` say what happens to the
  order in a queue, `ReleaseOrder`, `EnqueueOrder` and `LeaveOrder` to that of permit and
  queue; each rests on the queue having no duplicates (`MutexesOK`).
* `Refinement`: `Spec => AtomicSpec`. `HandleAtOnce` and `Resume` are the atomic answer,
  `Abandon` the loss, and waiting is a stutter: `Stages` says that what was checked before
  the wait still holds after it.

`DevMemoryProofs`, from `CallAssumption`: any memory, calls, closure and threads.

* The inductive invariant is `TypeOK` and `Coherent`: for a call nobody disturbed, the
  last access to each of its elements still agrees with memory.
* `UndisturbedAtomicity` and `Refinement`: `Spec => ElementSpec`.

Model-checked only: `EveryoneServed`, `ListNeverWaits` and `EventuallyLive`, because
liveness under fairness and ENABLED are out of the prover's reach. What these rest on
that is safety is proved: `NobodyIsLost` and `InTurn`, and `OnlyFreshAnswers`.

## 5. Not modelled

* `build.rs` (minifier), rustdoc text, theme, sidebar and the text of a dump: text and
  layout. A dump promises no snapshot, so it has no property either.
* The parser: a grammar over Rust tokens. The models start from the parsed declaration,
  in which an exclusive range has its inclusive end and a name that is an enum of the
  map stands for it.
* The mapping itself (`/dev/mem`, the emulator's buffer): assumed page-aligned and
  of the length asked for.
* Memory ordering of volatile accesses below the bus access, and elements wider than
  one access of the machine.
* `with_title` and the panic of `add` on a slug with a bad character: wording, and an end
  before anything runs.
* The namespaces of generated names (`validate.rs:30-71`): two that collide are
  refused by the compiler in any case.
* What a JSON number that is not exact becomes: any number, in the model.
* Whether a callback's verdict is outdated when the request gets the mutex: the code
  promises nothing of it.
* rustc's lint on a literal position without suffix that exceeds a u32: the model cuts it
  off like any constant, rustc refuses it unless the lint is allowed.
* A field of `Selected`'s name beside it in the same register (`DisplayAssumption`).

## 6. Plan

1. *Done*: accessors, server and builder, page and display, memory, layout, fields; each
   with its refinement or invariants proved.
2. *Done*: registers of several fields in `FieldCodec`; `DeclarationAssumption` follows
   from what compiles, and the words of the accessors from what is generated.
3. The parser's normalisation of ranges and of enum names.
