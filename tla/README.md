# A formal model of rh_project

rh_project is the software of a distribution-area terminal. Two processes run on
the device and talk through one shared-memory segment:

* **rhApp** (`src/code`) owns the *data memory*: the last known value of every item
  of every metering device, described by `src/bin/meter.xml`. Telemetry protocols
  reach it by list and address (IEC 104), other processes by device number and data
  ID (the "oop" interface).
* **elAPP** (`src/enegy_loss`) computes *line losses*: once a minute it reads the
  energy registers of all meters from rhApp, adds up what each level of the supply
  network used, compares a level with the one below it and writes the result back
  into rhApp's data memory.

This directory holds TLA+ modules translated from that code, the TLC runs that check
them on small instances, and TLAPS proofs of the results that hold for every
instance. `PROJECT.json` maps every definition to the lines it models.

## Inventory

| Component | Source | State | Operations | Interaction |
|---|---|---|---|---|
| message channel | `enegy_loss/rh_msg_channel.c` (and its copy in `code/`) | one message in a System V segment; one mutex `s_lock` **per process** | `SmMsgInit`, `SmMsgSendWait`, `SmMsgRecv`, `SmMsgSendEcho` | shared memory between processes, polled every 10 ms |
| remote calls and service threads | `*/elDbase.c` | `seq`, the message buffers, the dispatch table `s_dbaseMsgMap` | `el_read_data`, `el_write_data`, `elDbaseProc`, `el_msg_echo`, the handlers | use the channel; the handlers use the data memory |
| data memory operations | `code/mem.c` 1303-1800 | `s_pDataMem`, one lock per device, one per telemetry list | `rh_mem_data_{write,read}_{oop,iec}` | called by several threads of rhApp |
| point search | `code/mem.c` 1479-1508, 1604-1633 | three indices | binary search for an address | inside the iec operations, list locked |
| line-loss task | `enegy_loss/elMeter.c`, `elTask.c` | meter readings and their backup, totals per level, statistics | `meter_data_update`, `meter_ene_update`, `el_statis_proc`, `el_statis_save`, `el_init` | every access to a meter is a remote call |
| configuration loading | `code/mem.c` 53-480, 939-1264, 1725-1758, `code/main.c` | `s_pointMap`, `s_memMap`, `s_pDataMem` | `rh_point_list_load`, `rh_mem_map_init`, `rh_mem_init`, `main` | runs once, before the service thread starts |
| meter parameters | `enegy_loss/elMeter.c` 34-198 | `g_ParaMet` | `meter_para_load` | runs once, in `el_init` |
| encoding | `*/elCommon.c` | none | `xdr_*`, `str2dec`, `smallcpy` | payloads of the messages |
| client, server | `src/client`, `src/server` | | | earlier prototypes of the two sides of the channel |
| former data memory | `code/mem_wj.c` | | | not called by either application |
| libxml | vendored | | | parses `meter.xml` |

What is hard here, and the property that makes each part correct:

* **The slot is not protected.** `s_lock` comes from `malloc`, so it orders the two
  threads of one process and nothing between processes. Every test of `state`, `index`
  and `szDest` is followed by a copy during which the other process may write. Correct
  means: the answer a call gets is its own, a call is executed at most once, and a call
  reported as "not sent" is never executed.
* **Timeouts free the slot whatever it holds.** A late answer, a request to a dead
  process and a fresh request look alike to the call that gives up. Correct means:
  late answers are told apart by the index, and no message blocks the slot for ever.
* **`SmMsgSendWait` sleeps with `s_lock` held.** Correct means: everybody returns.
* **The data memory is copied byte by byte** by several threads. Correct means: a read
  sees one write of an item, every lock is released, every call returns.
* **The search trusts `num`** of the configuration file and starts one position past
  the list. Correct means: a configured point is found whatever lies behind the list.
* **The tables are sized by one attribute and filled from another** (`num` and the
  children), every step of loading may give up half way, and `main` goes on whatever
  `rh_mem_init` returned. Correct means: no byte of the memory belongs to two items, and
  requests are served only when the memory is there.
* **Every reading may fail, come late, or start again at zero**, and either application
  may restart at any moment while the other keeps its memory. Correct means: no meter is
  charged for energy it did not use, nothing used between two readings is lost, level
  totals are the sum of their meters, rhApp shows no energy that was not used, what it has
  confirmed is what it shows, and a failed write is made good.
* **Numbers and lengths cross the boundary of two buffers**: a length of one byte or
  several, a handler's `dataBuf` shorter than a long item, an answer longer than a message,
  a result of 0 that means success on one side and failure on the other, an `int` stored
  over one-byte fields, an address of any length stored into 15 bytes. Correct means: what
  arrives is what was sent, only the item named changes, and what runs over an end is known.

The complete list, line by line, is under `hazards` in `PROJECT.json`.

## Modules

**`Rpc`** is the abstract specification of the channel: calls are invoked, served at most
once and not after a later call, and return with an answer (after they were served), as
unsent (never served) or as unknown. `Promise` is what a caller may conclude from a
result. A call whose process died is *lost*: it may still be
served, and its answer is the only one another call may get instead of its own, because
`seq` of the process that takes over starts at 0 again.

**`Channel`** is the code of the channel, and of the caller and service threads
around it. One action is one step of one thread between two accesses of shared state:

| Action | Code |
|---|---|
| `SmMsgInit`, `Crash` | `el_dbase_init`; a process dies with its locks and counters, the segment stays |
| `Call` | `el_read_data` / `el_write_data` up to `SmMsgSendWait` |
| `SendWaitNoQue`, `SendWaitLock` | `shmget` fails; `pthread_mutex_lock` |
| `SendWaitPoll`, `SendWaitPut`, `SendWaitGiveUp` | first loop, `memcpy` of the request, return -3 |
| `SendWaitState`, `SendWaitMatch`, `SendWaitTake`, `SendWaitDone`, `SendWaitExpire` | second loop: test of `state`, test of the rest, `memcpy` of the answer, return 0, return -4 |
| `RecvState`, `RecvDest`, `RecvCopy`, `RecvClear` | `SmMsgRecv`, which takes no lock |
| `Dispatch` | the loop over `s_dbaseMsgMap` and the handler |
| `SendEchoLock`, `SendEchoNoQue`, `SendEchoCheck`, `SendEchoPut` | `el_msg_echo` and `SmMsgSendEcho` |

A `memcpy` of a message is a data race between the processes. `CopyUnits` says in which
pieces, in any order, the other side may see it: `WholeCopy` is the kindest outcome,
`SplitCopy` separates the state byte, `TornCopy` separates three groups of fields. The
payload is reduced to the number of the call it belongs to. `WaitName` and `KeepsIop`
keep two differences between the two copies of `elDbase.c`: rhApp waits under elAPP's
name, and elAPP's `el_msg_echo` copies `iid` where the operation belongs.

**`DataMem`** has one action for each part of an operation that runs under its own
locks: the call and its lookups, `pthread_mutex_lock` of list and device, one byte of
`smallcpy`, and the return with exactly the unlocks the code makes. The tables are
constants: the threads start after they are loaded. `item` is what the lookups of a
call found (`pied`, `pDotType`); the oop operations look before they lock, the iec
operations with the list locked.

**`MemMap`** is how those tables come about. The file is any member of `Files`: lists with
the number they announce, if they announce one, and the entries they have, devices with
objects, objects with items; numbers may be negative, as `str2dec` takes them. An object that
announces more items than it has leaves *junk* in its table, which `malloc` did not clear.
A write outside `s_pDataMem`, through junk or past a list may be deadly or not (the code's
undefined behaviour is a choice); what it hits when it is not is not followed.

| Action | Code |
|---|---|
| `NoPoints`, `BadNum`, `LoadEntry`, `ListLoaded` | `rh_point_list_load`: no device `104tstied`; a list whose `num` is missing or, for ID, negative; one entry of YC, YX, YM, ID, with what each list does about a missing attribute; the end of a list |
| `MapBegin`, `MapIed`, `MapDo`, `MapDoFails`, `IedMapped` | `rh_mem_map_init`: templates and number of devices; one `IED`; one object, which gets the next bytes, or one that lacks an attribute, a template or part of an item; the end of a device |
| `MemAlloc` | the rest of `rh_mem_init`: `malloc`, `el_dbase_init` |
| `MainWrite` | `main` writing after it, through `s_pDataMem` |
| `HeapDeath` | the C library that meets what a list wrote past its allocation |

**`PointSearch`** is the binary search, one action per turn of the loop. Init ranges over
every list up to `MaxNum` points in order of address, every address looked for, and
lists that have up to `Short` points less than their `num`; what lies behind the filled
points reads as any address, differently at each look.

**`Service`** is what a call carries. `SendRead` and `SendWrite` encode a request with the
operators named after the `xdr_*` functions, `read_mem_data` and `write_mem_data` decode
it, use the data memory and answer through `el_msg_echo`, whose answer may be longer than
the `pValue` of a message (`MsgBuf`): rhApp dies of the overrun or goes on. `HeapDeath` is the
end of an rhApp whose memory was written past its end. `Address` is what
every request begins with, `Copied` the handler's `dataBuf` after the read, and `Weight`
what each byte of a number counts. `ReadReturn` and
`WriteReturn` are the rest of `el_read_data` and `el_write_data`; `MainWrite` is rhApp's own
thread and `GiveUp` every other way a call ends. A byte has `Base` values and `dataBuf`
has `DataBuf` bytes, in the proportion of 256 and 128. The requests of elAPP fit into a
message, as those of `elTask.c` do, which write 1 and 4 bytes. `held` and `meant` are history: what
the item held when it was served, and what each item ought to hold.

**`MeterPara`** is `meter_para_load` as operators: `Turn` is one child of `IED_PARA`, with every
early return, `Fields` what of a meter is stored by then. `str2dec` writes an `int`: the one
at `baud` covers a byte of `port`, the one at `userType` covers `level`. `baud` and `proto`
are taken to be less than 2^16, so that the bytes they spill are 0. `str2hex` stores `addr`
first, one byte for two digits and as many as there are, into the 15 bytes of `add`: a
`Spill` says what the rest does to `port` and `level` of this meter and of those behind it in
`g_ParaMet` (`Spilt`), and `Reach` how far it goes. What is written outside the table is
recorded as `stray`; what it hits there is not followed, and `EnergyLoss` takes files
without it. **`ParaLoad`** runs the
loop one child at a time over every file; `EnergyLoss` uses its result.

**`Ledger`** is the abstract specification of the accounting: an account is opened at a
point of a register's use, moved on to later points, charged no more than lies between,
and forgotten together with all others. Its `Promise` is that an open account covers a
part of the use and charges no more than that part.

**`EnergyLoss`** is `elTaskProc` with all it calls, the meters, and the side of rhApp that
serves it.

| Action | Code |
|---|---|
| `Wake`, `ReadOk`, `ReadFail` | `nTicks > 60`; one `el_read_data` of `meter_data_update` with `meter_ene_update` after it |
| `el_statis_proc`, `el_statis_save` | the statistics; one `el_write_data`, whose result is ignored |
| `Restart` | elAPP dies anywhere; `el_init` with `meter_para_load` |
| `Serve`, `ServeLate` | rhApp's handlers for the open call, and for one that was given up or whose process died |
| `Refresh`, `RhRestart` | `main` of rhApp writes a register; rhApp dies and `rh_mem_init` clears the memory |
| `Consume`, `Replace` | the meters themselves |

`ans` and `late` keep what `Rpc` allows: a call may be served after it failed, though not
after a later one was, and the answer to a call of a dead elAPP may be taken by the same
call of the new one. `burned`, `counted`, `first`, `last` and `acked` are history variables.
Energy is an integer number of hundredths, the precision `meter_ene_update` computes in;
the rounding of `float` is left out. Reading `s_EneUseUp[METER_LEV_MAX]`, past the array,
is a choice from `BeyondUse`, made anew for each phase in each round: a number or `NaN`, of
which the code's test for a negative value is false. `meter.xml` does not change while the applications run.

`MCChannel`, `MCDataMem`, `MCMemMap`, `MCService`, `MCParaLoad` and `MCEnergyLoss` give the constants their values;
`PointSearch` needs no more than its cfg. `ChannelProofs`, `DataMemProofs`, `MemMapProofs`,
`PointSearchProofs`, `ServiceProofs`, `ParaLoadProofs` and `EnergyLossProofs` hold the theorems
about the module each is named after; `MeterParaProofs` has the lemmas about `meter_para_load`
and the induction over finite sets that the last two need. Definitions named as mutants in their comments
are not part of any specification: each stands for a plausible slip in the
definition after it, and shows that a property would notice it.

## Runs

| Run | Bounds | Shows |
|---|---|---|
| `channel_whole` | elAPP makes 3 calls, either application may crash once, `shmget` may fail, 2 polls, index mod 4 | if copies were atomic the channel would implement `Rpc`: at most once, in order, and only a lost call's answer can be taken for another's; `DeployedInv` is the inductive invariant of that proof |
| `channel_split` | both applications call, 2 calls, 1 crash of either, state byte apart | `ChannelInv`, and its consequences `NoSelfAnswer` and `UnsentNeverServed`, survive the data race; every step of a thread brings the end of its call or message nearer (`StepsBounded`) |
| `channel_live` | both applications call, 2 calls | every call returns, the service thread always polls again, an abandoned message is cleared |
| `channel_recv` (violation) | whole copies, two calls, no crash | `SmMsgRecv` hands over a message that is not a request to this application: the slot changed after its tests |
| `datamem` | 2 threads, 2 devices of 2 two-byte items, the calls that release their locks (`CleanOps`) | `DataInv`; reads are whole, every lock is released, every call returns |
| `datamem_locks` (violation) | as above, all calls with good and bad addresses | `rh_mem_data_write_iec` returns with the device locked, and early returns leave the list locked |
| `memmap` | lists that announce -1 to 2 entries, or nothing, and have 0 to 3, one list at a time; up to 2 devices of up to 2 objects of -1 to 2 bytes; `main` writes 2 bytes | `MapInv`; items of two objects share no byte, the service thread has memory for all of them, and a list is overrun by one entry at most; what rhApp may die of (`CrashExplained`): a list without `num`, an entry of YM or ID without an attribute, the overrun of a list, or a write of `main` |
| `search` | all lists up to `MaxNum` points without a gap | no point is missed, every turn halves what is left (`SearchHalves`), and the search ends |
| `search_short` (violation) | lists one point shorter than `num`, as the YC list of `bin/meter.xml` is | a point of the list is missed |
| `eloss` | 2 configured meters, 3 files (as shipped, one with a meter a level too deep, one with a level missing), 2 levels, 1 register, 2 of the 6 items, 2 units of energy, 2 upsets; -1, 9 or `NaN` behind the array | `EnergyInv`, of which `ChargeInv` is a part; the accounting properties and the refinement of `Ledger`; what is shown was used (`ShownWasUsed`); a confirmed item is what rhApp shows; statistics reach rhApp once calls stop failing |
| `para` | up to 3 entries of 17 kinds, 4 of them with a long `addr`, `num` 0 to 3, a table of 2 meters, `MaxMeter` 4 | `LoadInv`; what is in `g_ParaMet` after a load that ends well or anywhere half way, and what was written outside it, by which entries |
| `service` | bytes of 8 values, `dataBuf` of 4, messages of 16, items of 1, 2, 4, 9 and 14 bytes and one of 1 at the end of the memory, writes of 0 to 5 bytes, reads into 1, 4, 9 and 14, two unknown items | `ServiceInv`; what a read returns, what a write changes, and of which calls rhApp dies (`DeathsOfCalls`) |

**Why the bounds are enough to see the cases.** The polls of `SmMsgSendWait` are 2
where the code has hundreds: a poll that fails changes nothing but the counter, so two
turns have every interleaving of the first, a middle and the last turn with the steps
of the others. Two polls still let a call expire while its answer is being written,
which makes the late answer meet the next call; the third call meets what is left of
the first two. `IndexMod = 4` is larger than the number of calls, as 2^16 is larger than
the number of calls whose answers can be under way. Two threads, two devices and
two-byte items are the smallest in which a read can mix writes and locks can be
confused. `MaxUpset = 2` gives every pair of a failed call, a replaced meter and a
restart of either application, in every order. In `service` the lengths lie on both sides
of each limit: one byte or two for the length, `dataBuf`, the item, the message, the end of
the memory, `outBuf`. In `para`
three entries let a meter be named twice and the load give up after, between or before. In `memmap` the lists do not depend on each other, nor on the
devices, so they vary one at a time; entries up to one more than announced meet both
tests (`>` and `>=`) on either side. Deadlock checking is off only where all threads may
be idle with the bound on calls used up, in `memmap`, `para`, `search` and `search_short`,
where the operation simply ends, and in `datamem_locks`, where the code itself blocks for ever (which is the finding).

**Fairness.** `WF` of a thread's steps: the operating system runs each thread of a
live process, and every loop of the code polls with a sleep. `SF` of taking a mutex:
its holders release it, and the only rival sleeps outside it between two polls.
`EnergyLoss` assumes `WF` of the whole task and of `Serve`, which is justified by
`CallReturns` and `ServiceResumes` of `Channel`: every call returns, and the service thread
always comes back to polling. A call that does not
fail is therefore answered, and failures are bounded by `MaxUpset`. No fairness is assumed
of meters, of `main` of rhApp, of crashes, or of calls served late.

## What is proved

For every value of the constants, from the named assumptions in the modules:

* `ChannelInvariant`: `Spec => []ChannelInv`, for any set of applications, any way of
  tearing the copies, any numbers of calls, polls and crashes. The invariant is needed
  because neither consequence is inductive: `LockInv` says which thread holds `s_lock`
  where; `SlotInv` that from the moment the body of a request is in the slot until the
  call is over no answer by the same process is there (only `SmMsgSendEcho` of that
  process could write one, and it needs `s_lock`); `CallInv` that open calls are
  distinct; `UnsentInv` that a call not yet copied is in no message.
* `AnsweredByAnother` (`NoSelfAnswer`) and `UnsentIsSafeToRetry` (`UnsentNeverServed`)
  follow from it.
* `StepsAreBounded` (`StepsBounded`), `StepsAreCounted` (`WithinBounds`), `NobodyIsStuck`
  (`NobodyStuck`): the part of `CallReturns` and `ServiceResumes` that is safety, with the same
  generality, calls in both directions and torn copies included. `CallLeft` counts the steps
  a call has left by its place, its polls and the pieces it has still to copy;
  `ServiceLeft` does so for a message in `elDbaseProc`. Each step of the thread leaves
  fewer, nobody else changes the number, and it is at most `3 * NWait + 2 * NUnits + 4`,
  or `2 * NUnits + 6` (`NUnits` pieces to a copy). The only wait is that for `s_lock`, and
  then its holder, the other thread of the process, has a step to take. What is left to
  fairness is that threads run and that a mutex which is released is obtained.
* `OnePastTheList`, `NeverTheWrongPoint` (`NeverWrong`), `SearchIsBinary` (`SearchHalves`): for
  lists of any length with any number of unfilled points. They say what is left of the
  search when the list falls short of its `num`, which is the finding of `search_short`: it
  looks at most one point past `num`, may miss a point but takes no filled one that has another
  address, and needs as many turns as `num + 1` has binary digits, and one to fail.
* `SearchInvariant`, `PointsAreFound`, `FoundInTheList`: with `Short = 0`, for lists of
  any length and any addresses. The invariant `Between` says that the point looked for
  is between `nStart` and `nEnd`; it keeps the position one past the list harmless,
  because an address found there only ever moves `nEnd`, or moves `nStart` past the
  list when no such point exists.
* `MapInvariant`, `ServiceAfterMemory` (`ServiceHasMemory`), `ItemsShareNothing`
  (`ItemsApart`): for every file; what they say of placement is under the condition that no
  object has a negative length (`NoMinus`), with which two objects can overlap. `MapInv` says that objects lie one behind the other, in
  the order they are read, below the bytes counted so far (`ObjectsApart`), and that
  the service thread is started only with that many bytes allocated. Disjointness of
  items is no invariant by itself: it follows because an object begins where the
  one before it ends, and only for items that keep within their object's `len`, which
  the code does not check. `IndexHasOwnBytes` (`IndexSound`) puts them together: when the
  service thread runs and the items of each `doType` keep within their object and apart
  (`ProperTypes`), every item of the index lies in the memory and shares no byte with any other.
* `DeathsExplained` (`CrashExplained`) and `OneEntryTooMany` (`OverrunByOne`): for every file.
  The first lists six causes: `KilledByList` has a list without `num` and an entry of YM or
  ID without an attribute, which leave rhApp without index and service thread; then the
  overrun of a list; `KilledByMain` has an item in an index without memory, an item that
  `main`'s write does not fit in, and an object with fewer items than announced. It needs
  that no object is in the index while the lists are loaded (`PointsFirst`) and, from
  `MapInv`, that a service thread that was started has memory.
* `ChargeInvariant`, `NothingInvented` (`NeverInvented`), `KeepsLedger` (`LedgerSpec`): for any
  file, meters, levels, failures, replacements and restarts. `NeverInvented` is not
  inductive. A reading is a pair: the value, and what had been used when the meter showed
  it. `ChargeInv` says that of two readings of a register the later one shows no more than
  was used in between (`Older`), that memory and answers hold readings in that order
  (`MemoryAt`, `AnswerAt`), and that the account stands before every reading it may still
  be given (`Before`): a reading that is lower than the backup moves nothing, and one that
  is higher charges at most what was used since. The third theorem is a refinement: every
  step of `EnergyLoss` is a step of `Ledger` under the mapping `Account`, or a stutter.
  `LedgerKeepsPromise` proves the `Promise` of `Ledger`, and `AccountsCoverUse` carries it over
  to the task.
* `WholeInvariant` (`DeployedInv`), `OwnAnswer` (`AnswerMatchesCall`), `ChannelImplementsRpc` (`RpcSpec`): for
  every deployment `Deployed(e, r)`, that is one application `e` that calls and another, `r`,
  that it calls, answers of `e` itself that carry `iid` where the operation belongs (so they
  are no requests), copies seen as a whole, and fewer calls than there are frame indices. That is how
  elAPP and rhApp are built, but for the copies. The bound on the calls is needed: a service thread that stalls
  through 65536 calls may answer with an index that is in use again. Whole copies are needed
  too (see the remarks). `WholeInv` relates six places where a message can be: what is in
  the slot and in the buffers is a request or an answer of one call (`MessageInv`), the
  indices grow with the calls of one process (`NumberInv`), each application only plays its part
  (`RoleInv`), and requests, executions and answers follow each other (`RequestInv`,
  `ServeInv`, `AnswerInv`). Under the refinement mapping every step of the code is a step of
  `Rpc` or a stutter. `RpcKeepsPromise` proves the `Promise` of `Rpc`, `CallersMayRely` carries it
  over to the channel, and `HandlersServeRequests` (`ExecutesRequests`) says that the server
  answers nothing but requests of its caller that it has executed once: what `SmMsgRecv` takes out
  of turn (the finding of `channel_recv`) goes no further.
* `LocksFollowCalls` (`LeakInv`), `OnlyThreeLeaks` (`LeaksExplained`), `NoCircularWait`
  (`NoCircle`), `OpsAreBounded` (`OpsBounded`): for any threads and all calls, those included
  that return with a lock held. `Leaked` names the locks that three paths leave behind, and
  `LeakInv` says of every other lock that its thread is at a place of its call where it needs
  it. So no fourth path forgets an unlock; and since lists are locked before devices, the
  holder of a device that another thread waits for is copying, and the holder of a list
  waits for a device at most. An operation takes at most four steps more than it copies bytes.
* `IndexIsSound`, `ReadsOfSoundIndex`: `Inside` and `Layout`, the hypotheses of the theorems below,
  follow from facts about the index and the calls alone. `SoundIndex`: items lie in the
  memory and apart, which is what `IndexHasOwnBytes` says of the index that `rh_mem_map_init`
  builds, given proper `doType`s; each of those in `bin/meter.xml` lists items that lie apart and fill the `len` of their objects. `SoundCalls`: a
  write is as long as its item, which the operations do not check, and the items a `read_iec`
  counts off are in the memory.
* `MemoryInvariant`, `ReturnsUnlocked` (`LocksReleased`), `ReadsSeeOneWrite` (`ReadsAreWhole`),
  `DataInvariant` (`DataInv`): for any threads, devices, items and calls. `Inside` and `Layout` are
  about the tables and the calls: items lie in the memory, two calls mean the same item
  or share no byte, and a write is as long as its item. Only `ReturnsUnlocked` and `DataInvariant` need `CleanCalls`, which
  leaves out the paths that return with a lock held: they are the finding of
  `datamem_locks`. Whole reads hold with them too, because a lock that is never released
  keeps others out. `ItemInv` is the strengthening: an item is of one write unless
  the thread that holds its device is in the middle of writing it, and what a reader has
  copied so far is of the write the item still shows.
* `LoadInvariant` (`LoadInv`), `MetersAreLoaded` (`EntriesLoaded`), `OnlyTheLastMisplaced`
  (`OneMisplaced`), `StraysExplained` (`StrayExplained`), `LoopIsLoad`: for every file, with
  addresses of any length. `LoadInv` counts
  the children read against `idx` and says of every meter that it shows the last whole
  entry that wrote to it, if that is its own, or was written to when the load gave up. `LoopIsLoad` joins the loop to the recursive
  function that `EnergyLoss` starts from.
* `EnergyTypes`, `AllIsCharged` (`NothingLost`), `ConfirmedIsShown` (`ConfirmedIsStored`),
  `TotalsAreSums` (`LevelTotals`), `ShownIsUsed` (`ShownWasUsed`), `EnergyInvariant` (`EnergyInv`): for any files, meters, levels and upsets. `NothingLost` needs `ExactInv`: while no
  meter is replaced a reading differs from what was used by the same amount wherever
  it is stored, so that the differences add up. `ConfirmedIsStored` needs `ConfirmInv`: once a write of
  the round is served, a write that may still be served late carries the same statistics.
  `LevelTotals` is a sum over the meters of a level; the lemmas on `Total` say that changing
  one meter's account changes the sum by as much. `ShownWasUsed` joins them: an account charges
  no more than was used (`ChargeInv`), so neither does a level (`TotalCovers`), so neither does
  what `el_statis_proc` computes of it, and `UsedInv` says the same of the statistics in elAPP,
  in a write that may still be served late, and on show, where one write replaces one field
  and fields of different rounds stand side by side.
* `ServiceInvariant` (`ServiceInv`), `ReadReturnsItem` (`ReadIsItem`), `ItemsAreKept` (`ItemsKept`),
  `DeathsByCalls` (`DeathsOfCalls`), and `WriteStays` (`WriteIsKept`): for every even `Base` of
  more than four values, every layout of disjoint items and every set of calls whose numbers
  have the width of their C types. The first half of the proof is about the encoding: a
  number of up to four bytes is read as it was written (`UintRoundTrip`, by repeated
  division), so are a length (`LengthRead`) and a string wherever it stands in a buffer
  (`StringRead`). The second half is the invariant: the request under way is the encoding of
  the call, so the handlers look up what the call names, and the answer is the encoding
  of what the item held. `WriteStays` assumes `MainApart`, that `main` writes no byte that
  elAPP writes: `main` writes energy registers, elAPP the statistics, and without it the next
  write of `main` would replace what is claimed to stay.

The prover cannot use induction theorems, which take a predicate as a parameter. The
recursive parts, `meter_para_load` and the sum over a level, are proved by way of a set
of numbers instead: `LeastNumber` of `MeterParaProofs` gives every non-empty set of
naturals its least member, and the set of lengths for which a fact fails is shown to have
none (`NatSetInduction`). Each inductive invariant is also an invariant of its run, so that TLC
shows it to be one of states that occur, and a mutant of the code breaks it.

Model-checked only: liveness (`CallReturns`, `ServiceResumes`, `SlotIsFreed`,
`CallsReturn`, `SearchEnds`, `SavedEventually`), because the prover handles neither fairness
nor `ENABLED`. What of it is safety is proved: the bounds on the steps and the absence of
circular waits above. `CallerCan` and `ServiceCan`, which `NobodyStuck` uses, are the guards of the steps
spelled out for that reason; TLC has confirmed that they imply that the step is enabled.
Every safety property of a passing run, invariant or action property, is a theorem.

## Findings and remarks

Three runs end in a violation, each of a line of the repository; `findings` in
`PROJECT.json` quotes it. Other things the models show, which no line denies:

* With `CopyUnits <- TornCopy` the property `AnswerMatchesCall` fails: the state byte of
  an answer can be seen before its body, and `SmMsgSendWait` then returns 0 with something
  that is no answer. With `SplitCopy` a call can be executed twice: the
  state byte and the body of a request are seen at different moments, so that one body may
  stand behind a `REQ` that belongs to it and behind another that does not. `channel_whole`, and the theorems about `Deployed`, are about atomic
  copies for that reason.
* A first reading of 0.00 is no reading to `meter_ene_update`: what a new meter uses until
  the first reading above 0.00 is not charged. `NothingLost` begins after it.
* An `elAPP` that is restarted may take the answer to a call of the one before. Reads
  survive it (`NeverInvented`); a write may be believed stored by the wrong answer, so
  `acked` counts only answers of the same pair of processes.
* `write_mem_data` answers every successful write with `errNo` 1, and `el_write_data` does
  not look at it. An item longer than 128 bytes is answered with bytes of the handler's stack
  at its end, and one of more than 2045 bytes does not fit into the answer; the items of
  `bin/meter.xml` have 1 or 4 bytes.
* A list without `num` ends rhApp in `str2dec(NULL)`, and an object with a negative `len` makes
  the next one overlap the one before it: the loader checks neither.
* A meter one level too deep makes the last level show as energy sold, and use in its
  ratio, whatever lies behind `s_EneUseUp`, `NaN` included: `ShownWasUsed` shows that it goes no
  further.
* An entry without `level` stops `meter_para_load` after the port is stored: the meter is
  polled at level 0, or at whatever `userType` left in the byte.

## What is not modelled

* The text of `meter.xml`: names, values and `point_path_parse`, and so names that are longer
  than the fields `strcpy` puts them into; failing allocations of the tables and locks (that
  of `s_pDataMem`, and of an ID list of negative length, are modelled).
* What a stray write hits: one outside `g_ParaMet`, past a list, past `s_pDataMem` or past a
  message on the stack. The models say when there is one, and let the process die of it where
  a property is about that.
* The digits of `str2dec` and `str2hex`, and `reversecpy` of the port: ports are only compared
  with 0, and an `addr` is what it overwrites.
* What `read_test` of elAPP answers. `el_msg_echo` of elAPP writes it at `msg.pValue`, which is
  not where `ack.pValue` is, and rhApp never calls elAPP.
* `rh_para_load`, which `#if 0` removes from the build; `mem_wj.c`, which nobody calls; the
  prototypes in `client/` and `server/`, copies of the modelled channel.
* libxml, vendored with its tests and bindings: some 355 000 of the repository's 361 000
  lines, so that a share of all lines says little about the program's own; of `src/code`
  and `src/enegy_loss` without `mem_wj.c`, some 4 700 lines, about half are mapped.
* Rounding of `float`, and infinity behind `s_EneUseUp`, which the statistics treat as a large
  number; log output; the attachments to the segment that `SmMsgRecv` and
  its relatives never detach, whose end is the `Crash` of `Channel`.

## Plan

Done: `Rpc`, `Channel`, `DataMem`, `MemMap`, `PointSearch`, `Service`, `MeterPara`, `ParaLoad`,
`Ledger`, `EnergyLoss`, their runs, and proofs of every safety property the passing runs
check. What a next step would be:

1. `IndexSound` of `MemMap` and `SoundIndex` of `DataMem` are the same fact, of one sequence of objects
   and of one sequence per device: a mapping between the two would make them one theorem.
2. `Service` on top of `Channel`: its calls end in `ReadReturn`, `WriteReturn` or `GiveUp`, which is
   what `Rpc` allows, but no refinement says so.
3. The rounding of `float` in `meter_ene_update`, which needs bounds on the readings.
