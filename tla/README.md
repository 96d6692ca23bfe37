# Verification of the Huion H640P drivers

TLA+ models of the Linux drivers in this repository, TLC configurations that
check them on small instances, and theorems checked by TLAPS. Line numbers are
those of the source files.

## 1. The system

Four drivers try, in different ways, to make a Huion H640P drawing tablet
work; the last one is the DIGImend driver package in its release 9.

| component | source | state | operations |
|---|---|---|---|
| USB drawpad driver | `DP_Driver_Jan/dp_driver.c` | per interface: the drawpad, its input device, DMA buffer and URB; intfdata | probe, disconnect, open, close, completion handler; insmod, rmmod |
| misc-device driver | `InputDriverTest/drawpad_driver.c` | `drawpad_users`, IRQ 8, I/O ports, `/dev/drawpad` | init, exit, open, release (read, write, poll keep no state) |
| input-device draft | `InputDriverTest/input_driver.c` | IRQ 13, `drawpad_dev` | init, exit |
| UC-Logic HID driver | `hid-uclogic-core.c` | drvdata: parameters, replacement descriptor, `pen_input`, in-range timer, encoder state | probe, remove, resume, report_fixup, input_mapping, input_configured, raw_event, in-range timeout |
| UC-Logic parameters | `hid-uclogic-params.[ch]` | the parameters and the three descriptor parts they own | params_init, params_cleanup, get_desc |
| UC-Logic report descriptors | `hid-uclogic-rdesc.[ch]` | none (tables) | template_apply, `uclogic_params_get_desc` joins the tables |
| KYE, Polostar, Viewsonic | `hid-kye.c`, `hid-polostar.c`, `hid-viewsonic.c` | none of their own: the HID core's open count and input devices, the tablet's mode | report_fixup, probe with the enabling of tablets and the opening of the Manticore |
| rebinding | `hid-rebind`, `udev.rules` | the driver each HID device is bound to | one run of the script for each device that appears |
| drafts and tools | `tempCode.c`, `Aug_Old/*`, `unbindThenBind.sh` | none | |

How they interact. The USB core calls probe and disconnect of an interface
under the device's lock, and disables its endpoints before disconnect. The
input core calls open and close under the mutex of the input device, for the
first and for the last user. The host controller completes URBs whenever it
likes. The HID core passes reports to raw_event and reports their fields to
the input core, and holds `driver_input_lock` while a driver is removed. The
kernel's timer runs the in-range timeout on any CPU. The drivers share no
state among themselves; they compete for the interfaces of one tablet.

What is hard about them:

* dp_driver: the input device is published before probe has finished and
  until the middle of disconnect, so that opens, closes and completions
  interleave with both; five resources are acquired in probe and unwound by
  three labels.
* drawpad_driver: a user count without a lock, with an acquisition in the
  middle that may fail.
* UC-Logic: a dozen requests and allocations each of which may fail with any
  part of the parameters already held; requests that switch the tablet's mode
  as a side effect; a timer that races the reports and the unbinding; bits
  read and written by numbers that must be those of tables in another file;
  input devices that are made, dropped and taken back one by one.
* KYE: enabling may fail after users have opened the input devices; what is
  enabled is looked for in the descriptor that the driver itself has put in.
* hid-rebind: a test-then-write on sysfs without a lock, in a script that ends
  at the first error, while the kernel and other runs bind the same devices.
  It is started by the announcement of a device, which the kernel makes before
  it offers the device to its drivers: the run may be ahead of that.

What makes each correct:

* dp_driver: memory outlives every transfer and callback that works on it;
  nothing is freed twice or leaked; transfers run only during a session;
  disconnect and callbacks always end.
* drawpad_driver: the count is the number of open files and the line is held
  exactly while there are some.
* UC-Logic: every block has one owner; reports are rewritten only when the
  descriptor says so; the tablet's mode is the one that was prepared for; a
  pen that left is reported gone; the timer stops before what it works on goes;
  every rewritten report is one that the descriptor describes, and its input
  device takes it.
* KYE, Polostar, Viewsonic: a refused device is stopped and closed; a replaced
  descriptor lets its tablet be enabled; the hardware is polled for its users.
* hid-rebind: a finished run leaves its device with the new driver; a run that
  fails after it has unbound its device has not left it without a driver.

## 2. Modules

| module | models | state and actions |
|---|---|---|
| `TabletPort` | what dp_driver promises (abstract) | interfaces that hold buffers, are published, have a transfer in flight |
| `DpDriver` | dp_driver.c and the kernel that calls it | `pc[i]` is the next statement of probe or disconnect, `live[i]` the allocations, `reg`/`users`/`cb` the input core's view, `urb`/`reject` the URB and the usb_kill_urb calls in progress; one action per statement that acquires, publishes, waits or frees |
| `DpDriverProofs` | theorems about DpDriver | |
| `MiscDrawpad` | drawpad_driver.c | `++` and `--` are a read (`OpenRead`, `ReleaseRead`, `OpenUndo`) and a write; another driver may hold IRQ 8 |
| `MiscDrawpadProofs`, `MCMiscDrawpad` | theorems and instances | |
| `UclogicProbe` | probe, remove, suspend, resume of hid-uclogic-core.c with all of params_init | `p` and `drv` are the parameters under construction and in drvdata, `heap` counts live blocks by kind, `mode` is the tablet's |
| `UclogicProbeProofs` | theorems about UclogicProbe and its tables | |
| `UclogicPen` | in-range emulation of hid-uclogic-core.c | the report's fields and the handler's events are one action each |
| `UclogicPenProofs` | theorems about UclogicPen | |
| `UclogicKinds` | the parameters that params_init leaves to hid-uclogic-core.c | one record for each kind of interface |
| `ReportTables` | the report descriptor tables of hid-uclogic-rdesc.c, hid-kye.c, hid-polostar.c, hid-viewsonic.c | sets of reports: ID, and fields with size, count and limits |
| `UclogicReport` | raw_event of hid-uclogic-core.c for every kind of interface | `RawEvent` rewrites the report `sent.raw` to `got`; the dial (`dial`, `dir`) and its encoder belong to the tablet, `re_state` to the driver, `lag` is what the reported changes owe |
| `UclogicInput` | hid_hw_start with input_mapping and input_configured, composed with UclogicReport and the timeout | `pc` is where hid_hw_start stands, `inputs[i]` the input device of the i-th report, `pen_input` what the driver remembers; once bound, every step of UclogicReport and the timeout |
| `UclogicInputProofs` | theorems about UclogicReport and UclogicInput | |
| `PenNumbers` | the numbers made of strings 100 and 200 by uclogic_params_pen_init_v1 and _v2 | one step from the bytes to the maxima, in 32-bit arithmetic |
| `RdescTemplate` | uclogic_rdesc_template_apply of hid-uclogic-rdesc.c | `rdesc` is the copy, `p` the scan's position; one action per outcome of an iteration; `Applied` is the reference: all placeholders replaced at once |
| `UclogicDescProofs` | theorems about PenNumbers and RdescTemplate | |
| `MCUclogicDesc` | inputs of PenNumbers and RdescTemplate for TLC | first the numbers, then the template |
| `HidTablets`, `HidTabletsProofs` | hid-kye.c, hid-polostar.c, hid-viewsonic.c | `pc` is the next step of probe, `count` and `polled` the HID core's open count and the hardware, `inputs` the users' openings, `reports` what hid_parse has registered |
| `HidRebind`, `HidRebindProofs` | hid-rebind | `pc[d]` is the next command of the run for device d, `cur[d]` its cur_driver, `took[d]` whether it has unbound d; `bound[d]` is the driver sysfs shows, `waiting` the devices announced and not yet offered to drivers, `loaded` the drivers there are; `upset[d]` records what befell d while its run lasted |

`DpDriver` is linked to `TabletPort` by a refinement mapping (`ImplementsPort`):
buffers held are `live`, published is `reg = "yes"`, flowing is `urb # "idle"`.
Every action of `TabletPort` is the image of a step: acquiring, publishing,
starting, stopping, withdrawing, releasing. `UclogicInput` composes the input
devices with `UclogicReport`. `UclogicProbe` joins the tables of `ReportTables`
as `uclogic_params_get_desc` does and compares its parameters with
`UclogicKinds`, so that what `UclogicReport` and `UclogicInput` start from is
what probe leaves. `HidTablets` takes its descriptors from the same tables.

Operators named `Mut...` are faulty variants of the operator that follows them
(a dropped guard, a swapped label, a missing reset). No specification uses
them: they document how each property depends on the code, since replacing the
operator by its variant violates the property.

### What the models abstract

* dp_driver: names and paths; the capability bits and `absinfo`, whose failed
  allocation shows as a failed registration; printing.
* The kernel is modelled by what the code relies on: `usb_kill_urb` unlinks,
  refuses resubmission, waits for the handler; `input_unregister_device`
  stops new users, closes the open handles (calling close if there were any),
  then frees the device; a submission is refused on a dead device, a disabled
  endpoint, a killed URB or an URB in flight, and may also fail at any time.
* drawpad_driver: read, write and poll only return; misc_open holds `misc_mtx`,
  so opens do not overlap each other, while releases hold nothing; a file pins
  the module.
* UclogicProbe: products are grouped into seven families by the branch of
  params_init they take; answers are what the code tells apart (the expected
  length, a text, another length, a stall, an error). The numbers in the
  descriptors are in `PenNumbers`. `dev` answers alike at every request of its life,
  except that any request may fail with another error. A device that lost a
  descriptor in a failed probe (see 4) is not followed further: `Probe` starts
  counting anew.
* UclogicPen: only the tip, the in-range bit and pressure, as non-zero or
  zero. Each input event is atomic (the input device's lock), a sequence is
  not. A report takes less time than the 100 ms it sets the timer to
  (`Expire` waits for `rep = "idle"`).
* UclogicReport: a report is a record of what the code reads or writes: ID,
  length, bits 0x20 and 0x40 of byte 1, bytes 2 to 9 by what they hold, the
  pad's ID byte, the encoder's bits. A transfer may be cut short to its ID.
  One kind of interface for each way params_init fills the parameters that
  raw_event reads; the DECO01 and EX07, whose frame reports are not
  tweaked, are like `v1` there, and have their frame's input device in
  `UclogicInput`. The encoder's Gray code and its detents (states 0 and 3) are
  what the code's table of changes implies. The dial turns back only at a
  detent (turned back half-way, the code reports a detent never passed, see 4).
  A dial turned while the tablet is suspended is found at a detent. Turns are
  never lost in between: the code has no way to see it.
* UclogicInput: the HID core is `hidinput_connect` (one input device for each
  report, any of them failing, all taken back then), `hid_connect` (bound by
  what claims it, and at any rate because the driver has a raw_event callback)
  and `hidinput_disconnect`. Reports come only to somebody who has the input
  device or hidraw open. The handler of the timeout is one step here; its
  inner race is in `UclogicPen`.
* ReportTables: usage codes, units and physical limits are left out. The
  logical limits of a field are those it sets or, where it sets none, those in
  force from the field before: the EX07's frame, which sets none at all, has
  those of what it is joined to (`Ex07Buttonpad(max)`). Uses that the code or a
  property tells apart have a name.
* PenNumbers: bytes 0 and 1 (length and type) are checked elsewhere; the bytes
  of string 200 after byte 11 are `rest`: text or not.
* HidTablets: one interface, and one binding while it is plugged in. The
  product says the branch of report_fixup and probe; a device's own descriptor
  is what these look into (feature report 5, the consumer usage, the Ergo's
  field). The enabling request is sent and not waited for, as in the code.
  Users open and close input devices between hid_hw_start and hid_hw_stop.
* HidRebind: `ReadDriver` to `Bind` are the script's commands that read or
  change the system; `echo`, traps and the search for the module's name are
  left out, and which module is found is a choice. The reading of the link and
  the test of what it leads to (49-54) are one step: what may change between
  them, the driver's directory or the link, is read again at 86. `modprobe` is
  one step with the attaching of the devices that it leads to. `old` stands
  for all drivers a device may be taken from, `new` for the module found for
  each device; a driver that was removed is loaded again by the script only.
  A device keeps its name for life and the name is not used again.
* HidRebind, the kernel: `kernel` is one of three, since versions differ.
  `"lists"`: the generic driver leaves only the devices on a list alone, so that
  a device not on it goes to whichever driver is asked first; `"rescans"` (4.16
  and newer): the generic driver gives way to a loaded driver that matches, and
  devices are offered anew when a driver comes or goes; `"raises"`: moreover,
  a write to `bind` returns probe's own error, or EBUSY for a bound device,
  where the others say ENODEV. `Plug` announces a device, `Offer` gives it to the drivers
  at any later time, or finds that a run has bound it. `upset` is a history
  that no guard reads; a run's entry is cleared when it ends or its device
  leaves.

## 3. Runs

| run | question | result |
|---|---|---|
| `dp_driver` | memory, registration and transfers under every interleaving; do unbinding and callbacks end; does it implement TabletPort | holds (13401 states) |
| `misc_serial` | count and line for calls one at a time | holds (742 states up to symmetry) |
| `misc_concurrent` | is the count right when release overlaps open | violated |
| `uclogic_probe` | ownership, IDs, bits and parts of the descriptor, mode | holds (66563 states) |
| `uclogic_lost` | does a failed probe leave nothing behind | violated |
| `uclogic_desc` | are the pen's numbers exact, and the template's placeholders replaced and nothing else | holds (67489 states) |
| `uclogic_input` | do reports, rewritten, reach the input device meant for them; does the timeout; does the dial add up | holds (2444 states) |
| `uclogic_pen` | in-range emulation and remove, event by event | holds (1598 states) |
| `hid_tablets` | probe's failures, enabling and the open count, among users | holds (846 states) |
| `hid_manticore` | is the Manticore opened for its users | violated |
| `hid_rebind` | what overlapping runs of the script leave behind | holds (662778 states) |
| `hid_rebind_late` | does every run that comes to its end rebind its device | violated |

Bounds, and why they are enough.

* `dp_driver`: two interfaces (the tablet has two: pen and buttons), two
  handles (evdev and mousedev): the first, a middle and the last open and close
  occur. Interfaces meet only through the device's lock and rmmod, so a third
  one adds no new kind of step; the safety theorems cover any number. No
  symmetry, since liveness is checked.
* `misc_serial`: four processes: the count passes 0 and 1 in both directions,
  with others open. `misc_concurrent` needs two.
* `uclogic_probe`, `uclogic_input` and `uclogic_pen` have no parameter and no
  bound on reports, timeouts, suspends, moves of the pen or turns of the dial:
  TLC's run covers all that their modules say. `heap` is at most 2 of a kind:
  the parameters in drvdata and those that resume builds.
* `uclogic_desc`: bytes on both sides of every limit the code compares with (a
  printable character, 16 and 24 bits, 2^21, 2^31 / 1000), in 1600 different
  strings; and 2801 templates of up to four pieces: placeholders of two known
  indices and an unknown one, beginnings of a placeholder, and the end of one.
  The values end with a first byte of a placeholder, or are a whole one, so
  that in-place writing could make the scan find what the template has not.
  Neither module depends on the other, so all strings go with the empty
  template and all templates with one string.
* `hid_tablets`: two input devices and an open count modulo 4, the smallest
  that holds both, the driver's own opening and a passing below zero. The
  theorems cover any number and width.
* `hid_rebind`: two devices, since a device meets other runs only by what they
  load, and the second run already finds the module loaded, loading or not;
  drivers come and go without bound. The theorems cover any set of devices.
  `hid_rebind_late` differs in its property only.

Deadlock is checked in every run but `uclogic_desc`, whose functions return,
and those of `HidRebind`, where devices leave for good and runs end.

The inductive invariants (`IInv`, `CountInv`, `DialInv`, `SessionInv`,
`TablesInv`, `ScanInv`, `OutInv`, `RebindInv`) and all type invariants but one
are proved and not listed in the runs; TLC found each of them true on the
instances above before it was proved.

### Fairness

`DpDriver`: weak fairness of each thread inside probe, disconnect, open or
close (a kernel thread that can run does), of the completion handler, and of
the closing of handles by an unregistering device. Strong fairness where a
sleeping mutex is taken (`DisconnectUnregister`: the mutex of the input device
hands itself over to a waiter, so other users cannot starve it) and where the
device's lock is (`MustDisconnect`: a device that left or a driver that leaves
is detached although other interfaces take the lock in between). Users, the
cable and the controller's reports owe nothing: close must not wait for a
report.

`UclogicPen`: a report or handler that has begun goes on, a timer nobody
restarts expires, a removal goes on. The pen owes nothing; `PenLeaves` is
about a pen that has been taken away for good.

`HidRebind`: weak fairness of each run: udev starts it and the shell goes on.
udev kills a run after three minutes, which is left out: `modprobe` and writes
to sysfs end before. Weak fairness of `Offer`: the kernel's registration of a
device goes on after the announcement and asks the drivers. What they answer,
users and the cable owe nothing.

## 4. Findings

* `drawpad_driver.c:99,124` - the count of users is changed without a lock:
  with `misc_mtx` around open only, a release that overlaps an open or another
  release loses an update, and then IRQ 8 is freed while the device is open, or
  never again.
* `hid-uclogic-core.c:235` - a probe whose `hid_parse` or `hid_hw_start` fails
  cleans the parameters up but leaks `desc_ptr`.
* `hid-kye.c:750` - when probe's opening of the Manticore fails, `hid_hw_close`
  closes what the HID core has not counted: the count passes below zero, the
  next user's opening finds it not zero and does not open the hardware.
* `hid-rebind:91` - udev runs the script when the device is announced
  (`udev.rules:1`), before the kernel asks its drivers. A run that is fast
  reads no driver (49-54) and finds no path to one (86); the kernel then binds
  the generic driver, the write to `bind` is answered by ENODEV, which is
  ignored (38-41), and the run ends with the device where it was not to stay,
  and no later run comes to it. Only kernels whose generic driver does not give
  way (before 4.16; the package asks for 3.5 or newer) do so. `late` in
  `DoneIsRebound` and `Rebinds` is this case and no other: the old driver gets
  the device when its run has only `bind` left.
* `hid-uclogic-rdesc.c:704-726` - the EX07's frame sets no logical limits, so
  that its single bits inherit the pen's pressure maximum (577) from the part
  joined before it (`hid-uclogic-params.c:565-584`), while
  `hid-uclogic-params.h:114-115` says of the parts that "No order of assembly
  should be assumed". `PartsFitTogether` therefore holds for every part but
  excepts these bits, whose limits do not fit them. (No run of its own: the
  tables show it.)

Behaviours worth knowing that contradict no statement of the repository:

* `usb_drawpad_irq` does not submit its URB again, so a session delivers at
  most one report; and `absinfo` is one element where the input core expects
  `ABS_CNT`.
* When string 200 was read and the allocation after it fails, probe fails and
  the tablet stays in its v2 mode.
* The DECO01 goes on with its frame controls when no pen parameters are found;
  the G540 marks the whole interface invalid instead.
* A dial turned half a detent and back (states 0, 2, 0) is reported as one
  detent back: the table of changes looks at the last two states only.
* The in-range timeout lifts the pen and its tip, not the buttons on the pen.
* The timeout handler tests BTN_TOUCH (`hid-uclogic-core.c:66`) and lifts
  BTN_TOOL_PEN in separate steps, and a late report may press BTN_TOUCH in
  between: a touch out of range is shown until the timer that this report has
  set expires. `InRangeIsWatched` and `PenLeaves` show that it never stays so.
* `pen_input` (`hid-uclogic-core.c:132`) is not cleared when hidinput_connect
  takes the input devices back because one of them failed. The interface is
  bound nonetheless, and if its hidraw device is read, a pen report without a
  range bit sets the timer, whose handler works on a freed input device.
  `SimulatesOnPen` is therefore about interfaces that have their input devices.
* From 24-bit maxima of 2147484 on, the product in `hid-uclogic-params.c:337`
  exceeds 31 bits and the physical maximum is wrong; `SaneIsExact` shows that
  it is right below 2^21.
* The comment `Report Count (2)` of `hid-polostar.c:58` stands at a count of 1;
  the padding after it fits the 1.
* The KYE driver has no resume callback: a tablet that loses its power while
  suspended has nobody to enable it again.
* hid-rebind goes on to bind after a device that the new driver refuses was
  unbound from the old one. The refusal is ignored (ENODEV) or, on newer
  kernels, ends the script: either way the device is left without a driver.
  Hence the `accepts` in `DoneIsRebound` and `QuitLeavesDriver`.
* A run may fail in `bind` after it has unbound its device, by EBUSY, when the
  kernel or the `modprobe` of another run has bound the device in between
  (`QuitLeavesDriver`), or because the new module was removed.
* The unbinding ends the script before it binds if the old driver is removed
  after `test -e`, or, where the run had read no driver, if the device is taken
  by hand from the driver that it got in time for that test
  (`UnbindSucceeds`).

## 5. Proofs

TLAPS checks the theorems below for every value of the constants (a non-empty
set of interfaces and of handles; a non-empty finite set of processes; any
templates and bytes; any number of input devices and width of the count; any
set of devices). Modules without constants have theorems all the same: TLC
shows a property by visiting the states, the proof says why it holds and which
facts about the code it rests on. Every safety and action property of the
passing runs is a theorem.

* `DpDriverProofs`: `TypeCorrect`, `TransfersAreSafe`, `FreesAreSafe`,
  `NothingLeaks`, `PollsInSession`, `OpensIdle`, `KillIsFinal` and the
  refinement `DriverImplementsPort`.
  The properties are not inductive: that a transfer's memory is live depends on
  where disconnect stands, on who has the device open and on how many
  `usb_kill_urb` are in progress. `IInv` says it for one interface at a time:
  `ThreadInv` (memory, registration and intfdata are functions of `pc`),
  `TransferInv` (the URB is idle unless there is a session; after disconnect's
  kill it is idle whoever opens, because the endpoint is disabled) and
  `RejectInv` (`reject` counts exactly the kills in progress, in disconnect
  and in close). `Inductive` proves it, with one lemma for each part of the
  driver, since a step changes one interface only.
* `MiscDrawpadProofs`: `TypeCorrect`, `CountInductive`, `CounterIsExact`, `LineFollowsUsers`,
  `LineIsOwn`, `NothingStays`, for `SerialSpec`, where calls do not overlap.
  `CountInv` strengthens "the count is the number of open files" to the middle
  of a call: `Counted` are the processes whose increment is done and whose
  decrement is not, `Holding` those on whose behalf the line is held, and what
  a process has read is still true when it writes. For overlapping calls the
  theorem is false (`misc_concurrent`).
* `UclogicPenProofs`: `PensAreWatched` and `RemoveStopsTimer`. The
  strengthening is `ReportSetsTimer`: while a report is being processed the
  timer is pending and the driver bound, so that reporting the pen in range
  never leaves it unwatched, and nothing sets the timer after remove took the
  lock.
* `UclogicProbeProofs`: `ProbeTyped`, `BlocksAreAccounted`, `TweaksAreOwn`,
  `KindIsKnown`, `ModeIsMatched`, `TweaksAlwaysFit` and `PartsAlwaysFit`.
  None of them is inductive: at rest they speak of drvdata, which probe and
  resume fill by a chain of some twenty steps that may fail anywhere.
  `IInv` says what the chain has done at each step. `ParamsInv` gives the
  parameters under construction (`Outcomes` are all that params_init may end
  with); `PathInv` gives what the branch taken and the answers so far tell of
  the tablet, up to `PenID`, the pen that any later params_init must find
  again; `DrvInv` carries that to drvdata; `PartsInv`, `TempsInv`,
  `DescInv` say whose each live block is at every step; `ModeInv` that whoever
  knows a pen was the last to ask for its string. A lemma per step keeps it.
  `ModeIsMatched` needs `PenID` because resume discards what it finds and goes
  on with drvdata: the mode that its requests have left fits since they find
  what probe has found.
  `TweaksAlwaysFit` and `PartsAlwaysFit` are about the tables as well. For
  the second, `TablesInv` adds which product may get a fixed descriptor, and
  one lemma for each table (`PenV1Fine` to `Twha60KeysFine`) proves its
  reports whole and disjoint and their limits in range, but for the single bits of
  the EX07's frame (see 4). `FirstBit` is a
  recursive function over a report's fields, so that no prover can expand it;
  `SumIsFirstBit` shows that any function which satisfies its recursion on a
  report is the sum (by the least index where the two would differ, `WFMin`),
  and each table then states its own partial sums. `Fits` compares limits with
  powers of two of the field's size: `Room` reduces that to the powers that
  occur.
* `UclogicInputProofs`: about `UclogicReport` by itself, `RotationIsExact` and
  `BytesEndInPlace`; about whole sessions, from hid_hw_start through reports and
  timeouts to remove, `RotationInSessions`, `BytesInSessions`,
  `DevicesInSessions`, `SimulatesOnThePen`, `UnusedIsDiscarded` and
  `ReportsReachInput`.
  That the changes add up at the detents is not inductive: `DialInv` adds what
  holds half-way, where the driver knows the encoder's state and is half a
  detent behind in the direction of the turn, and which states it may remember
  at a detent without harm (any detent's, and the 255 of a new binding).
  `HiresOrders` is the byte permutation by itself. Nor is what the input
  devices are: `SessionInv` says how far hid_hw_start has come (`AllocInv`,
  `ConfigureInv`), that the input devices are then claimed as a whole or not at
  all (`ClaimedInv`), that the pen whose range is emulated is the first report
  of its descriptor and so the first to be configured (`KnowsPen`), and that a
  timeout is pending or being handled only where the interface is bound
  (`TimerInv`). `ReportsReachInput` then compares the ID and length of every
  rewritten report, kind by kind, with those of the tables.
* `UclogicDescProofs`: `SaneIsAlwaysExact` and `V1IsAlwaysExact`, for all bytes
  that strings 100 and 200 may have. `Times1000` multiplies the halves of its
  argument and wraps at 32 bits; `NoOverflow` shows that it is the product
  where that fits in 31 bits.
  `ReplacesEverything`, for any templates and at most 254 parameters (the
  driver has five; with 255, an index byte could begin another placeholder).
  `ScanInv` is the loop invariant: what is passed is final, what is ahead is
  the template's, and no placeholder lies across the position, because two
  never overlap (`NoOverlap`).
* `HidTabletsProofs`: `RefusedIsAlwaysStopped`, `FixedIsAlwaysEnabled`,
  `AlwaysPolledForUsers` and `ReportsAlwaysSound`, for any number of input
  devices and any width of the count that holds them. `ProbeInv` strengthens them by what each step of probe
  has started, opened and parsed; `FixedIsEnabled` rests on a lemma that each
  of the six tablets' descriptors has the enabling report.
  `ReportsAlwaysSound` adds that what is registered is nothing or what
  report_fixup returned (`StaysParsed`), whose tables are sound one by one
  (`FixupSound`).
* `HidRebindProofs`: `DoneIsAlwaysRebound`, `QuitAlwaysLeavesDriver` and
  `UnbindAlwaysSucceeds`, for any set of devices. `RunInv` says what a run may
  rely on at each command although it holds no lock: what it has seen of its
  device is still so, or what made it otherwise is in `upset`. Once past
  `modprobe`, the new driver is there, or was removed; a run that has read no
  driver and found a path at `test -e` has a bound device, or it was taken
  from its driver; with only `bind` left to run, the device is not with the
  old driver, or that came by it late. That
  `DoneIsRebound` needs the exception `late` is what `hid_rebind_late` shows.

Assumptions on constants: those named `...Assumption` in the modules, which
TLC evaluates on every run.

Only model-checked is liveness (`DetachCompletes`, `CallbacksReturn`,
`PenLeaves`, `Rebinds`), which the prover does not handle under fairness. What
the violated runs show needs a behaviour, not a proof.

Out of the prover's reach are also ENABLED, induction over data (what a
recursive definition computes for every input) and RECURSIVE operators; no
module that is proved about declares one.

## 6. Not modelled, and the plan

What would extend the models and the proofs:

1. dp_driver competing with usbhid and the HID drivers for one interface, a
   composition of `TabletPort` and `HidRebind`.
2. A tablet that answers in another way after a suspend (`uclogic_resume`
   discards what it finds, `hid-uclogic-core.c:250`).
3. `input_driver.c`, once it builds. It is a draft with calls of libusb in a
   kernel module; its init files its handler under `drawpad_dev`, still NULL
   (121), and its error path and exit give `free_irq` another dev_id (156, 164).
4. Safety steps towards the liveness properties, as theorems: what each helpful
   action does to a measure of how far disconnect or a run of hid-rebind has
   come, leaving only the fairness argument to TLC.

Left out for good: `tempCode.c` (a scrapbook of earlier versions of
dp_driver.c that no Makefile builds), the drivers of `Aug_Old` (they register
and print), `ReadDeviceFile.py`, build files, the usage codes and units of the
descriptor tables, and the manual unbinding script, whose effect is
`CallDisconnect` or `UnbindByHand` at any moment.
