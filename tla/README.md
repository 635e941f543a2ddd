# A formal model of RpiCamTs

RpiCamTs starts a camera backend, reads its H264 packets from a pipe and writes
them to a raw file, to one MPEG-TS file, or to a managed storage directory of
numbered segments. This directory holds TLA+ modules of the managed storage, of
the pipeline of processes, pipes and signals, of the two together, of what
happens to each packet, and of everything the program reads; the TLC
configurations that check them; and TLAPS proofs of the most important results.

    tlc -config storage_files.cfg MCStorage.tla      # a run, see "Runs"
    tlapm ArchiveProofs.tla                          # the proofs of a module

## 1. The system

| Component | State it keeps | Operations | Interacts with |
|---|---|---|---|
| `storage_index.cpp` | settings, `folders_`, next folder and file index, path of the index file | `load_or_create`, `append_record`, `save_atomic`, `next_record_path` | the storage directory |
| `storage_recorder.cpp` | lock descriptor, current segment, whether one is open | `open`, `write_h264_packet` (with rotation), `close` | StorageIndex, TsMuxerFFmpeg, `.lock` |
| `ts_muxer_ffmpeg.cpp` | FFmpeg context, first timestamp, last DTS | `open`, `write_h264_packet`, `close` | the segment file, through a buffer of FFmpeg |
| `app.cpp` | exit code, descriptors, `pending_h264_prefix` | `run`, `drain_video_pipe` | everything |
| `mtxrpicam_process.cpp` | pid | `start` (fork, execl), `wait` | the backend |
| `packet_io.cpp` | none | `write_config_packet`, `write_end_packet`, `read_video_packet` | the two pipes, the stop flag |
| `signal_handler.cpp` | `g_stop_requested` | the handler, `stop_requested` | SIGINT, SIGTERM, SIGPIPE |
| `h264_file_writer.cpp` | a FILE | `open`, `write`, `close` | the raw output |
| `h264_inspector.cpp` | none | Annex B checks, IDR and frame detection | app |
| `stats.cpp` | samples of two seconds | `update` | app, verbose output |
| `config_loader.cpp`, `camera_params.cpp`, `default_config.cpp`, `path_utils.cpp`, `rpi_cam_ts.cpp` | none | configuration, parameters of the backend, paths, command line | app, before anything runs |

What is hard about it, and what makes each part correct:

* **Storage.** Several system calls make one rotation (choose a path, create the
  folder, reserve a placeholder, write a temporary index, rename it, open the
  segment). The program can be killed between any two, each can fail, the index
  can be damaged or edited between two starts, and two instances can be started
  at once. It is correct when nothing recorded is lost or overwritten
  (`RecordedDataKept`), the index only lists files that exist
  (`IndexedRecordsExist`), a restart goes on where the recorder was
  (`ResumePoint`), an index that is not loaded is not written to
  (`OldIndexesKept`), the files taken
  together are an append-only archive (`ImplementsArchive`), one instance
  records at a time (`LockExclusion`), and an operation always ends and gives
  the lock back (`SegmentOpens`, `FailureFreesLock`).
* **Limits.** The folder and file indexes end at INT_MAX, the index numbers at
  999, the suffixes that are tried at 100. A segment has a size, a folder a
  number of files (`SegmentWithinBuffer`, `FolderWithinTwiceMaximum`).
* **Processes.** `run()` and the backend read and write two pipes, and either
  can end at any time; a signal can arrive anywhere. It is correct when the exit
  code says what happened (`SuccessOnlyWhenStopped`, `ErrorKept`) and neither
  process waits for the other for ever (`StopHonoured`, `BackendEndNoticed`,
  `WaitReturns`, `OrphanEnds`).
* **Storage inside the pipeline.** The recorder is opened before the backend is
  launched, rotates inside the drain loop and is closed after the backend has
  been waited for. It is correct when no packet meets a recorder that is not
  open (`DrainsIntoOpenSegment`), its failures reach the exit code
  (`StorageFailureReported`), the storage is never free while a backend lives
  (`BackendKeepsLock`) and becomes free at every end (`RunReleasesStorage`).
* **Bytes.** read() and write() take any part of a packet, and signals, ends and
  invalid sizes come anywhere. The pipe has to be a queue of whole packets
  (`DeliveredAreSent`, `PacketsReturned`, `ConfigFramed`).
* **Access units.** Parameter sets are joined to the next frame, timestamps are
  normalized per segment and must increase (`UnitsComplete`, `DtsIncreasing`,
  `DtsLeast`).
* **Inputs.** Arguments, configuration files, the index text and the H264 bytes
  are read once, with no second look. Files may change between two steps, and
  numbers may not fit (`ExplicitConfigUsed`, `OutputsKept`, `ConfigsKept`,
  `ConfigAsWritten`, `IndexTextExact`, `NumbersExact`, `NalusFound`,
  `StatsOfWindow`).

The full list of hazards, each at its line, with the properties that cover it,
is under `hazards` in `PROJECT.json`.

## 2. The modules

| Module | What it models |
|---|---|
| `StorageIndex` | The index as data: its text, when `load_index_file` accepts it (`ValidIndex`), `advance_next_record` (`CanAdvance`, `Advance`), the recovery scan (`ScanNext`). No state. |
| `StorageRecorder` | `StorageRecorder` and the `StorageIndex` it drives, for a set of program instances on one directory. |
| `SegmentArchive` | The contract of managed storage: an append-only archive of segments with one owner at a time. |
| `StorageArchive` | The refinement mapping: record files with data, by position, implement `SegmentArchive`. |
| `MCStorage` | The directories and symmetry TLC uses for the storage. |
| `StorageRecorderProofs` | Types, lock, kept data and listed records of `StorageRecorder`. |
| `ArchiveProofs` | That a restart goes on where the recorder was, which indexes are never written to, and the refinement of `SegmentArchive`. |
| `LimitsProofs` | How far a segment exceeds its configured size, and a folder its maximum. |
| `Pipeline` | `RpiCamTsApp::run` from the signal handlers to the exit code, the backend, the pipes and the signals. |
| `PipelineProofs` | The theorems about `Pipeline`. |
| `Recording`, `MCRecording` | One run with `--storage`: `Pipeline` and `StorageRecorder` composed. |
| `RecordingProofs` | The theorems about the composition. |
| `AccessUnits` | What `drain_video_pipe` does with each packet, and the timestamps of `TsMuxerFFmpeg`. |
| `AccessUnitsProofs` | The theorems about `AccessUnits`. |
| `PacketIO`, `MCPacketIO` | `packet_io.cpp` byte by byte. |
| `PacketIOProofs` | The theorems about `PacketIO`. |
| `Startup` | Invocations from `main` to the launch of the backend, and the generation of a default configuration. |
| `IndexText` | The text of an index: the line loop of `load_index_file`, and the parsing of numbers. |
| `FrameStats` | The statistics of the verbose output: one action, `update`, over the samples of the last two seconds. |
| `H264Inspector`, `ConfigText` | The functions of `h264_inspector.cpp` and `config_loader.cpp`. |
| `MCInputs` | Their inputs and reference definitions, and the arguments of `Startup`. |
| `InputsProofs` | The theorems about `Startup`, `FrameStats`, `ConfigText`, `IndexText` and `H264Inspector`. |

### StorageRecorder

One action per system call that changes the directory or decides about it; the
program counter `pc[p]` names the place in the code between two calls.

| Code | Actions |
|---|---|
| `StorageLock::lock` | `Start` |
| `load_or_create` | `LoadIndex`, `RecoverIndex`, `CreateIndex`, `IndexesExhausted`, `LoadFails` |
| `next_record_path`, `create_directories` | `ChoosePath`, `PathsExhausted`, `ReserveFails` |
| `open(O_CREAT \| O_EXCL)` of the record | `ReserveRecord`, `ReserveFails` |
| `append_record` | `AppendRecord`, `AppendFails` |
| `save_atomic` | `BeginSave`, `StageIndex`, `PublishIndex`, `SaveFails` |
| `muxer_.open` | `OpenSegment`, `OpenSegmentFails` |
| `write_h264_packet`, `rotate_if_needed` | `WriteAccessUnit`, `WriteLastAccessUnit` (fills the segment), `WriteFails` |
| `close` | `CloseMuxer`, `ReleaseLock` |
| the fork in `run()` | `LaunchBackend` |
| the environment | `Crash`, `BackendExits`, `OrphanExits`, `DamageIndex`, `EditSettings` |

Abstractions. A file name is its numeric index and a suffix. The text of an
index is the record of what its lines say, or `Corrupt` when a line is not as
expected; `save_atomic` goes through `Corrupt` while it writes. A file is its
length. Bytes FFmpeg has not written out yet are `buffered`, at most
`BufferSize`; `Crash` loses them, `CloseMuxer` writes them. The lock belongs to
an open file description, which the backend inherits: `Crash` leaves it with
`OrphanedBackend`, whereas `flock(LOCK_UN)` frees it at once. `RecoverIndex` can
happen for a valid index too, as when the file cannot be opened. `DamageIndex`
also stands for a power failure that loses an index whose data was never synced,
since `save_atomic` does not call fsync. An index that somebody cuts behind a
whole record is not among the damaged ones: it is a valid index with fewer
records, which the program accepts, and the positions after it are used again.
The directory changes from outside only
while no instance has the lock. The error return of a failed last flush is
ignored by the code (a warning), and the model lets that flush succeed.

### Pipeline

`pc` follows `run()`; `"reading"` and `"blocked"` tell apart being in `read_full`
and being asleep in `read()`, which is what decides whether a signal interrupts
anything. A packet crosses the video pipe in two parts, its length and the rest;
shorter reads only add more places like the one between the two parts. The
pipes keep their write and read ends as `configOpen`, `videoOpen` and
`writeEnd`; the last one is the copy of the child's end that `run()` closes
after the fork. The child's own copies are closed in `ConfigEnds` (it does not
hold the write end of its configuration pipe) and by its end. The configuration
packet is small enough for an empty pipe, so writing it does not sleep.

The backend is not part of this repository's source. It is modelled from what
`run()` relies on: it reads one configuration packet, then writes packets of any
kind, obeys an end packet or the end of the configuration pipe between two
packets, gets EPIPE when nobody reads, and can end at any time with any status.

### Recording

Each action is one of `Pipeline`, one of `StorageRecorder`, or both at once
where the code does both in one call: `LaunchProgram` is the fork of one and the
inherited lock of the other, `ChildObeys`, `ChildBroken` and `ChildEnds` are the
end of one process in both, `RecordPacket` reads a packet and writes its access
unit. A rotation takes many steps between two packets; while `rotating` is TRUE
the drain loop stands still, signals arrive and the backend goes on. Before
open() has returned there are no handlers, so `SignalProgram` waits for it (an
earlier signal is a kill). The instances of `StorageRecorder` that follow one
another are left to the storage runs: here there is one.

Two properties are whole specifications. `StorageImplemented` says the recorder
inside `run()` behaves as `StorageRecorder!FairSpec`: the fairness that module
assumes of the backend is here a consequence of the pipes. `PipelineImplemented`
says `run()` with a recorder behaves as `Pipeline!StreamingSpec`, so what is
checked of `Pipeline` holds for it.

### AccessUnits

A packet is its number and its class, as the inspector sees it. `prefix` is
`pending_h264_prefix`, `segments` the access units of every file with the
camera's timestamp and the DTS it got. `WriteFrame` is `write_h264_packet` of the
muxer, `WriteLastFrame` one that is followed by a rotation, which any frame may
be: when one is due is a question for `StorageRecorder`. Integers have their
width: a uint64 ends at `StampMax`, an int64 at `TickMax`, and the size of a
joined unit at `UnitMax` packets.

### PacketIO

`toWrite` holds the buffers of `write_packet` that `write_full` has not written
yet; `field` and `got` are where `read_video_packet` is and what `read_full` has
so far. A call that finds nothing to read or no room goes to sleep in a step of
its own, since only a sleeping call returns EINTR. `SizeImage` and `StampImage`
are the bytes an integer has in memory, of which the code only needs that no two
integers share them; the limit of a packet is `MaximumPacketSize`, which a size
can exceed.
`EINTR` without a stop request changes nothing and is not a step.

### Startup and the inputs

`Startup` has one action per step of `run()` that looks at the file system, so
that the operator or another program can create, replace or remove a
configuration file (`EditConfig`) between any two. While a configuration is
generated, `own` says whether its name still leads to the file `open(O_EXCL)`
has created: what is written reaches that file (`FinishConfig`), but `unlink`
after a failed write goes by the name (`WriteConfigFails`) and removes whatever
is there. A place is a directory and a name; the two directories are the one the
program is launched from and the one `chdir_to_project_root` chooses, which can
be the same. A configuration file is absent, partial, invalid or readable with a
Width, the one value that decides whether the output opens; of the backend,
`backendPath` says whether it has been found. `overwritten` has the output files
that have been truncated, also by an MPEG-TS header that cannot be written
(`OpenOutputFails`).

`FrameStats` has one action, `update`, and keeps every timestamp that has come in
`seen`, for the property to compare with. The other modules have no state.
`MCInputs` grows an input element by element
(NAL units, frames, configuration lines, index lines, digits) and compares
what the code's function returns with a definition written the other way round:
what an encoder, an operator or `save_atomic` writes must be what is read.

## 3. Runs

| Run | Bounds | Shows |
|---|---|---|
| `storage_files` | one instance at a time; int 0..1, two index numbers, two suffixes, segments of two access units, maximum 2 and edits to 1 and 2; three initial directories | `TypeOK`, `IndexedRecordsExist`, `ResumePoint`, `RecordedDataKept`, `OldIndexesKept`, `ImplementsArchive` |
| `storage_instances` | two instances, one suffix, the same directories, with fairness | `LockExclusion`, `FailureFreesLock`, `SegmentOpens` |
| `storage_limits` | access units of 1 and 2, a buffer of 2, segment size 3; int 0..3, three index numbers, maximum 2, starting in the last but one folder | `SegmentWithinBuffer`, `FolderWithinTwiceMaximum` |
| `pipeline_stop` | a pipe of three parts: one and a half packets | `TypeOK`, `SuccessOnlyWhenStopped`, `ErrorKept`, `StopHonoured`, `BackendEndNoticed`, `WaitReturns`, `OrphanEnds` |
| `access_units` | five packets; uint64 0..15, int64 0..7, 4 ticks in 5 units of time, units of at most two packets, stamps that repeat, share a tick, go back and exceed the range | `TypeOK`, `DtsIncreasing`, `DtsLeast`, `UnitsComplete` |
| `packet_bytes` | bytes 0..3, sizes and timestamps of two bytes, packets of at most 5; configuration pipes of 2 and 4 bytes, a video pipe of 3; two packets | `TypeOK`, `DeliveredAreSent`, `ConfigFramed`, `PacketsReturned` |
| `recording` | one instance, segments of up to two access units, a video pipe of two parts, int 0..1, two index numbers | `DrainsIntoOpenSegment`, `BackendKeepsLock`, `StorageFailureReported`, `RunReleasesStorage`, `StorageImplemented`, `PipelineImplemented` |
| `inputs` | fourteen argument lists; two NAL units, five frames with timestamps of 0 to 9, two configuration lines, nine index lines, four digits with an int up to 1234 and a size up to 5000 | `ExplicitConfigUsed`, `OutputsKept`, `ConfigsKept`, `NalusFound`, `StatsOfWindow`, `ConfigAsWritten`, `IndexTextExact`, `NumbersExact` |
| `doc_folder_maximum` | one record in a folder of at most two | violates `FolderWithinMaximum` |
| `doc_segment_size` | access units of 1, a buffer of 1 | violates `SegmentWithinOneUnit` |
| `doc_ctrl_c` | a camera that may stall | violates `StopHonoured` |
| `doc_default_config` | a program launched from outside its directory | violates `GeneratedConfigUsed` |

Why the bounds are enough. An int that ends at 1 gives two folders of two
files: the successor inside a folder, the successor in the next folder and the
overflow of both happen. Two index numbers give the recovery and the end of the
recoveries (index999). Two suffixes give both a free and an exhausted
`next_record_path` and two files of one number. An edit lowers or raises the
maximum under an index with one or two folders. The initial directories are an
empty one, one with an index of the first format (rewritten at load), and a
legacy one with an unpadded folder whose `index.yaml` can be read or not. Two
access units in a segment give an instance that ends in the middle of one. Two
instances suffice for every conflict over a lock. No
counter is capped other than by these limits: a directory that is full stops
the program, as it does the code. Deadlock is checked in the storage runs. In
the others it is not, because `run()` returns or is killed and an input ends.

Five packets give a unit with parameter sets in each of two files, with packets
in between that are passed over; three frames of one file give a DTS that makes
way for one that has made way already. The video pipe of `packet_bytes` is
shorter than the longest packet, and a configuration packet of four bytes meets
a pipe it fits into and one it does not. Two parts in the video pipe of
`recording` are one packet, enough for a blocked backend and for a packet that
waits through a rotation. Nine index lines are a header, two folders and the end
of the sequence; four digits reach beyond the largest int and the largest size.

What the violated runs say. All four are differences between the README of the
repository and its code, of small consequence:

1. `append_record` counts the records of the current index only, so after a
   recovery a folder can exceed `maximum_file_num`. `FolderWithinTwiceMaximum`
   is what does hold: the scan counts the files on disk once, before the new
   index begins.
2. `file_size` does not see FFmpeg's buffer, so a segment can exceed the
   configured size by the buffer and one access unit (`SegmentWithinBuffer`).
3. A signal between `stop_requested()` and `read()` is only acted on when the
   next packet arrives. With a camera that delivers frames `StopHonoured` holds
   (`pipeline_stop`); with one that has stalled a second signal is needed.
4. `--generate-default-config` writes relative to the directory the program is
   started from, and the default configuration is looked for in the directory of
   the executable. From the parent of a copied `dst/`, the generated file is not
   the one the next run loads.

### Fairness

Storage: an instance that is not killed makes its next step (`Proceed`; failures
are never forced), the backend of a failed instance exits because `run()` sends
it the end packet and closes its pipes, and so does an orphaned backend, which
is what `OrphanEnds` of `Pipeline` establishes. Writing access units is not
fair. Pipeline: `run()` is a running process (`Run`); the backend starts, reads
its configuration pipe, obeys its end and finishes a packet it has begun or
gets EPIPE for it. Failures, signals and kills are not fair, and packets only in
`StreamingSpec`. Nothing is assumed of a backend that hangs: `wait()` has no
timeout and `request_stop()` is never called, so with such a backend `run()`
does hang.

Recording: the same of `run()`, whose steps now include those of the recorder
and its opening, and of the backend; storage failures and kills are not fair.
PacketIO: `run()` is a running process (`Run`), and nothing is assumed of the
backend. AccessUnits and the inputs have no fairness: nothing in them waits.

## 4. Proofs

For every value of the constants that satisfies the assumptions named in the
modules. TLC evaluates each of them in the runs:

| Assumption | Says |
|---|---|
| `StorageIndexAssumption`, `StorageRecorderAssumption` | types of the limits and settings; `Nobody`, `NoRecord` and the like are no others of their kind |
| `InitialStorageAssumption` | the directory at first is one the program can have left: it has finitely many files, and what an index lists is there |
| `ArchiveAssumption` | in it, every file is below a folder the scan sees, no two files with data have one position, and the latest index that can be read ends where the data does |
| `PipelineAssumption` | the pipe holds at least one part |
| `OneProgram` | `Recording` has one instance |
| `AccessUnitsAssumption` | the widths of the integers, and that a tick is not shorter than a unit of the camera's time |
| `PacketIOAssumption` | every size and timestamp has bytes of its own, all of one width; the pipes hold at least a byte; the configuration has a size that fits (otherwise `write_packet` refuses it) |
| `FrameStatsAssumption` | timestamps and the length of the window are natural numbers |
| `IndexTextAssumption` | the limits of an int and of a size are natural numbers, the units of a size positive ones |
| `H264InspectorAssumption` | the number of bytes decoded of a slice is a natural number |
| `StartupAssumption` | the command lines are sequences of arguments, and the Widths are ones a configuration can have |
| `MaximumAssumption` | no initial directory and no edit has a maximum above the default (`MaximumNotRaised`). Of the runs of `MCStorage` and `MCRecording`; only `FoldersBounded` needs it, as its hypothesis |

| Module | Theorem | States |
|---|---|---|
| `StorageRecorderProofs` | `TypeCorrect` | `Spec => []TypeOK` |
| | `MutualExclusion` | `Spec => []LockExclusion` |
| | `IndexesTruthful` | `Spec => []IndexedRecordsExist` |
| | `DataPreserved` | `Spec => RecordedDataKept` |
| `ArchiveProofs` | `RestartResumes` | `Spec => []ResumePoint` |
| | `OldIndexesPreserved` | `Spec => OldIndexesKept` |
| | `RecordingsAreArchived` | `Spec => ImplementsArchive` |
| `LimitsProofs` | `SegmentSizeBounded` | `Spec => []SegmentWithinBuffer` |
| | `FoldersBounded` | `MaximumNotRaised` gives `Spec => []FolderWithinTwiceMaximum` |
| `PipelineProofs` | `PipelineTypeCorrect` | `Spec => []TypeOK` |
| | `SuccessIsRequested` | `Spec => []SuccessOnlyWhenStopped` |
| | `ErrorsPersist` | `Spec => ErrorKept` |
| `RecordingProofs` | `ImplementsBoth` | `RecordingSpec => Spec /\ P!Spec`, of the recorder and of `Pipeline` |
| | `RecordingKeepsStorage` | `RecordedDataKept` and `IndexedRecordsExist` inside `run()` |
| | `SegmentOpenWhileDraining` | `RecordingSpec => []DrainsIntoOpenSegment` |
| | `BackendHoldsLock` | `RecordingSpec => []BackendKeepsLock` |
| | `FailuresAreReported` | `RecordingSpec => []StorageFailureReported` |
| `AccessUnitsProofs` | `UnitsTypeCorrect` | `Spec => []TypeOK` |
| | `TimesIncrease` | `Spec => []DtsIncreasing` |
| | `TimesLeast` | `Spec => []DtsLeast` |
| | `UnitsAreComplete` | `Spec => []UnitsComplete` |
| `PacketIOProofs` | `PacketIOTypeCorrect` | `Spec => []TypeOK` |
| | `PacketsAreDelivered` | `Spec => []DeliveredAreSent` |
| | `ConfigurationIsFramed` | `Spec => []ConfigFramed` |
| `InputsProofs` | `NamedConfigUsed` | `Spec => []ExplicitConfigUsed` |
| | `OutputsAreKept` | `Spec => []OutputsKept` |
| | `ConfigsAreKept` | `Spec => ConfigsKept` |
| | `StatisticsAreOfTheWindow` | `StatsSpec => []StatsOfWindow` |
| | `NumbersAreExact` | `NumbersExact` of every input that is a sequence of digits |
| | `ConfigIsLoadedAsWritten` | `ConfigAsWritten` of every input that is a sequence of `Writable` lines |
| | `IndexTextIsExact` | `IndexTextExact` of every input that is a sequence of `IndexTextLine`s |
| | `NalusAreFound` | `NalusFound` of every input that is a sequence of `EncoderUnit`s |

The arguments. Hardly any of these properties is inductive alone.

* **`StorageRecorder`.** `Inv` is `TypeOK`, `LockExclusion` and
  `CurrentRecords`: what an instance that is past a given point knows of its own
  record (its path is set, its file exists, it is still without data until the
  segment is opened). Data is kept because the only files that are truncated or
  removed are such records, and `LockExclusion` makes them safe from other
  instances. `IndexInv` adds `OwnIndexes`: from the end of `load_or_create` on,
  no index has a greater number than the one in memory, and the file of that
  number, if there is one, is not `Corrupt`. `RecordInv` adds `OwnRecords`
  and `ListedExist`: what the object in memory and the temporary file list
  exists, up to the record being reserved, so the rename never publishes an
  index that lists a missing file.
* **Restarts.** `ResumeInv` adds to `IndexInv` that the records in memory are
  ones `load_index_file` would accept, that the next position is the one it
  would compute, and that outside `save_atomic` the file says the same. The step
  that matters is `append_record`, and the lemma `AppendValid` says that what it
  accepts, `load_index_file` accepts.
* **Indexes that stay.** `OldIndexesKept` says how an instance takes its number
  (that of the latest index as it was loaded, or a new one), that it keeps it,
  and that it writes to no other. `ContinueInv` adds to `ResumeInv` that, all
  through `save_atomic`, what is about to be written continues the file it will
  replace: that file is valid and has the same settings, and at most the new
  record is missing in it (`LoadContinues`, `AppendContinues`). So the rename,
  the only step that changes an index file, never replaces one that was refused.
* **The archive.** `OrderInv` adds to `ResumeInv` that the latest readable index
  covers all data (`Stored`), and for each place in the code that what is
  recorded lies before the next position, or that the current record is the last
  file and the latest index ends with it (`Ordered`). `CoveredBeforeNext` and
  `ScannedIsLast` give this for the two ways to a position, an index and a scan.
  So data only comes to the last file or to a later one: `Extend` of
  `SegmentArchive`. `Start` is `Acquire`; the end of an instance, of either
  kind, and that of an orphaned backend are `Release`; the rest stutters.
* **Sizes.** `AllSized` says that before each access unit the flushed part of a
  segment is less than the configured size, which is what `rotate_if_needed`
  has just seen, and afterwards that its end is within the buffer and that unit.
* **Folders.** `FolderInv` adds to `OrderInv` how much room a folder has left:
  less than a default maximum of files with data besides those the index in
  force lists in it. A recovery begins there with an empty list, since the scan
  goes on in a folder only below the maximum; a record with data adds one to both
  sides; and the list itself ends at the maximum, which gives twice the maximum
  in all. A file comes to a folder only as the last record of the latest index
  (`Ordered`), so the other folders keep what they have. Were the maximum raised
  and the index then lost, the files of the folder could be any number up to the
  raised maximum, hence the hypothesis.
* **`Pipeline`.** `EndedByStop` strengthens `SuccessOnlyWhenStopped`: once the
  drain loop is over, a result that is still 0 stems from a stop.
* **`Recording`.** Each of its steps is a step or a stutter of the recorder and
  of `Pipeline`. `Joint` says where the recorder and the backend can be while
  `run()` is at a given place, and that a rotation stands for a packet that was
  read and is not yet handled.
* **`AccessUnits`.** `MuxerKnows` says that first and last of the muxer are the
  first timestamp and the last DTS of the open file. `Rounding` says a rounded
  time is within half a tick; with it the DTS of a file are increasing and each
  either its own time or one more than the DTS before it. `UnitsComplete`
  is inductive together with that invariant: it says itself that the prefix holds
  parameter sets only, later than everything in the files. A step that writes is
  reduced to `UnitAdded`: one unit more, behind all others.
* **`PacketIO`.** The video pipe is a stream: what `read_full` has of a field,
  what is in the pipe, and what the backend has yet to write of its packet.
  `Carries` says a stream is the wires of some packets, one after the other, and
  ends there or goes on with a size that no packet has; `CarriesFirst` takes the
  first packet off and `CarriesMore` adds one. `StreamInv` is that the stream is
  the part of the current packet that is still to come and then the packets
  after it, `PacketInv` that what `read_video_packet` has decided so far is true
  of that packet. A read moves bytes along the stream and keeps it
  (`BytesRead`), and when a field is whole, equal prefixes of equal length make
  it the field that was sent (`FieldRead`, `SizeRead`). Behind a nonsense size
  nothing is claimed, and no packet is returned. For the other pipe, `ConfigInv`
  says that what is written and what is still in the buffers make up the two
  packets, and that a call that sleeps has filled the pipe: so a stop can only
  cut a configuration that does not fit.
* **`Startup`.** `Known` is what a run that is at a given place knows: its
  options, which file it has loaded, whether it has its backend, that it has
  overwritten nothing; and that the file at the name, as long as it is its own,
  is the unfinished one. `ConfigsKept` follows: a file is created where there is
  none, only that one is written to, and what bears the name is removed after a
  failed write only. A file that has replaced it by then is removed with it,
  which the property does not rule out.
* **`FrameStats`.** `StatsOfWindow` compares what is shown with all frames that
  have come, of which the code only keeps some samples. `StatsInv` adds that the
  time increases in what is shown, which makes the samples that are too old a
  prefix (`WindowIsSuffix`): so removing them from the front removes them all.
  `TotalsAreReal` is about the loop over the samples.
* **Loops.** A loop is a recursive function, and `Iteration` gives it its values:
  the set of the numbers it has them for contains 0 and every successor of its
  members, and `SetInduction`, which follows from the well-foundedness of the
  numbers, makes it all of them. The same lemma serves every statement about the
  first steps of a loop, as a set of numbers in place of a predicate.
* **Numbers.** `NumbersExact` asks for the decimal value where that fits and for
  a refusal where it does not. A parser that has read some of the digits has the
  value of those, or has refused a value that further digits only make greater
  (`ParseUpToIsExact`). The padded spelling an index must have is compared by
  dividing the value by ten again and again: that takes off the digits read, last
  first (`OversOfDigits`).
* **Configuration lines.** `Writable` is what an operator may put in a line. Its
  keys and values are texts over any set of characters that has the marks in it.
  `LineLayout` says where in a line its parts are, `QuotesOfLine` which quote is
  open after each character: none outside of the value's own quotes, so the first
  comment sign that counts is behind the value. `TextOfLine` then cuts the comment
  and the spaces, and `EntryOfLine` finds the first colon right after the key.
* **Index texts.** `Agree` relates what the loop of `load_index_file` has, after
  any line, to what the lines so far say (`Say`): the loop still accepts exactly
  when the lines are `WellWritten`, that is the lines of valid records and, at
  most, of the next folder; and then it has the records that are said, their
  folders and their `NextOf`. That is inductive only together with `Saying`, the
  folder a record was said to be in. One line more keeps it (`OneLineMore`): by
  `FolderStep`, since folders never go back in valid records (`FoldersGrow`) and
  a body ends with a record (`BodyEnds`), by `RecordStep`, which is
  `ValidAppended` and that a record either is in the last folder or begins one
  without records, and by `OtherStep`. `WrittenHasHead` and `SettingsOf` are
  about the lines before. No text is accepted that would not be written again as
  it is, up to the spelling of the folders in the earlier formats.
* **NAL units.** An `EncoderUnit` has either start code, any header but 0 and any
  bytes that do not end with a zero; a slice begins with the codes of any macroblock
  and any type up to 2^31 - 2, as long as `RbspMax` bytes hold them (the 64 of
  the code always do). `UnitsOfRun` says that the units of the run are among
  them, for an `RbspMax` of at least 7. Three facts make what is read what was written. The code of a value is
  read: its digits are the halves of the value, and `DigitsOfNumber` puts them
  together from the last one. The copy without emulation prevention is the
  payload up to `RbspMax` bytes (`CopyOfEscaped`): after each byte the writer and
  the reader count the same zeros. And start codes stand between the end of a unit
  and the next header only (`OnlyTheirCodes`, `WhereCodesAre`), because escaped
  bytes have none (`EscapedIsSafe`) and no unit ends with a zero, which would
  lengthen the next code. So `collect_h264_nalu_info` goes from the end of a unit
  to that of the next (`NextIsCollected`) and names it (`UnitIsNamed`).

Only model-checked is liveness (`FailureFreesLock`, `SegmentOpens`,
`StopHonoured`, `BackendEndNoticed`, `WaitReturns`, `OrphanEnds`,
`PacketsReturned`, `RunReleasesStorage`), with the fairness halves of
`StorageImplemented` and `PipelineImplemented`: it is out of the prover's reach.
Every invariant and every other action property of a run has its theorem.

## 5. Not modelled

* The text of the camera parameters: base64, the order of the keys and the search
  for a tuning file. It is formatting for a parser that is not in this
  repository; of `camera_params.cpp` only the precedence and the parsing of a
  number matter to the rest of the program (`CameraWidth`).
* The bytes of MPEG-TS and FFmpeg's own state. A failed trailer and a failed
  flush only cause a warning, and `fclose` is not checked, so a full disk can
  cut the end of a file with the exit code 0; no property could hold there.
* The wording of messages and the floating-point rounding of the statistics.
* The environment of the child (`LD_LIBRARY_PATH` and the like): set-up between
  fork and exec without another reader.
* B-frames: the code equates DTS and PTS and says so.
* `request_stop()`, which nothing calls.

`PROJECT.json` lists each part with its reason.

## 6. Plan

Every component that takes part in recording is modelled, and the safety
properties within reach of the provers are proved. What is worth adding
next:

1. When `request_stop()` gets a caller, or `wait()` a timeout: the backend that
   hangs, as actions of `Pipeline`, and `WaitReturns` without the assumption that
   the backend obeys.
2. When `save_atomic` or the muxer calls fsync: power failures that lose what was
   not synced, apart from those of `DamageIndex`.
3. When the index says which files are below a folder at its start: the stronger
   `FolderWithinMaximum` in place of `FolderWithinTwiceMaximum`.
