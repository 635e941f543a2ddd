----------------------------- MODULE MCStorage -----------------------------
(***************************************************************************)
(* Values for the constants of StorageRecorder: the directories an         *)
(* instance can be started on, in a system whose int ends at 1.            *)
(***************************************************************************)
EXTENDS StorageArchive, TLC

CONSTANTS s1, s2

NoIndexes == [n \in IndexNumber |-> NoIndex]
NoFiles   == [r \in {} |-> 0]

File(folder, file) == [folder |-> folder, file |-> file, suffix |-> s1]

Indexed(headed, max, records) ==
  [headed |-> headed, max |-> max, size |-> DefaultSegmentSize,
   records |-> records]

\* Nothing is there yet.
Fresh ==
  [indexFile |-> NoIndexes, dirs |-> {}, disk |-> NoFiles,
   legacy |-> [index |-> NoIndex, dirs |-> {}, files |-> {}]]

\* A version that wrote index.yaml and the folder 0 left one record there.
Legacy(content) ==
  [Fresh EXCEPT !.legacy =
     [index |-> content, dirs |-> {0}, files |-> {File(0, 0)}]]

\* One folder with count records, in an index with or without the settings.
OneFolder(headed, folder, count) ==
  [Fresh EXCEPT
     !.indexFile[0] = Indexed(headed, DefaultMaxFileNum,
                              [i \in 1 .. count |-> File(folder, i - 1)]),
     !.dirs = {folder},
     !.disk = [r \in {File(folder, i) : i \in 0 .. count - 1} |-> 1]]

MCFresh == {Fresh}

MCRecorded == {OneFolder(TRUE, 0, 1)}

\* Only one more folder can follow.
MCLateFolder == {OneFolder(TRUE, IntMax - 1, count) : count \in 1 .. 2}

MCAnyStorage ==
  {Fresh, OneFolder(FALSE, 0, 1), Legacy([max |-> 1, size |-> 1])}

MCSuffix == {s1, s2}

SuffixSymmetry == Permutations(Suffix)

\* No directory, and no edit, has a maximum above the default.
ASSUME MaximumAssumption == MaximumNotRaised
=============================================================================
