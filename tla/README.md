# A verification project for ImageComparer

ImageComparer (`Tst/ImageComparerCmd.cpp` with the library `pHash/`) looks for
pictures that look alike below one directory, or below a second one that look
like those of the first, and moves the duplicates to a directory `DUP`. It
compares 64-bit perceptual hashes, and can keep them in a *list file* between
runs. This directory holds TLA+ modules of that program, configurations that
model-check them, and proofs. What the library offers other programs is modelled
too: its index for nearest neighbours, the hashing of a directory by threads, the
text hash and the video hash.

## 1. The system

Paths are relative to the repository. The program is single-threaded; what makes
it hard is that the disk is shared with a user, with other programs and with other
instances of itself, that a run can be stopped anywhere and is then repeated, and
that state survives in the list file. The rest of the library is hard in its arrays,
whose sizes are computed apart from what is written to them, and in its threads.

| Component | Source | State | Operations | Talks to |
|---|---|---|---|---|
| Image record | `pHash/pHashWrapper.h:13-39`, `pHashWrapper.cpp:6-305` | size, date, dimensions, four hashes, the flag `ImageCanBeRotated` | `Initialize`, `ReadExif`, `CalculateHash`, `CalculateCRC`, `IsSimiliar` | DCT hash, Exiv2 |
| DCT image hash | `pHash/pHash.cpp:532-600`, `999-1009` | the raster, changed in place | `_ph_dct_imagehash`, `ph_hamming_distance` | CImg |
| Search in one list | `Tst/ImageComparerCmd.cpp:16-95` | list, iterator, two counters | `findNext`, `AnalyzeSingleList` | `FileMove`, `IsSimiliar` |
| Search by template | `Tst/ImageComparerCmd.cpp:97-119` | two lists | `AnalizeListWithTemplate` | `FileMove`, `IsSimiliar` |
| Directory scan, list file | `pHashWrapper.cpp:439-869` | names found, the cache read, the list made, the list file | `SearchFiles`, `AnalyzeDirectory`, `ReadList`, `SaveList` | image record, disk |
| Program | `Tst/ImageComparerCmd.cpp:146-333`, `pHashWrapper.cpp:490-529` | options, counters, log, disk | `_tmain`, `FileMove` | everything above, other instances by their logs |
| Directory names | `pHashWrapper.cpp:342-437`, `531-545` | none | `GetDirectory`, `GetFileNameFromPath` | program, scan |
| Option parser | `Tst/wingetopt.cpp` | place in the word, static between calls | `getopt` | program |
| Multi-vantage-point tree | `pHash/mvptree.cpp` | the tree, a mapped file | `mvptree_add`, `mvptree_retrieve`, `mvptree_write`, `mvptree_read`, `mvptree_clear` | a distance function; not used by the program |
| POSIX layer | `pHash/dirent.c`, `mman.cpp`, `ph_fft.c` | `DIR`, mappings | `opendir`.., `mmap`.., FFT | directory listing, tree |
| Directory listing | `pHash/pHash.cpp:1139-1175` | the names and their count | `ph_readfilenames` | `DIR`, other programs |
| Hash threads | `pHash/pHash.cpp:602-670` | slices of an array | `ph_dct_image_hashes` | threads; built with `HAVE_PTHREAD` only |
| Text hash | `pHash/pHash.cpp:1206-1340` | ring of letters, rolled hash, window, points | `ph_texthash`, `ph_compare_text_hashes` | a file |
| Video hash | `pHash/pHash.cpp:678-995` | differences of frames, boundaries, key frames | `ph_getKeyFramesFromVideo`, `ph_dct_videohash`, `ph_dct_videohash_dist` | FFmpeg; built with `HAVE_VIDEO_HASH` only |
| Other image hashes | `pHash/pHash.cpp` | none | radial digest, wavelet hash, block mean hash | not used by the program |

What makes each correct:

* *Record and hash*: two records are similar exactly when the pictures are, up to
  a quarter turn if `-r` was given; a picture that has no hash is similar to
  nothing (the code does not achieve this, section 5).
* *Search in one list*: it ends; every pair is compared that must be; only a file
  that is similar to a better one goes; something at least as good stays for each
  that goes; the summary adds up.
* *Scan*: each file once; a hash from the list file is that of a content the file had,
  with the size it has now and written in the same second, after any history of edits,
  copies, crashes and failed writes.
* *Program*: no picture is lost or overwritten, one of each stays where the user
  keeps them, and a repeated run finds nothing. Its command line is taken as a reader
  takes it, and instances that are started together do not destroy each other's logs
  but where they meet.
* *Tree*: a search finds what a linear search would find; no point is lost by a call
  that reports success, and none is in the tree twice.
* *Listing and threads*: the names are the files of the directory; each hash is that of
  the file beside it; no thread leaves its slice, or the array.
* *Text and video hash*: the hash of a K-gram does not depend on what came before it
  (the code does not achieve this, section 5); points, matches and key frames are
  what they are defined to be; nothing is written past an array.

`PROJECT.json` lists the hazards of this code by line, with the properties that
catch each.

## 2. The modules

| Module | Models | State and actions against the code |
|---|---|---|
| `ImageFile` | `CImageFile`, `_ph_dct_imagehash` | no variables. A file is its picture, orientation, channels, size and date; `Initialize`, `SameFile` (the look-up), `CalculateHash` and `IsSimiliar` are operators on records. A date is in ticks on the disk, and `filetime_to_timet` cuts it to seconds (`Second` ticks each). What `Initialize` learns is a `Reading`: the size, the time and the EXIF data may each be refused, and a file that cannot be opened tells none of them, though `CalculateHash` may still load it. `Code` gives the hash of a picture in an orientation, `Near` the pairs within `eQuality`. The raster is modelled as the in-place object it is: the four calls ask for 0, 90, 180, 270 degrees of a raster already turned (so 0, 90, 270, 180), and flatten it the first time. |
| `OneOfEach` | what the search promises | `kept` and `beaten`; one action, `Beat`. |
| `DedupList` | `AnalyzeSingleList` | `list`, `iFile`, `cDUP`, `cERROR` are the code's; `dup` and `beaten` record what was moved and why. One action per branch of the loop: `FileIsWorse`, `FindIsWorse`, `Advance`. Both counters and the erasure are part of the first two, and the move may fail in either. |
| `DedupListProofs` | | theorems, section 6. |
| `Listing` | the loops of `SearchFiles`, `m_fv` and the maps of records | no variables: `Keep` is what a search of a directory returns of the entries in the system's order (and what `ph_texthash` keeps of the characters of a text), `Put` an entry of a map made or replaced. |
| `AnalyzeDirectoryProofs`, `ImageComparerCmdProofs`, `StartupProofs`, `LibraryProofs` | | theorems, section 6. |
| `ListLemmas`, `ImageFileProofs` | | the lemmas these share: least numbers and induction, sequences as lists are changed, the record and its hashes. |
| `AnalyzeDirectory` | the scan and the list file | a run is `Begin` (search, `ReadList`), then per file `Open` (size, date, look-up, cache hit) and `Hash0` (`CalculateHash`, the second reading of the file), or `ParseError`; then `EndOfScan`, `Save` or `SaveFails`. `Crash` stops it anywhere. `Edit`, `Delete` and `Copy` are other programs: a file may be written with any date, twice within a second or with an older one. `had` remembers the contents a name has had, `faults` what may go wrong unseen: `"blind"` (size or time not read), `"failed"` (a hash not computed), `"raced"` (the file changed between its two readings). |
| `ImageComparerCmd` | `_tmain` from the scan on, `FileMove`, `AnalizeListWithTemplate` | instances `DedupList` for its pass; `Begin`, `ScanFile`, `ParseError`, `Scanned`, `Scanned2`, `Single`, `Template`, `Finish`, and `Crash`, `Edit`, `Delete`. `ScanFile` lists a file with one of its `Records`: with `-l` any of `Stored` that `SameFile` takes for it, or a new one, of which `Openings` and `Calls` say what could be read and computed. `Stored` stands for whatever list files hold, more than they can: which records a list file really gives is the subject of `AnalyzeDirectory`. `faults` notes a file left out by the exception (`"left"`, which no counter of the program shows) and one listed with other hashes than its own (`"misread"`). |
| `GetOpt` | `getopt` | no variables: `GetOpt` maps the scanner's state (`optind`, `sp`, `optarg`, `optopt`, the result) and the words to the next one. Words are sequences of characters, since the scanner's place within a word is the point. Below it, what a reader takes the words for (`OptionWords`, `Legal`, `Given`, `ArgumentOf`), with no place kept. |
| `GetDirectory` | `GetDirectory` | a function from words to paths, a path being the sequence of its names. `Parts` is what `_wsplitpath_s` makes of a word; the path is put together from them as text, so that a word may come out with an empty name or a drive grown into one. `Wild` are names with wildcards for which `_wfindfirst` finds a directory first (`*.*` finds `.`). Below it, what the system takes a word for (`Named`), with a current directory on each drive. |
| `Startup` | `_tmain` up to the search, and its end | several processes: `BadDirectory`, `Directories`, then a turn of `getopt` per step (`Option`, `BadOption`, `Options`), then the search for a log name (`Probe` opens a name for reading, `NextName` closes it, `NameFound`), `Open`, `Finish`, `Key`, `Crash`. Files are opened by `_wfopen_s`, which lets readers share a file and writers not. It may fail for any other reason too, for a process in `Unlucky` (`ProbeRefused`, `OpenRefused`): a program outside has the file, the directory is not to be written to, the disk is full. `met` remembers who had the name open that an instance looked at, `refused` which calls failed so. |
| `Dirent` | `opendir`, `readdir`, `rewinddir` | no variables: a `DIR` is its status and its handle, the set of entries the system has still to return. Whether an open enumeration notices a change is left open. |
| `ReadFileNames` | `ph_readfilenames` | a step per `readdir`, which others' `Add` and `Delete` may come between. |
| `HashThreads` | `ph_dct_image_hashes`, `ph_image_thread` | `Create` makes a slice and its thread, `Hash` is a turn of a thread, `Joined` the return. |
| `HashDirectory` | a client that lists and then hashes | composes the two; the names are those listed, whatever has become of the files. `Picture` are the files CImg decodes, since all names are listed, and `Locked` those that may fail to be read though they are there. |
| `HashDirectoryProofs` | | theorems, section 6. |
| `TextHash`, `TextMatch` | `ph_texthash`, `ph_compare_text_hashes` | a step per character; per pair of points. A hash is its bits, so that shifting, exclusive or and comparison are what they are bit by bit, at any width. A point is its hash and its place in the file; what a match holds is the positions of two points in the lists. |
| `KeyFrames`, `VideoDistance` | `ph_getKeyFramesFromVideo`, `ph_dct_videohash_dist` | `OpenVideo` is the header, whose number of frames or rate may be negative, and the division that gives the step between frames; then a step per batch of frames read, frame looked at, shot, key frame read (`NoVideoMemory`, `ReadFails`: the returns of NULL); a step per row of the table. |
| `Library` | a client of the five calls | chooses the call and its input. |
| `MvpTree` | `mvptree_add`, `_retrieve`, `_write` and `_read` | `node` is the tree, a nested record of the C struct's fields; `supply` and `taken` say which points were added. `mvptree_add(n)` is the whole call, with the recursion of `_mvptree_add` as `Add`, `Create`, `CreateLeaf`, `CreateInternal`, `AddToLeaf`, `AddToInternal`, and an outcome for each way it fails. `Reload` writes the tree and reads it back. A search changes nothing, and is the operator `Retrieve`. |
| `MC*` | | the instances. |

The granularity: a step is a stretch of code in which the program touches what it
shares (the disk, a log, the directory, the array of hashes) at most once, so that
others can come between any two touches. In `ImageComparerCmd` a file is read once
per step (the two readings of a file are apart in `AnalyzeDirectory`, where the
difference matters).

A step of the library outside an array is undefined behaviour, and the model ends
there (`"undefined"`); the properties say exactly when it does. An uninitialised
cell of the text hash's ring is any letter; an uninitialised hash is `Garbage`, a
value no file has.

## 3. The runs

Deadlock is checked in `library`, whose calls end in a step of their own (`Over`); in
the other runs the system may really stop: a pass ends, an instance exits, a program
need not be started.

| Run | Instance | Shows |
|---|---|---|
| `dedup` | 4 files; 3 hashes of which two pairs are near (so that similarity is not transitive), 3 classes of dimensions and size; and lists whose records have either flag; both `-s` | the iterator, the tally, the losses, termination, and the promise of `OneOfEach`, also where similarity is not symmetric. Four files are enough for a chain of three losses and a file between the two compared. |
| `analyze` | three worlds: 1 directory with 2 names, always run with `-r`, with and without `-l`; 2 directories with 1 name that share a list file, with `-r` in some runs, hashes that fail part-way and files that may not be opened; the same with `-r` in all runs, times that may not be read, and files with an alpha channel or no picture; 3 runs, 2 changes. Two ticks are a second, all files have one size, and a change may fall into the second of the file it replaces | a hash listed is of a content the file had with its size in its second; as far as these tell, the list file changes nothing but the time; a crashed or failed save costs entries only; every scan returns. A wrong reuse takes a run that saves, an edit, and a run that loads: three runs leave one to crash. |
| `cmd_runs` | up to 3 files in one directory, or 2 and 1 in two, 2 runs, failing moves, files left out, sizes, dates and hashes that cannot be read, list files with the record of any of the pictures, crashes | unless a file is misread, one of each stays and only look-alikes move; after a run with no error that left out none and misread none a repeated run finds nothing. |
| `cmd_user` | the program run in the directory that holds DUP, 2 runs, files left out, 1 change by the user | no content is destroyed; a run ends. |
| `startup` | one instance with every line of a directory and up to three of 14 words, or of two directories and two words, or of one or two directories in all 15 forms; two or three instances together, one of them unlucky, with and without `-b`, no log or one left by earlier runs | the line is refused or taken as a reader of whole words would, and the directories as the system would for plain words (a drive with a slash, or neither); `-e` is a list of entries; logs are lost by those that meet or are refused only; every instance ends. Three instances are needed for one to come between two others. |
| `library` | up to 4 files with or without dot entries, one of them no picture and one that may be locked, 2 changes, 1, 3, 4 or 5 threads; all texts to 8 characters of a letter, a capital and a skipped one, of 9 and 12 letters; K-grams of 2, windows of 4, hashes of 3 bits; all lists of up to 3 points; videos of up to 14 frames with up to 3 peaks, some cut short, of an unknown number of frames or rate, or of less than a frame in a second; all lists of up to 3 key frames | what the calls return, and exactly when they leave their arrays. Twelve letters go round the ring and shift a letter out of the hash; 14 frames hold boundaries within and beyond the local reach of 2; five threads for fewer files leave some without names. |
| `mvp_exact` | all orders of 6 points over 3 places of a grid and 1 that cannot be measured, 48 walks of 13 points over 12 places; batches of 1, 2 and 5; `leafcap` 1, `pathlength` 3 | a search equals a linear search; no point twice; success loses nothing. With `leafcap` 1 four points overflow a leaf; the walks grow internal nodes below internal nodes, and trees with a point in each cell, which are read back whole. Path length 3 lets the second level both store distances and run out of room for them. |
| `analyze_rotation`, `cmd_hashless`, `cmd_nested`, `startup_dotted`, `mvp_owned` | small | the findings of section 5. |

Bounds: `MaxRuns`, `MaxEdits` and `MaxChanges` count runs and changes by others.
`Earlier` bounds the logs there are at first; the numbers of logs, `LogName`, follow
from it and the instances, and that no instance passes them is proved. `Width`,
`KgramLength`, `WindowLength`, `S`, `L` and `Batch` stand for 64, 50, 100, 10, 50 and
100: the modules take any values, and the instances keep what is less than what.
Everything else is finite by the code. Files come to at most three per directory in the
program's runs, because the search compares two at a time and a third is needed to come
between.

The instances of the program hold decodable pictures without alpha channel and
directories apart from each other; what goes wrong outside is in the violation runs, not
hidden. In `mvp_exact` points in one place, points that cannot be measured and trees
with empty cells are all included, in `analyze` files that are no pictures, and in
`library` videos of no or one frame, texts shorter than a K-gram or a window, and
failures of `readdir`.

## 4. Fairness

`DedupList` and `ImageComparerCmd` assume weak fairness of the program's own
steps: a loop in a running thread is scheduled until it ends. In `AnalyzeDirectory`
likewise for `Work`, and in `Startup` for each instance by itself, since each is a
process the system schedules. There is no fairness of the user, of a key being pressed,
of crashes, of starting a run, or between the outcomes of a move: nothing obliges them.
`MvpTree` and `Library` state no liveness and no fairness; that no call of the library
gets stuck is what the check for deadlock shows.

## 5. What the code does against its own words

* **-r and the list file** (`analyze_rotation`): a cached record replaces the new
  one, flag and hashes included, and `ReadList` derives the flag from the hashes.
  After one run with `-l`, a run with `-rl` (the documented default usage)
  compares no rotations, and the other way round. `CacheTransparent` therefore
  speaks of histories with the same `-r` in all runs; and even there the flag of a
  picture none of whose turns has a hash comes back from the list file as not
  rotatable, so that the property allows the flag asked for or the one the hashes
  show. The hashes themselves are exactly those of a run without lists.
* **Files that cannot be decoded**, and **pictures with an alpha channel**
  (`cmd_hashless`): all have hash 0 and are duplicates of each other. For the latter
  the bounds of the crop come from an image that is still empty, so that the DCT sees
  zeros.
* **`<dir2>` inside `<dir>`** (`cmd_nested`): a file is found similar to itself, and
  its only copy goes to DUP.
* **A directory with a dot in its name** (`startup_dotted`), not in the current
  directory: it is looked for in the current directory, taken for a mask, and the
  directory around it is searched instead.
* **Who owns the points** (`mvp_owned`): `mvptree.h` says that the tree owns what it
  was given. When all points of an internal node fall into one half by their
  distance to the first vantage point, `_mvptree_add` gives the node up: the points,
  with those of a full leaf that was to be split, are in no tree any more.
* **Where texts match**: of a pair of equal points `ph_compare_text_hashes` records the
  positions of the points in the two lists (`pHash.cpp:1332-1333`), where `pHash.h:190-191`
  calls the fields the "offset into first file" and into the second. The offsets are the
  `index` fields of the points, which the function does not read. `MatchesAreRuns`, in
  `library`, holds of the positions and says so; a caller who takes them for offsets is
  misled.

What no text of the repository rules out, but a caller has to know, is stated by the
properties of `library` as it is:

* `ph_dct_image_hashes` overruns its array unless `count % num_threads` is 0 or
  `num_threads - 1` (`LeavesArray`, proved); `ph_dct_video_hashes` divides its names
  the same way.
* `ph_texthash` has room for a point less than it may make (`RoomForPoints`, proved), and its
  rolled hash keeps a residue of earlier letters, because the ring is written one
  cell off (`RollingHash`, proved with the residue in closed form).
* `ph_compare_text_hashes` overruns its array exactly when there are more pairs of equal
  points than the longer list has points, for which both texts must repeat a point
  (`RoomForMatches`, proved).
* `ph_getKeyFramesFromVideo` divides by zero for a video of less than a frame in a second,
  and leaves its arrays for one of less than two frames to look at (`RoomForBounds`,
  proved).
* the hash of a file that cannot be decoded, or not be read when its turn comes, is what was
  on the thread's stack, since nobody looks at the result of `ph_dct_imagehash`
  (`HashesAsListed`, proved); `ph_readfilenames` lists files of any kind.
* `ph_readfilenames` writes past its array when a file is added between its two passes
  or the first one fails part-way, and leaves pointers unset when one is removed
  (`ListsDirectory`, proved).

Seen while modelling the tree, and left as hazards in `PROJECT.json`: points all in
one place make the code read `points[-1]` or measure against NULL; a search asks for
the root's second vantage point where it means the leaf's; a tree with an empty cell
is cut off there when it is read back (with an error, which `SuccessKeeps` allows);
`M2` is too small for a branch factor above 2.

Further limits are built into properties, and named there. A time is kept in whole
seconds: a file written twice within a second, with one size, keeps the hashes of the
first content, and so does one replaced by another with its size and date, so that
`NeverForeign` and `CacheTransparent` speak of contents of that size and second. A hash
computed from a file replaced between the two readings stays in the list file under the
old size and date (`"raced"`), one that failed once is remembered as 0 (`"failed"`), and
a size or time that could not be read is remembered as 0 and agrees with whatever cannot
be read the next time (`"blind"`). The program trusts what the scan gives it:
`OneOfEachStays` and `MovedIsSimilar` hold unless a file was listed with other hashes
than it has (`"misread"`), and after a run that left a file out, which counts as no
error (`pHashWrapper.cpp:601-607`), a repeated one may find duplicates (`"left"` in
`RepeatFindsNothing`). `GetDirectory` puts a path together as text: it never asks for
the current directory of a drive, so that `C:p` becomes `C:\p`, nor for the drive of the
current directory, so that `\p` is looked for below it (`pHashWrapper.cpp:375-397`), and
`SearchedOrAround` and `SearchedAsNamed` speak of other words only (`IsPlain`). Besides,
a search that measures against NULL is exempt from `RetrieveExact`; two instances that
meet at a log name may empty each other's log, or go without one, and so may one that
the system refuses a file (`met` and `refused` in `KeepsLogs` and `AloneHasLog`).

## 6. The proofs

Every invariant below was first checked by TLC, the strengthened ones too, and then
proved for all values of the constants. Each proof module follows one layout: a lemma
per action and conjunct (`NextTyped`, `NextFaithful`, ..), then the theorem, whose last
step is the only temporal one. Induction is done without operators as parameters:
`ListLemmas` derives it for sets (`NatInd`, `Least`) from the well-foundedness of
the natural numbers.

`DedupListProofs`, for lists of any length over any files and records
(`InputsAssumption`: a finite set of files, each listed once, and `HashAssumption`:
nearness reflexive and symmetric on hashes):

* `TypeCorrect`: the type invariant, inductive as it stands, since erasing keeps a
  sequence injective and the iterator within it (lemmas on `RemoveAt`).
* `HeadStaysSettled` and `HeadStaysFinal`: erasing at or after the iterator leaves
  the head alone, and the files after it are a subset of those before the step
  (`EraseEffect`).
* `TallyAddsUp`: needs the strengthening `TallyInv`, that `dup` is a finite set of losers.
* `LossesStayGrounded`: the winner of each step is still listed and the loser is
  not, so that a set of losers that contains the new one has a pair out of it.
* `LargestAlwaysStays`: covering is transitive, and the winner of a step covers
  the loser when dimensions are ordered one way.
* `Implements`: the initial state and each step map to `OneOfEach`.
* `LeavesOneOfEach`: from `HeadSettled` at the end and the symmetry of similarity
  under one flag.

`AnalyzeDirectoryProofs`, for any directories, names, contents, options and numbers
of runs, changes and crashes (`ScanAssumption`):

* `ScanTypeCorrect`: `TypeOK` with what it needs of the list file, `Typed`: the records
  read back are records again, whatever a torn write left of the last one.
* `FilesListedOnce`: `ListedOnce` is inductive given the types. A search returns each
  name once (`KeepIsListing`), and a torn list file is a list cut short.
* `ListFileReadBack`: what the next run reads of a list file just written, whole or torn,
  is the map of a prefix of the list. It needs `ListedOnce`, or an entry
  could hide an earlier one.
* `NoForeignHash` and `ListFileIsCache`, of one inductive invariant, `Provenance`.
  `NeverForeign` speaks of the list made; a foreign hash can only come by way of a
  record stored or cached earlier, for a file that has changed since. So
  `Faithful` says of *every* record a run may still use (`Known`: stored whole, cached, listed)
  that it fits a content its name has had: size and second are the content's where they
  were read, and each hash is the content's own or was never computed. The history `had`
  only grows, so that a change of the disk takes no witness away; a look-up takes a
  record for another content of the same size and second, which the property allows, and
  the record in work is what `Initialize` made of the file as it is (`Fresh`), unless the
  history says `"raced"`. Where nothing failed and all runs have one `-r`, the record is
  exactly the one made of that content without lists (`Exact`). No assumption is made
  on dates or on what the system lets the program read.

`ImageComparerCmdProofs`, for any disk, layout of the directories, options, records in
list files, outcomes of the moves and of the analysis, and numbers of runs and changes
(`PathAssumption`: a path is a place and a name; `HashAssumption`, `CodeAssumption`):

* `ProgramTypeCorrect`: `TypeOK`, with the lists within what is searched.
* `PicturesAreKept`: a step of the program permutes the disk. A move swaps a file with
  a free place, wherever DUP is, so that each content is there as often as before.
* `DuplicatesLookAlike`: `AsStarted` says that, with none misread and no change by the user, the
  records of a run are those of the files as it began, and that each pair beaten was similar
  then; the four hashes
  of a record are traced through the raster that is turned in place
  (`CalculateHashIsImage`, `AnalysisHash`). Hypothesis `PicturesHashed`: the pictures can
  be decoded and have no alpha channel. `cmd_hashless` shows what happens otherwise.
* `ClassesAreKept`: with `PicturesHashed` and none misread, of any set of contents that
  nothing outside it looks like (`Closed`), a member stays in the directories searched.
  It holds though looking alike is not transitive, and is what the induction is about:
  the file that stays in a step (`Untouched`: what is listed is where it was) belongs to
  the class of the one that goes.
* `OneOfEachIsKept`: `OneOfEachStays`, from `ClassesAreKept`, where looking alike is
  transitive (`AlikeIsTransitive`), so that the look-alikes of a picture are a class.
  Without that hypothesis the single-list search keeps no promise of this kind for each
  picture (`dedup` has chains), and the weaker theorem is all there is.
* `SettledRunsRepeatInVain`: after a run without errors that left out no file and
  misread none, what is left in the directories are no two similar files (`Behind` for
  one list, `Covered` for two: the files of the directories are those listed), so that
  the same run finds nothing (`Repeats`), whatever files it leaves out itself. Needs
  `DupApart`: otherwise the next run searches what this one moved.

The last three need `DirectoriesApart`, that with two directories none holds the other's files;
`cmd_nested` shows why. `MCImageComparerCmd` states as an ASSUME that its instance with
everything apart satisfies all four hypotheses. The strengthened
invariants were checked by TLC on that instance first.

`StartupProofs`, for any number of instances, any command lines and any logs there were
before (`StartupAssumption`), with instances stopped anywhere. The inductive invariant
`IInv` is `TypeOK` and

* `Scans`: getopt is either at the start of a word or inside one that has a character
  left (`GetOptFollows` shows that every outcome of a call keeps this), which is what
  makes it read no word and no character there is not;
* `Filled`: the names taken are the first ones, at most one for each log of earlier
  runs and each instance that is through, so that there is a name for every log;
* `OwnLogs`: who is about to open a log has met everyone who has it open and whoever
  wrote it last, unless the system refused to let it read that file; and who runs
  without a log has met someone or was refused it. `AloneHasLog` and `KeepsLogs` speak
  of the moment of opening and after; what has to be carried there from the probe is
  this.

They are `StartupTypeCorrect`, `AloneHasItsLog` and `LogsAreKept` (an action property).

Two more theorems are about what the scanner understands. `TakenAsMeant` speaks of whole
words, `getopt` stops after each letter, so the invariant `Reads` relates the two at every
stop:

* `ReadWell`: each word before the scanner is a word of options that `getopt` knows, or the
  argument of the word before it; and the letters passed within the word it stands in are flags.
* the options so far are `Understood`: what a reader takes from the part that was read
  (a flag if its letter is in a word read; the number and the mask of the last word that
  gives one). Each turn of `getopt` adds to both the same (`TurnReads`); at the end of
  the words the part read is everything, and `Understood` is `Meant`.
* which words are options at all (`OptionWords`) is a chain, each word deciding on
  the next one; `WordsRead` and `StandsAtOption` prove what the
  scanner needs of it by induction from the first word on.

`LineTakenAsMeant` follows, for those who search and for those who are refused, with
`SearchedOrAround`: for a plain word `GetDirectory` gives the directory named or, if the word
is taken for a mask, the one around it (`PathAssumption`: what is split are sequences of
names). What a word names is said by the system's rules (the root of a drive or its current
directory), not by the code's way of joining texts, and of words of which the two disagree
nothing is claimed (section 5).
`MaskIsEntries` finds the mask in the options by `Reads`. Looking for an extension and its
semicolon in the mask then is looking for the end of an entry, since the mask ends with
a semicolon and the extension has none (`MaskByEntries`). A name may have a semicolon in its
extension; such a file can be found across two entries, and the property leaves it out.

`HashDirectoryProofs`, for every number of names and threads and every change of the
directory (`ThreadsAssumption`: there is a processor; a directory, and so the initial
state `DirectoryBegin`, holds finitely many entries, the dot entries among them or not,
and any of them may be no picture or be locked: `PictureAssumption`):

* `ArrayIsLeft`: a thread leaves the array only with slices that do not fit, and the
  call returns only with slices that do. The invariant `SlicesInv` says that each slice
  begins where those before it end (`Before`, in closed form) and that a thread that has
  hashed something is within the array; `FittingSlices` and `OverrunningSlice` are
  the arithmetic of the division.
* `DirectoryIsListed`: the two passes agree on what they count. `NamesInv` relates
  the count and the names to the entries passed and those the open handle has still to
  return; one inequality holds unless a file was added (`RoomForAll`), the other
  unless one was removed (`FileForEach`), and together they are the equality a reader
  expects.
* `HashesAreAsListed`: the slices cover the array (`SlicesCover`, by the least thread
  that reaches past an index) and do not meet (`SlicesApart`), so that each hash is
  made once and of the name beside it, a picture, or is `Garbage`, and then the file is no
  picture, was locked, or has been removed (`HashesInv`).

`LibraryProofs`, for texts, lists of points, videos and lists of key frames of any length.
`CallsApart` says that a step of one call leaves the state of the others alone, so that the
invariant `LibraryInv` is a conjunction of one invariant per call. All parts were checked by TLC
first.

* `ArraysOfTheLibrary`: `StaysInArrays`, of all four arrays. The points of a text are counted
  by `RoomInv` (every character after the first K-gram gives a hash unless it is skipped,
  every window of hashes a point); the matches recorded are counted (`MatchesCounted`:
  each pair once, so there are as many as pairs passed), and more pairs than the longer list
  has points take a repetition in both; a step between frames is positive from the header
  on, and the boundaries are out of their array only when the video has no two frames to look
  at (`BoundsInv`).
* `HashRolls`: `RollInv` describes the ring of letters cell by cell (`RingInv`). The
  letter the code takes from it is, from the K-gram after the first on, the one after that
  which leaves, and the hash is the K-gram's with the `Residue` of that: two stretches of
  earlier letters, in closed form. For bits it takes that exclusive or cancels and that a
  rotation by the width is none.
* `WindowsMinima`: `PointsInv`, which keeps each point beside the window it was made of.
* `MatchedRuns`: `MatchInv`. The recursive function `Length` of a run is characterised by the
  least place where the texts differ (`Least`), without induction over data.
* `PeaksStandApart`: each boundary inside a video is a `Peak`, above all others within
  reach of it; two within reach of each other would each be above the other.
* `ShotsKeyFrames`: `ShotsInv` counts the key frames of the shots looked at, one for each, and
  keeps the boundaries ahead as they were found, since marks for key frames (2) are written
  among those for boundaries (1) in one array; `FramesInv` relates the frames read to them.
* `CommonFrames`: `IsLongest` says that a number is the size of a largest pairing (a set of
  pairs, alike and in order) up to a row and column. The table keeps it by
  an exchange: where the two last frames are alike, a largest pairing may be taken to use
  both, alike being any relation at all; where they are not, it leaves one out.

What they assume is that K-grams have at least two letters and windows are longer
(`TextAssumption`), positive windows and a positive factor (`KeyFramesAssumption`), that
points are records of two natural numbers (`PointsAssumption`) and key frames sequences
(`FramesAssumption`).

Only model-checked:

* `Terminates`, `Returns` and `Ends` (in two modules): liveness, which the prover cannot
  reach;
* everything about `MvpTree` (`FreedOnce`, `RetrieveExact`, `SuccessKeeps` and its
  `TypeOK`): its operators are recursive over the tree, and each call is a recursion whose
  every level may fail, which would have to be proved by induction over the tree.

## 7. What is not modelled

The vendored libraries (CImg, and below `exiv2/` Exiv2, curl, OpenSSL, expat and zlib)
are third-party code, and nearly all of the repository's lines: of some 855 000 lines the
program and its library are about 5 500. The models take from them what the program
sees of them, as constants: what a file decodes to, and the dimensions its EXIF data state.
So the share of the repository the modules map is small, while of the program and
the library most control flow is mapped. Of these are not modelled:

* the DCT and the rasters as numbers, the radial, wavelet and block mean hashes
  and the FFT: straight-line numerical code without control to speak of; in the video hash
  rounding, rates that are no whole numbers, and averages that are no numbers;
* the bytes of the tree's file and its mapping (`mman.cpp`), branch factors above 2;
* `seekdir`, `telldir`, and `opendir`'s failures beyond its answer;
* in `GetDirectory` paths of a server and the `\\?\` prefix, and `_wfindfirst`'s handle
  being kept in an `int`; `GetFileNameFromPath` as characters;
* texts, progress and the contents of the log; CRC and EXIF fields nobody reads; the
  empty .NET project.

`PROJECT.json` gives the reason for each component.

## 8. The plan

The order was: the search in one list, as the program's purpose; the list file,
as its only state between runs; the program around them; the tree; then the start of the
program with its instances, and the rest of the library. Every safety property the runs check
outside the tree is proved. What is left is to model larger leaves and paths of
the tree, and the layout of its file with its extension by pages.
