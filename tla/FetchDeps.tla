----------------------------- MODULE FetchDeps -----------------------------
(***************************************************************************)
(* The dependency fetchers of cmake/, run by a configure that may be       *)
(* killed between any two steps, or in the middle of writing a file, and   *)
(* is then started again.  What a fetcher has done survives in the build   *)
(* directory, where the next configure finds it; a build directory whose   *)
(* version was changed meanwhile, or one that CI restored from the cache   *)
(* of an older commit (restore-keys), looks the same to it.                *)
(*                                                                         *)
(* The fetchers keep to directories of their own, so one is modelled at a  *)
(* time.  AOCL, CMSIS-DSP, FFTW and liquid leave the work to CMake's       *)
(* FetchContent, which is not modelled.                                    *)
(***************************************************************************)
EXTENDS Naturals, FiniteSets

CONSTANTS
    Fetchers,   \* of "mkl", "armpl", "pocketfft", "ipp"
    Version,    \* versions of a library
    MaxKills,   \* bound: configures that are killed
    MaxBumps    \* bound: changes of the version asked for

ASSUME FetchersAssumption == Fetchers \subseteq {"mkl", "armpl", "pocketfft", "ipp"}
ASSUME VersionAssumption == Version # {} /\ "none" \notin Version
ASSUME BoundsAssumption == MaxKills \in Nat /\ MaxBumps \in Nat

None == "none"

\* The files of one version: the one a script looks for (mkl_dfti.h and
\* libmkl_*.a, libarmpl_lp64.a, libipps.a, pocketfft_hdronly.h) and the rest.
File    == {"main", "rest"}
Content == {"absent", "cut", "whole"}
Empty   == [v \in Version |-> [f \in File |-> "absent"]]

\* A download and the version it is of.
NoArchive   == [version |-> None, content |-> "absent"]
Archived(v) == [version |-> v, content |-> "whole"]

VARIABLES
    fetcher,   \* the FetchXXX.cmake that runs
    pin,       \* the version its cache variables ask for
    url,       \* the version its URL leads to
    vendored,  \* PocketFFT: the version of the header in third_party, if any
    pc,        \* the step the configure is at; "idle" when none runs
    part,      \* MKL: the wheel it is at
    todo,      \* the files still to be unpacked
    archive,   \* per part, the download
    tree,      \* per part, version and file, what was unpacked
    marker,    \* per part, the versions whose unpacking was marked as done
    found,     \* per part, the version the targets of the last configure use
    kills, bumps

disk   == <<archive, tree, marker>>
choice == <<fetcher, pin, url, vendored>>
vars   == <<choice, pc, part, todo, disk, found, kills, bumps>>

Parts    == IF fetcher = "mkl" THEN {"include", "static"} ELSE {"all"}
NotFound == [p \in Parts |-> None]

Init ==
    /\ fetcher \in Fetchers
    /\ pin \in Version /\ url = pin
    /\ vendored \in {None} \cup (IF fetcher = "pocketfft" THEN Version ELSE {})
    /\ pc = "idle" /\ part = None /\ todo = {}
    /\ archive = [p \in Parts |-> NoArchive]
    /\ tree = [p \in Parts |-> Empty]
    /\ marker = [p \in Parts |-> {}]
    /\ found = NotFound
    /\ kills = 0 /\ bumps = 0

-----------------------------------------------------------------------------
Exists(p, v, f) == tree[p][v][f] # "absent"
Whole(p, v)     == \A f \in File : tree[p][v][f] = "whole"

\* The directories of PocketFFT and IPP have no version in their paths: a file
\* takes the place of that of another version.
Written(files, content) ==
    [tree EXCEPT ![part] = [v \in Version |-> [f \in File |->
        IF f \in files /\ v = pin THEN content
        ELSE IF f \in files /\ fetcher \in {"pocketfft", "ipp"} THEN "absent"
        ELSE tree[part][v][f]]]]

\* Mutant: an MKL wheel counts as unpacked once there is anything of it.
TreeIsThere(p) ==
    \/ fetcher = "mkl" /\ \E v \in Version, f \in File : Exists(p, v, f)
    \/ fetcher = "armpl" /\ pin \in marker[p]
    \/ /\ fetcher \in {"pocketfft", "ipp"}
       /\ \E v \in Version : Exists(p, v, "main")

\* The test that keeps a script from fetching again.  MKL's marker has no
\* version in its name, ArmPL's has; PocketFFT and IPP look for a file of the
\* tree itself.
Marked(p) ==
    \/ fetcher = "mkl" /\ marker[p] # {}
    \/ fetcher = "armpl" /\ pin \in marker[p]
    \/ /\ fetcher \in {"pocketfft", "ipp"}
       /\ \E v \in Version : Exists(p, v, "main")

\* Mutant: the next configure takes over what the last one was doing.
StopAsItIs == pc' = "idle" /\ UNCHANGED <<part, todo>>

\* FATAL_ERROR, the end of the configure, or its death.
Stop == pc' = "idle" /\ part' = None /\ todo' = {}

Goto(step) ==
    /\ pc' = step
    /\ todo' = IF step = "unpack" THEN File ELSE {}
    /\ UNCHANGED part

\* Past this part: MKL's other wheel, or the targets.
Onward ==
    IF part = "include"
    THEN pc' = "look" /\ part' = "static" /\ UNCHANGED todo
    ELSE Goto("use")

Start ==
    /\ pc = "idle" /\ pc' = "look"
    /\ part' = IF fetcher = "mkl" THEN "include" ELSE "all"
    /\ found' = NotFound
    /\ UNCHANGED <<choice, todo, disk, kills, bumps>>

\* A vendored PocketFFT header is not fetched but compared with the pin.
LookVendored ==
    /\ pc = "look" /\ vendored # None
    /\ IF vendored = pin THEN Onward ELSE Stop
    /\ UNCHANGED <<choice, disk, found, kills, bumps>>

\* ArmPL uses a tarball it finds, whatever it is.
Look ==
    /\ pc = "look" /\ vendored = None
    /\ IF Marked(part) THEN Onward
       ELSE IF fetcher = "ipp" THEN Goto("unpack")
       ELSE IF fetcher = "armpl" /\ archive[part] # NoArchive THEN Goto("peel")
       ELSE Goto("download")
    /\ UNCHANGED <<choice, disk, found, kills, bumps>>

\* What file(DOWNLOAD) leaves at its destination; for PocketFFT, whose hash it
\* compares, this is the header itself.
Transferred(content) ==
    IF fetcher = "pocketfft"
    THEN tree' = Written(File, content) /\ UNCHANGED archive
    ELSE /\ archive' = [archive EXCEPT ![part] =
                IF content = "absent" THEN NoArchive
                ELSE [version |-> url, content |-> content]]
         /\ UNCHANGED tree

Download ==
    /\ pc = "download"
    /\ Transferred("whole")
    /\ \/ fetcher = "mkl" /\ Goto("unpack")
       \/ fetcher = "armpl" /\ Goto("peel")
       \/ fetcher = "pocketfft" /\ Onward
    /\ UNCHANGED <<choice, marker, found, kills, bumps>>

\* The transfer fails: the destination is removed.
DownloadFails ==
    /\ pc = "download" /\ Stop
    /\ Transferred("absent")
    /\ UNCHANGED <<choice, marker, found, kills, bumps>>

\* ArmPL: the installer in the tarball, and in it a .deb whose paths carry the
\* version.  A tarball that is cut, or of another version, is an error.
Peel ==
    /\ pc = "peel"
    /\ IF archive[part] = Archived(pin) THEN Goto("unpack") ELSE Stop
    /\ UNCHANGED <<choice, disk, found, kills, bumps>>

AfterUnpack == IF fetcher = "ipp" THEN Goto("use") ELSE Goto("tidy")

\* Mutant: the exit status of the unpacking is not looked at.
UnpackOrNot ==
    /\ pc = "unpack"
    /\ \E f \in todo :
          /\ \E content \in {"cut", "whole"} : tree' = Written({f}, content)
          /\ IF todo = {f} THEN AfterUnpack
             ELSE todo' = todo \ {f} /\ UNCHANGED <<pc, part>>
    /\ UNCHANGED <<choice, archive, marker, found, kills, bumps>>

\* The files of the archive, in any order; what is there is overwritten.
Unpack ==
    /\ pc = "unpack"
    /\ \E f \in todo :
          /\ tree' = Written({f}, "whole")
          /\ IF todo = {f} THEN AfterUnpack
             ELSE todo' = todo \ {f} /\ UNCHANGED <<pc, part>>
    /\ UNCHANGED <<choice, archive, marker, found, kills, bumps>>

\* The download is removed before the marker is touched.
Tidy ==
    /\ pc = "tidy" /\ Goto("mark")
    /\ archive' = [archive EXCEPT ![part] = NoArchive]
    /\ UNCHANGED <<choice, tree, marker, found, kills, bumps>>

Mark ==
    /\ pc = "mark" /\ Onward
    /\ marker' = [marker EXCEPT ![part] = @ \cup {pin}]
    /\ UNCHANGED <<choice, archive, tree, found, kills, bumps>>

\* The versions whose files the targets may be made of: MKL takes the first hit
\* of a glob, PocketFFT and IPP what stands in their directory, ArmPL the path
\* of the version.
Usable(p) ==
    IF vendored # None THEN {vendored}
    ELSE IF fetcher = "armpl" THEN {v \in {pin} : Exists(p, v, "rest")}
    ELSE IF fetcher = "ipp" THEN {v \in Version : \A f \in File : Exists(p, v, f)}
    ELSE {v \in Version : Exists(p, v, "main")}

\* The targets are declared, if there is something to make them of.
Use ==
    /\ pc = "use" /\ Stop
    /\ IF \A p \in Parts : Usable(p) # {}
       THEN found' \in {g \in [Parts -> Version] : \A p \in Parts : g[p] \in Usable(p)}
       ELSE UNCHANGED found
    /\ UNCHANGED <<choice, disk, kills, bumps>>

Step == LookVendored \/ Look \/ Peel \/ Unpack \/ Tidy \/ Mark \/ Use

\* The configure is killed, or a step other than a download fails; a file that
\* was being written stays cut short.
Kill ==
    /\ pc # "idle" /\ Stop
    /\ kills < MaxKills /\ kills' = kills + 1
    /\ \/ UNCHANGED disk
       \/ pc = "download" /\ Transferred("cut") /\ UNCHANGED marker
       \/ /\ pc = "unpack"
          /\ \E f \in todo : tree' = Written({f}, "cut")
          /\ UNCHANGED <<archive, marker>>
    /\ UNCHANGED <<choice, found, bumps>>

\* Another version is asked for, by cache variables or by a newer commit whose
\* directories CI restores from the cache of an older one.  ArmPL's URL is a
\* cache variable, made from the version once: it stays if it is not set too.
Bump ==
    /\ pc = "idle"
    /\ bumps < MaxBumps /\ bumps' = bumps + 1
    /\ pin' \in Version \ {pin}
    /\ url' \in {pin'} \cup (IF fetcher = "armpl" THEN {url} ELSE {})
    /\ found' = NotFound
    /\ UNCHANGED <<fetcher, vendored, pc, part, todo, disk, kills>>

Next == Start \/ Step \/ Download \/ DownloadFails \/ Kill \/ Bump

Spec == Init /\ [][Next]_vars

\* A configure that has not succeeded is started again, a running one goes on,
\* and the network does not fail for ever.
FairSpec ==
    /\ Spec
    /\ WF_vars(found = NotFound /\ Start)
    /\ WF_vars(Step)
    /\ SF_vars(Download)

-----------------------------------------------------------------------------
Configured == found # NotFound

\* Every variable keeps its shape; only MKL has two parts.
TypeOK ==
    /\ pin \in Version /\ url \in Version /\ vendored \in Version \cup {None}
    /\ pc \in {"idle", "look", "download", "peel", "unpack", "tidy", "mark", "use"}
    /\ part \in IF pc = "idle" THEN {None} ELSE Parts
    /\ todo \subseteq File /\ (pc = "unpack") = (todo # {})
    /\ archive \in [Parts -> [version : Version \cup {None}, content : Content]]
    /\ tree \in [Parts -> [Version -> [File -> Content]]]
    /\ marker \in [Parts -> SUBSET Version]
    /\ found \in [Parts -> Version] \cup {NotFound}

\* Wherever earlier configures were killed, a tree that a marker vouches for is
\* complete: the marker is the last thing written, and nothing touches a marked
\* tree again.
MarkedIsWhole ==
    \A p \in Parts : \A v \in marker[p] : Whole(p, v)

\* The configures that promise the version asked for, whole.  ArmPL and a
\* vendored header always do.  MKL's marker names no version, so it does until
\* the version is changed.  The other two take a file of the tree for a marker:
\* they do as long as, besides, no configure was killed.
Promises ==
    \/ fetcher = "armpl" \/ vendored # None
    \/ bumps = 0 /\ (fetcher = "mkl" \/ kills = 0)

\* A configure that succeeds makes its targets of a complete tree of the version
\* asked for.
UsesWhatIsPinned ==
    Configured /\ Promises =>
        \A p \in Parts :
            found[p] = pin /\ (vendored = pin \/ Whole(p, pin))

\* The build directories no configure gets out of: a tarball that is cut or of
\* another version, which ArmPL does not replace, and a URL that leads to one;
\* libipps.a without the rest;
\* and, on purpose, a vendored header that is not the one asked for.
Wedged ==
    CASE fetcher = "armpl" ->
            url # pin \/ archive["all"] \notin {NoArchive, Archived(pin)}
      [] fetcher = "ipp" ->
            \E v \in Version : Exists("all", v, "main") /\ Usable("all") = {}
      [] vendored # None -> vendored # pin
      [] OTHER -> FALSE

\* After any number of kills and failed downloads, starting the configure again
\* gets there, except from the directories named above.
Recovers == ~Configured ~> Configured \/ Wedged

=============================================================================
