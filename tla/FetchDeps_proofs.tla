-------------------------- MODULE FetchDeps_proofs --------------------------
(***************************************************************************)
(* What the fetchers leave behind can be relied on for every set of        *)
(* versions and any number of killed configures and changed versions.      *)
(*                                                                         *)
(* The inductive invariant adds to MarkedIsWhole what a script knows at    *)
(* each of its steps: that the tree it works on is not marked yet, and     *)
(* which of its files are in place (IInv).  UsesWhatIsPinned needs besides *)
(* where anything of another version, or cut short, can come from (UInv).  *)
(***************************************************************************)
EXTENDS FetchDeps, TLAPS

Fetching == pc \in {"download", "peel", "unpack", "tidy", "mark"}

\* Which fetcher comes to which step; the two that take a file of the tree for
\* a marker write no marker.
KnowsItsSteps ==
    /\ fetcher \in {"mkl", "armpl", "pocketfft", "ipp"}
    /\ vendored # None => fetcher = "pocketfft"
    /\ pc = "download" => fetcher # "ipp"
    /\ pc = "peel" => fetcher = "armpl"
    /\ pc = "unpack" => fetcher # "pocketfft"
    /\ pc \in {"tidy", "mark"} => fetcher \in {"mkl", "armpl"}
    /\ fetcher \in {"pocketfft", "ipp"} => \A p \in Parts : marker[p] = {}

\* What is being fetched is not marked, so no marked tree is written to.
FetchesUnmarked == Fetching => pin \notin marker[part]

\* The files that are no longer to be unpacked are there.
UnpacksAll ==
    /\ pc = "unpack" => \A f \in File \ todo : tree[part][pin][f] = "whole"
    /\ pc \in {"tidy", "mark"} => Whole(part, pin)

IInv ==
    /\ TypeOK
    /\ KnowsItsSteps
    /\ FetchesUnmarked
    /\ UnpacksAll
    /\ MarkedIsWhole

-----------------------------------------------------------------------------
\* A script that unpacks or marks writes to the tree of the pinned version only.
LEMMA WritesThePinned ==
    ASSUME TypeOK, part \in Parts, fetcher \in {"mkl", "armpl"},
           NEW files \in SUBSET File, NEW content \in Content,
           NEW p \in Parts, NEW v \in Version, NEW f \in File
    PROVE  Written(files, content)[p][v][f] =
              IF p = part /\ v = pin /\ f \in files THEN content ELSE tree[p][v][f]
BY DEF TypeOK, Written

\* Writing keeps the shape of the tree.
LEMMA WrittenType ==
    ASSUME TypeOK, part \in Parts,
           NEW files \in SUBSET File, NEW content \in Content
    PROVE  Written(files, content) \in [Parts -> [Version -> [File -> Content]]]
<1>1. \A v \in Version, f \in File : tree[part][v][f] \in Content
  BY DEF TypeOK
<1>2. "absent" \in Content  BY DEF Content
<1> QED BY <1>1, <1>2 DEF TypeOK, Written

\* In an empty build directory nothing is marked, so nothing is vouched for.
LEMMA InitIInv == Init => IInv
BY FetchersAssumption, VersionAssumption
   DEF Init, IInv, TypeOK, KnowsItsSteps, FetchesUnmarked, UnpacksAll, MarkedIsWhole,
       Fetching, Parts, NotFound, Empty, File, Content, NoArchive, Whole, None

-----------------------------------------------------------------------------

\* Where a script may go on to.
LEMMA StepTypes ==
    ASSUME TypeOK, pc # "idle"
    PROVE  /\ part \in Parts /\ pin \in Version
           /\ part = "include" => fetcher = "mkl"
BY DEF TypeOK, Parts

\* Starting a configure reads and writes no file.
LEMMA StartStep == IInv /\ Start => IInv'
BY DEF IInv, Start, TypeOK, KnowsItsSteps, FetchesUnmarked, UnpacksAll, MarkedIsWhole,
       Fetching, Parts, NotFound, File, Whole, choice, disk

\* The check of a vendored header writes nothing.
LEMMA LookVendoredStep == IInv /\ LookVendored => IInv'
BY StepTypes
   DEF IInv, LookVendored, TypeOK, KnowsItsSteps, FetchesUnmarked, UnpacksAll,
       MarkedIsWhole, Fetching, Parts, NotFound, File, Whole, choice, disk, Onward,
       Stop, Goto

\* A script goes on to fetch only what it finds unmarked.
LEMMA LookStep == IInv /\ Look => IInv'
BY StepTypes
   DEF IInv, Look, TypeOK, KnowsItsSteps, FetchesUnmarked, UnpacksAll,
       MarkedIsWhole, Fetching, Parts, NotFound, File, Whole, choice, disk, Onward,
       Goto, Marked, None

\* Taking the tarball apart writes no file of the tree.
LEMMA PeelStep == IInv /\ Peel => IInv'
BY StepTypes
   DEF IInv, Peel, TypeOK, KnowsItsSteps, FetchesUnmarked, UnpacksAll,
       MarkedIsWhole, Fetching, Parts, NotFound, File, Whole, choice, disk, Stop, Goto

\* Removing the download leaves the unpacked tree complete.
LEMMA TidyStep == IInv /\ Tidy => IInv'
BY StepTypes
   DEF IInv, Tidy, TypeOK, KnowsItsSteps, FetchesUnmarked, UnpacksAll,
       MarkedIsWhole, Fetching, Parts, NotFound, File, Whole, choice, Goto,
       NoArchive, Content, None

\* The marker is touched when every file is in place.
LEMMA MarkStep == IInv /\ Mark => IInv'
BY StepTypes
   DEF IInv, Mark, TypeOK, KnowsItsSteps, FetchesUnmarked, UnpacksAll,
       MarkedIsWhole, Fetching, Parts, NotFound, File, Whole, choice, Onward, Goto

\* Declaring the targets writes nothing.
LEMMA UseStep == IInv /\ Use => IInv'
BY StepTypes
   DEF IInv, Use, TypeOK, KnowsItsSteps, FetchesUnmarked, UnpacksAll,
       MarkedIsWhole, Fetching, Parts, NotFound, File, Whole, choice, disk, Stop

\* Another version changes no file; it is asked for while no script runs.
LEMMA BumpStep == IInv /\ Bump => IInv'
BY DEF IInv, Bump, TypeOK, KnowsItsSteps, FetchesUnmarked, UnpacksAll,
       MarkedIsWhole, Fetching, Parts, NotFound, File, Whole, disk

\* A download writes the archive or, for PocketFFT, a tree that has no marker.
LEMMA DownloadStep == IInv /\ Download => IInv'
<1> SUFFICES ASSUME IInv, Download  PROVE IInv'
  OBVIOUS
<1> USE DEF choice
<1>1. /\ part \in Parts /\ pc = "download" /\ fetcher # "ipp" /\ TypeOK
      /\ Parts' = Parts /\ NotFound' = NotFound
  BY StepTypes DEF IInv, KnowsItsSteps, Download, Parts, NotFound
<1>2. CASE fetcher = "pocketfft"
  <2>1. /\ part = "all" /\ part' = "all" /\ pc' = "use" /\ todo' = {}
        /\ tree' = Written(File, "whole")
        /\ UNCHANGED <<fetcher, pin, url, vendored, archive, marker, found>>
    BY <1>1, <1>2 DEF Download, Transferred, Onward, Goto, Parts
  <2>2. tree' \in [Parts -> [Version -> [File -> Content]]]
    BY <1>1, <2>1, WrittenType DEF Content
  <2>3. TypeOK'
    BY <1>1, <2>1, <2>2 DEF TypeOK
  <2> QED BY <1>1, <1>2, <2>1, <2>3
          DEF IInv, KnowsItsSteps, FetchesUnmarked, Fetching, UnpacksAll, MarkedIsWhole
<1>3. CASE fetcher \in {"mkl", "armpl"}
  <2>1. /\ part' = part /\ pc' \in {"unpack", "peel"}
        /\ pc' = "unpack" => fetcher = "mkl" /\ todo' = File
        /\ pc' = "peel" => fetcher = "armpl" /\ todo' = {}
        /\ archive' = [archive EXCEPT ![part] = [version |-> url, content |-> "whole"]]
        /\ UNCHANGED <<fetcher, pin, url, vendored, tree, marker, found>>
    BY <1>1, <1>3 DEF Download, Transferred, Goto
  <2>2. archive' \in [Parts -> [version : Version \cup {None}, content : Content]]
    BY <1>1, <2>1 DEF TypeOK, Content
  <2>3. TypeOK'
    BY <1>1, <2>1, <2>2 DEF TypeOK, File
  <2> QED BY <1>1, <1>3, <2>1, <2>3
          DEF IInv, KnowsItsSteps, FetchesUnmarked, Fetching, UnpacksAll,
              MarkedIsWhole, Whole
<1> QED BY <1>1, <1>2, <1>3 DEF IInv, KnowsItsSteps

\* Wherever a configure stops, markers are right if the marked trees are whole.
LEMMA StopsAnywhere ==
    ASSUME IInv, Stop, UNCHANGED <<fetcher, pin, url, vendored, marker, found>>,
           archive' \in [Parts -> [version : Version \cup {None}, content : Content]],
           tree' \in [Parts -> [Version -> [File -> Content]]],
           \A p \in Parts : \A v \in marker[p] : \A f \in File : tree'[p][v][f] = "whole"
    PROVE  IInv'
<1>1. Parts' = Parts /\ NotFound' = NotFound
  BY DEF Parts, NotFound
<1>2. TypeOK'
  BY <1>1 DEF IInv, TypeOK, Stop
<1> QED BY <1>1, <1>2
        DEF IInv, KnowsItsSteps, FetchesUnmarked, Fetching, UnpacksAll, MarkedIsWhole,
            Whole, Stop

\* A transfer, complete or not, leaves marked trees whole.
LEMMA TransferredKeeps ==
    ASSUME IInv, pc = "download", NEW content \in Content, Transferred(content)
    PROVE  /\ archive' \in [Parts -> [version : Version \cup {None}, content : Content]]
           /\ tree' \in [Parts -> [Version -> [File -> Content]]]
           /\ \A p \in Parts : \A v \in marker[p] : \A f \in File :
                 tree'[p][v][f] = "whole"
<1>1. part \in Parts /\ TypeOK /\ "absent" \in Content
  BY StepTypes DEF IInv, Content
<1>2. CASE fetcher = "pocketfft"
  <2>1. tree' = Written(File, content) /\ archive' = archive
    BY <1>2 DEF Transferred
  <2>2. \A p \in Parts : marker[p] = {}
    BY <1>2 DEF IInv, KnowsItsSteps
  <2> QED BY <1>1, <2>1, <2>2, WrittenType DEF TypeOK
<1>3. CASE fetcher # "pocketfft"
  <2>1. tree' = tree
    BY <1>3 DEF Transferred
  <2>2. \E a \in [version : Version \cup {None}, content : Content] :
           archive' = [archive EXCEPT ![part] = a]
    BY <1>1, <1>3 DEF Transferred, NoArchive, TypeOK
  <2>3. archive' \in [Parts -> [version : Version \cup {None}, content : Content]]
    BY <1>1, <2>2 DEF TypeOK
  <2> QED BY <1>1, <2>1, <2>3 DEF IInv, TypeOK, MarkedIsWhole, Whole
<1> QED BY <1>2, <1>3

\* A failed download leaves marked trees whole.
LEMMA DownloadFailsStep == IInv /\ DownloadFails => IInv'
<1> SUFFICES ASSUME IInv, DownloadFails  PROVE IInv'
  OBVIOUS
<1>1. pc = "download" /\ Stop /\ Transferred("absent") /\ "absent" \in Content
  BY DEF DownloadFails, Content
<1>2. UNCHANGED <<fetcher, pin, url, vendored, marker, found>>
  BY DEF DownloadFails, choice
<1> QED BY <1>1, <1>2, TransferredKeeps, StopsAnywhere

\* Unpacking a file, or a part of it, writes to no marked tree.
LEMMA UnpackKeeps ==
    ASSUME IInv, pc = "unpack", NEW f \in todo, NEW content \in Content,
           tree' = Written({f}, content)
    PROVE  /\ tree' \in [Parts -> [Version -> [File -> Content]]]
           /\ \A p \in Parts : \A v \in marker[p] : \A g \in File :
                 tree'[p][v][g] = "whole"
           /\ \A g \in File :
                 tree'[part][pin][g] = IF g = f THEN content ELSE tree[part][pin][g]
<1>1. part \in Parts /\ TypeOK /\ {f} \in SUBSET File /\ pin \in Version
  BY StepTypes DEF IInv, TypeOK
<1>2. tree' \in [Parts -> [Version -> [File -> Content]]]
  BY <1>1, WrittenType
<1>3. ASSUME NEW p \in Parts, NEW v \in marker[p], NEW g \in File
      PROVE  tree'[p][v][g] = "whole"
  <2>1. v \in Version /\ fetcher \in {"mkl", "armpl"}
    BY <1>1 DEF IInv, TypeOK, KnowsItsSteps
  <2>2. tree'[p][v][g] = IF p = part /\ v = pin /\ g \in {f} THEN content ELSE tree[p][v][g]
    BY <1>1, <2>1, WritesThePinned
  <2>3. ~(p = part /\ v = pin)
    BY DEF IInv, FetchesUnmarked, Fetching
  <2> QED BY <2>2, <2>3 DEF IInv, MarkedIsWhole, Whole
<1>4. \A g \in File :
         tree'[part][pin][g] = IF g = f THEN content ELSE tree[part][pin][g]
  BY <1>1 DEF Written, TypeOK
<1> QED BY <1>2, <1>3, <1>4

\* A tree whose last file is unpacked is complete.
LEMMA UnpackStep == IInv /\ Unpack => IInv'
<1> SUFFICES ASSUME IInv, Unpack  PROVE IInv'
  OBVIOUS
<1> USE DEF choice
<1>1. PICK f \in todo :
         /\ tree' = Written({f}, "whole")
         /\ IF todo = {f} THEN AfterUnpack
            ELSE todo' = todo \ {f} /\ UNCHANGED <<pc, part>>
  BY DEF Unpack
<1>2. /\ pc = "unpack" /\ part \in Parts /\ TypeOK /\ "whole" \in Content
      /\ UNCHANGED <<fetcher, pin, url, vendored, archive, marker, found>>
  BY StepTypes DEF IInv, Unpack, Content
<1>3. /\ tree' \in [Parts -> [Version -> [File -> Content]]]
      /\ \A p \in Parts : \A v \in marker[p] : \A g \in File :
            tree'[p][v][g] = "whole"
      /\ \A g \in File :
            tree'[part][pin][g] = IF g = f THEN "whole" ELSE tree[part][pin][g]
  <2>1. tree' = Written({f}, "whole") /\ IInv
    BY <1>1
  <2> QED BY <1>2, <2>1, UnpackKeeps
<1>4. \A g \in File \ (todo \ {f}) : tree'[part][pin][g] = "whole"
  BY <1>2, <1>3 DEF IInv, UnpacksAll
<1>5. /\ part' = part
      /\ \/ pc' = "unpack" /\ todo' = todo \ {f} /\ todo' # {}
         \/ pc' = "use" /\ todo' = {}
         \/ pc' = "tidy" /\ todo' = {} /\ todo = {f} /\ fetcher \in {"mkl", "armpl"}
  BY <1>1, <1>2 DEF AfterUnpack, Goto, IInv, KnowsItsSteps
<1>6. Parts' = Parts /\ NotFound' = NotFound
  BY <1>2 DEF Parts, NotFound
<1>7. TypeOK'
  BY <1>2, <1>3, <1>5, <1>6 DEF TypeOK
<1>8. MarkedIsWhole'
  BY <1>2, <1>3, <1>6 DEF MarkedIsWhole, Whole
<1>9. UnpacksAll'
  BY <1>2, <1>4, <1>5 DEF UnpacksAll, Whole
<1>10. KnowsItsSteps' /\ FetchesUnmarked'
  BY <1>2, <1>5, <1>6 DEF IInv, KnowsItsSteps, FetchesUnmarked, Fetching
<1> QED BY <1>7, <1>8, <1>9, <1>10 DEF IInv

\* A configure killed at any step leaves marked trees whole.
LEMMA KillStep == IInv /\ Kill => IInv'
<1> SUFFICES ASSUME IInv, Kill  PROVE IInv'
  OBVIOUS
<1>1. Stop /\ UNCHANGED <<fetcher, pin, url, vendored, found>> /\ "cut" \in Content
  BY DEF Kill, choice, Content
<1>2. CASE UNCHANGED disk
  BY <1>1, <1>2, StopsAnywhere DEF disk, IInv, TypeOK, MarkedIsWhole, Whole
<1>3. CASE pc = "download" /\ Transferred("cut") /\ UNCHANGED marker
  BY <1>1, <1>3, TransferredKeeps, StopsAnywhere
<1>4. ASSUME pc = "unpack", NEW f \in todo, tree' = Written({f}, "cut"),
             UNCHANGED <<archive, marker>>
      PROVE  IInv'
  BY <1>1, <1>4, UnpackKeeps, StopsAnywhere DEF IInv, TypeOK
<1> QED BY <1>2, <1>3, <1>4 DEF Kill

\* Every step of the fetchers keeps the invariant.
LEMMA IInvStep == IInv /\ [Next]_vars => IInv'
<1>1. IInv /\ UNCHANGED vars => IInv'
  BY DEF vars, choice, disk, IInv, TypeOK, KnowsItsSteps, FetchesUnmarked, Fetching,
         UnpacksAll, MarkedIsWhole, Whole, Parts, NotFound
<1> QED BY <1>1, StartStep, LookVendoredStep, LookStep, PeelStep, UnpackStep, TidyStep,
           MarkStep, UseStep, DownloadStep, DownloadFailsStep, KillStep, BumpStep
        DEF Next, Step

\* The invariant holds in every behaviour of the fetchers.
LEMMA IInvCorrect == Spec => []IInv
BY InitIInv, IInvStep, PTL DEF Spec

-----------------------------------------------------------------------------
\* Every variable keeps its shape, through kills and changed versions.
THEOREM TypeCorrect == Spec => []TypeOK
BY IInvCorrect, PTL DEF IInv

\* A tree that a marker vouches for is complete: no script writes to a tree it
\* has marked, and it marks one only when every file is in place.
THEOREM MarkedCorrect == Spec => []MarkedIsWhole
BY IInvCorrect, PTL DEF IInv

-----------------------------------------------------------------------------
\* The targets are only declared by the last step of a configure.
FoundAtRest == found # NotFound => pc = "idle"

\* Until the version is changed there is nothing of any other.
NothingOlder ==
    bumps = 0 => \A p \in Parts : \A v \in Version \ {pin} :
        v \notin marker[p] /\ \A f \in File : tree[p][v][f] = "absent"

\* Only a killed configure leaves a file cut short.
NothingCut ==
    kills = 0 => \A p \in Parts, v \in Version, f \in File : tree[p][v][f] # "cut"

\* PocketFFT is one header.
OneHeader ==
    fetcher = "pocketfft" =>
        \A p \in Parts, v \in Version : tree[p][v]["main"] = tree[p][v]["rest"]

\* What has been looked at before the targets are declared.
LooksFirst ==
    /\ part = "static" => marker["include"] # {}
    /\ pc = "use" /\ fetcher = "mkl" => \A p \in Parts : marker[p] # {}
    /\ pc = "use" /\ fetcher = "armpl" => \A p \in Parts : pin \in marker[p]
    /\ pc = "use" /\ vendored # None => vendored = pin
    /\ Fetching => vendored = None

UInv ==
    /\ IInv
    /\ kills \in Nat /\ bumps \in Nat
    /\ FoundAtRest
    /\ NothingOlder
    /\ NothingCut
    /\ OneHeader
    /\ LooksFirst
    /\ UsesWhatIsPinned

TreeInv == NothingOlder /\ NothingCut /\ OneHeader

\* An empty build directory has no targets and no files.
LEMMA InitUInv == Init => UInv
<1> SUFFICES ASSUME Init  PROVE UInv
  OBVIOUS
<1>1. IInv
  BY InitIInv
<1>2. FoundAtRest /\ UsesWhatIsPinned
  BY DEF Init, FoundAtRest, UsesWhatIsPinned, Configured
<1>3. TreeInv
  BY DEF Init, TreeInv, NothingOlder, NothingCut, OneHeader, Empty, File
<1>4. LooksFirst
  BY DEF Init, LooksFirst, Fetching, None
<1> QED BY <1>1, <1>2, <1>3, <1>4 DEF UInv, TreeInv, Init

\* What leaves files, markers and the version alone keeps what is known of them.
LEMMA TreeKept ==
    ASSUME UInv, UNCHANGED <<fetcher, pin, tree, marker, kills, bumps>>
    PROVE  TreeInv' /\ kills' \in Nat /\ bumps' \in Nat
BY DEF UInv, TreeInv, NothingOlder, NothingCut, OneHeader, Parts

\* A script writes files of its version; of the others it only removes any.
LEMMA WritesOneVersion ==
    ASSUME UInv, part \in Parts, NEW files \in SUBSET File, NEW content \in Content,
           NEW p \in Parts, NEW v \in Version, NEW f \in File
    PROVE  LET w == Written(files, content)[p][v][f] IN
           /\ w \in {tree[p][v][f], content, "absent"}
           /\ v # pin => w \in {tree[p][v][f], "absent"}
BY DEF UInv, IInv, TypeOK, Written

\* What is written is of the version asked for, and cut only by a kill.
LEMMA TreeWritten ==
    ASSUME UInv, part \in Parts, NEW files \in SUBSET File, NEW content \in Content,
           tree' = Written(files, content), UNCHANGED <<fetcher, pin, marker, bumps>>,
           fetcher = "pocketfft" => files = File,
           kills' \in Nat, kills' = 0 => kills = 0 /\ content # "cut"
    PROVE  TreeInv'
<1>1. Parts' = Parts /\ TypeOK
  BY DEF Parts, UInv, IInv
<1>2. NothingOlder'
  BY <1>1, WritesOneVersion DEF UInv, NothingOlder
<1>3. NothingCut'
  BY <1>1, WritesOneVersion DEF UInv, NothingCut
<1>4. OneHeader'
  BY <1>1 DEF UInv, OneHeader, Written, TypeOK, File
<1> QED BY <1>2, <1>3, <1>4 DEF TreeInv

\* While a configure runs there are no targets yet.
LEMMA NothingFound ==
    ASSUME UInv, UNCHANGED fetcher,
           found' = NotFound \/ (pc # "idle" /\ found' = found)
    PROVE  FoundAtRest' /\ UsesWhatIsPinned'
<1>1. NotFound' = NotFound /\ found' = NotFound
  BY DEF UInv, FoundAtRest, NotFound, Parts
<1> QED BY <1>1 DEF FoundAtRest, UsesWhatIsPinned, Configured

\* The parts of each fetcher.
LEMMA TypesAtHand ==
    ASSUME UInv
    PROVE  /\ TypeOK /\ (pc # "idle" => part \in Parts) /\ Parts \subseteq {"include", "static", "all"}
           /\ part = "static" => fetcher = "mkl"
           /\ part = "include" => fetcher = "mkl"
           /\ fetcher = "mkl" => Parts = {"include", "static"}
           /\ fetcher # "mkl" => Parts = {"all"}
BY DEF UInv, IInv, TypeOK, Parts, None

\* A configure that has stopped has nothing to have looked at.
LEMMA StopLooks ==
    ASSUME Stop
    PROVE  LooksFirst'
BY DEF Stop, LooksFirst, Fetching, None

\* No script gets to its targets past an unmarked tree.
LEMMA LooksFirstKept ==
    ASSUME UInv,
           \/ Start \/ LookVendored \/ Look \/ Peel \/ Unpack \/ Tidy \/ Mark
           \/ Download
    PROVE  LooksFirst'
<1> USE TypesAtHand DEF choice, disk
<1>0. Parts' = Parts
  BY DEF Parts, Start, LookVendored, Look, Peel, Unpack, Tidy, Mark, Download
<1>1. CASE Start
  BY <1>1 DEF Start, LooksFirst, Fetching
<1>2. CASE LookVendored
  BY <1>0, <1>2, StopLooks DEF LookVendored, LooksFirst, Fetching, Onward, Goto, UInv, IInv, KnowsItsSteps
<1>3. CASE Look
  BY <1>0, <1>3 DEF Look, LooksFirst, Fetching, Onward, Goto, UInv, Marked
<1>4. CASE Peel
  BY <1>0, <1>4, StopLooks DEF Peel, LooksFirst, Fetching, Goto, UInv
<1>5. CASE Unpack
  BY <1>0, <1>5 DEF Unpack, AfterUnpack, LooksFirst, Fetching, Goto, UInv
<1>6. CASE Tidy
  BY <1>0, <1>6 DEF Tidy, LooksFirst, Fetching, Goto, UInv
<1>7. CASE Mark
  <2>1. /\ marker' = [marker EXCEPT ![part] = @ \cup {pin}]
        /\ Onward /\ pc = "mark" /\ UNCHANGED <<fetcher, pin, vendored>>
    BY <1>7 DEF Mark
  <2>2. part \in Parts /\ marker \in [Parts -> SUBSET Version]
    BY <2>1 DEF TypeOK
  <2>3. \A p \in Parts : marker[p] \subseteq marker'[p]
    BY <2>1, <2>2
  <2>4. pin \in marker'[part]
    BY <2>1, <2>2
  <2> QED BY <1>0, <2>1, <2>2, <2>3, <2>4
          DEF LooksFirst, Fetching, Onward, Goto, UInv
<1>8. CASE Download
  BY <1>0, <1>8 DEF Download, LooksFirst, Fetching, Onward, Goto, UInv, IInv, KnowsItsSteps
<1> QED BY <1>1, <1>2, <1>3, <1>4, <1>5, <1>6, <1>7, <1>8

\* What the targets can be made of is the version asked for, whole.
LEMMA UsableIsPinned ==
    ASSUME UInv, Promises, pc = "use", NEW p \in Parts, NEW v \in Usable(p)
    PROVE  v = pin /\ (vendored = pin \/ Whole(p, pin))
<1> USE TypesAtHand
<1>0. /\ fetcher \in {"mkl", "armpl", "pocketfft", "ipp"}
      /\ tree \in [Parts -> [Version -> [File -> Content]]]
      /\ marker \in [Parts -> SUBSET Version]
      /\ pin \in Version
  BY DEF UInv, IInv, KnowsItsSteps, TypeOK
<1>1. CASE vendored # None
  BY <1>1 DEF Usable, UInv, LooksFirst
<1>2. CASE vendored = None /\ fetcher = "armpl"
  <2>1. v = pin
    BY <1>2 DEF Usable
  <2> QED BY <1>2, <2>1 DEF UInv, LooksFirst, IInv, MarkedIsWhole
<1>3. CASE vendored = None /\ fetcher = "mkl"
  <2>1. bumps = 0
    BY <1>3 DEF Promises
  <2>2. v = pin
    BY <1>0, <1>3, <2>1 DEF Usable, Exists, UInv, NothingOlder, File
  <2>3. pin \in marker[p]
    BY <1>0, <1>3, <2>1 DEF UInv, NothingOlder, LooksFirst
  <2> QED BY <2>2, <2>3 DEF UInv, IInv, MarkedIsWhole
<1>4. CASE vendored = None /\ fetcher \in {"pocketfft", "ipp"}
  <2>1. bumps = 0 /\ kills = 0
    BY <1>4 DEF Promises
  <2>2. v \in Version /\ \A f \in File : Exists(p, v, f)
    BY <1>4 DEF Usable, UInv, OneHeader, Exists, File
  <2>3. v = pin
    BY <2>1, <2>2 DEF UInv, NothingOlder, Exists, File
  <2>4. \A f \in File : tree[p][v][f] \in Content /\ tree[p][v][f] # "cut"
    BY <1>0, <2>1, <2>2 DEF UInv, NothingCut
  <2> QED BY <2>2, <2>3, <2>4 DEF Whole, Exists, Content
<1> QED BY <1>0, <1>1, <1>2, <1>3, <1>4

\* Declaring the targets takes what is usable.
LEMMA UseKeeps == UInv /\ Use => UInv'
<1> SUFFICES ASSUME UInv, Use  PROVE UInv'
  OBVIOUS
<1>1. IInv'
  BY UseStep DEF UInv
<1>2. /\ pc = "use" /\ Stop /\ pc' = "idle"
      /\ UNCHANGED <<fetcher, pin, vendored, tree, marker, kills, bumps>>
  BY DEF Use, Stop, choice, disk
<1>3. TreeInv' /\ kills' \in Nat /\ bumps' \in Nat
  BY <1>2, TreeKept
<1>4. LooksFirst' /\ FoundAtRest'
  BY <1>2, StopLooks DEF FoundAtRest
<1>5. UsesWhatIsPinned'
  <2> SUFFICES ASSUME Configured', Promises', NEW p \in Parts'
               PROVE  /\ found'[p] = pin'
                      /\ (vendored' = pin' \/ Whole(p, pin)')
    BY DEF UsesWhatIsPinned
  <2>1. Promises /\ Parts' = Parts /\ NotFound' = NotFound
    BY <1>2 DEF Promises, Parts, NotFound
  <2>2. found = NotFound
    BY <1>2 DEF UInv, FoundAtRest
  <2>3. found'[p] \in Usable(p)
    BY <2>1, <2>2 DEF Use, Configured
  <2>4. found'[p] = pin /\ (vendored = pin \/ Whole(p, pin))
    BY <1>2, <2>1, <2>3, UsableIsPinned
  <2> QED BY <1>2, <2>4 DEF Whole
<1> QED BY <1>1, <1>3, <1>4, <1>5 DEF UInv, TreeInv

\* The steps of a configure that leave its files alone.
LEMMA QuietKeeps ==
    ASSUME UInv, Start \/ LookVendored \/ Look \/ Peel \/ Tidy
    PROVE  UInv'
<1>1. IInv'
  BY StartStep, LookVendoredStep, LookStep, PeelStep, TidyStep DEF UInv
<1>2. /\ UNCHANGED <<fetcher, pin, tree, marker, kills, bumps>>
      /\ found' = NotFound \/ (pc # "idle" /\ found' = found)
  BY DEF Start, LookVendored, Look, Peel, Tidy, choice, disk
<1>3. TreeInv' /\ kills' \in Nat /\ bumps' \in Nat
  BY <1>2, TreeKept
<1>4. FoundAtRest' /\ UsesWhatIsPinned'
  BY <1>2, NothingFound
<1> QED BY <1>1, <1>3, <1>4, LooksFirstKept DEF UInv, TreeInv

\* A marker is of the version asked for.
LEMMA MarkKeeps == UInv /\ Mark => UInv'
<1> SUFFICES ASSUME UInv, Mark  PROVE UInv'
  OBVIOUS
<1>1. IInv' /\ LooksFirst'
  BY MarkStep, LooksFirstKept DEF UInv
<1>2. /\ UNCHANGED <<fetcher, pin, tree, kills, bumps, found>> /\ pc # "idle"
      /\ marker' = [marker EXCEPT ![part] = @ \cup {pin}] /\ Parts' = Parts
  BY DEF Mark, choice, Parts
<1>3. FoundAtRest' /\ UsesWhatIsPinned'
  BY <1>2, NothingFound
<1>4. \A p \in Parts : marker'[p] \subseteq marker[p] \cup {pin}
  BY <1>2 DEF UInv, IInv, TypeOK
<1>5. TreeInv' /\ kills' \in Nat /\ bumps' \in Nat
  BY <1>2, <1>4 DEF UInv, TreeInv, NothingOlder, NothingCut, OneHeader
<1> QED BY <1>1, <1>3, <1>5 DEF UInv, TreeInv

\* What a transfer writes besides the archive.
\* A transfer that was not killed leaves nothing cut.
LEMMA TransferWrites ==
    ASSUME UInv, pc = "download", NEW content \in Content, Transferred(content),
           UNCHANGED <<fetcher, pin, marker, bumps>>, kills' \in Nat,
           kills' = 0 => kills = 0 /\ content # "cut"
    PROVE  TreeInv'
<1>1. part \in Parts
  BY TypesAtHand
<1>2. CASE fetcher = "pocketfft"
  BY <1>1, <1>2, TreeWritten DEF Transferred
<1>3. CASE fetcher # "pocketfft"
  BY <1>3 DEF Transferred, UInv, TreeInv, NothingOlder, NothingCut, OneHeader, Parts
<1> QED BY <1>2, <1>3

\* Downloads, complete or failed, write the version asked for.
LEMMA DownloadKeeps == UInv /\ (Download \/ DownloadFails) => UInv'
<1> SUFFICES ASSUME UInv, Download \/ DownloadFails  PROVE UInv'
  OBVIOUS
<1>1. IInv'
  BY DownloadStep, DownloadFailsStep DEF UInv
<1>2. /\ UNCHANGED <<fetcher, pin, marker, kills, bumps, found>> /\ pc = "download"
      /\ kills \in Nat /\ bumps \in Nat
  BY DEF Download, DownloadFails, choice, UInv
<1>3. FoundAtRest' /\ UsesWhatIsPinned'
  BY <1>2, NothingFound
<1>4. "whole" \in Content /\ "absent" \in Content
  BY DEF Content
<1>5. TreeInv'
  BY <1>2, <1>4, TransferWrites DEF Download, DownloadFails
<1>6. LooksFirst'
  BY LooksFirstKept, StopLooks DEF DownloadFails
<1> QED BY <1>1, <1>2, <1>3, <1>5, <1>6 DEF UInv, TreeInv

\* PocketFFT, whose header is one file, is not unpacked.
LEMMA UnpackWrites ==
    ASSUME UInv, pc = "unpack", NEW f \in todo, NEW content \in Content,
           tree' = Written({f}, content),
           UNCHANGED <<fetcher, pin, marker, bumps>>, kills' \in Nat,
           kills' = 0 => kills = 0 /\ content # "cut"
    PROVE  TreeInv'
<1>1. part \in Parts /\ {f} \in SUBSET File /\ fetcher # "pocketfft"
  BY TypesAtHand DEF TypeOK, UInv, IInv, KnowsItsSteps
<1> QED BY <1>1, TreeWritten

\* Unpacking writes the version asked for.
LEMMA UnpackStepKeeps == UInv /\ Unpack => UInv'
<1> SUFFICES ASSUME UInv, Unpack  PROVE UInv'
  OBVIOUS
<1>1. IInv' /\ LooksFirst'
  BY UnpackStep, LooksFirstKept DEF UInv
<1>2. /\ UNCHANGED <<fetcher, pin, marker, kills, bumps, found>> /\ pc = "unpack"
      /\ kills \in Nat /\ bumps \in Nat
  BY DEF Unpack, choice, UInv
<1>3. FoundAtRest' /\ UsesWhatIsPinned'
  BY <1>2, NothingFound
<1>4. PICK f \in todo : tree' = Written({f}, "whole")
  BY DEF Unpack
<1>5. TreeInv'
  <2>1. "whole" \in Content
    BY DEF Content
  <2> QED BY <1>2, <1>4, <2>1, UnpackWrites
<1> QED BY <1>1, <1>2, <1>3, <1>5 DEF UInv, TreeInv

\* What a killed configure leaves is promised only where it does not matter.
LEMMA KillKeeps == UInv /\ Kill => UInv'
<1> SUFFICES ASSUME UInv, Kill  PROVE UInv'
  OBVIOUS
<1>1. IInv' /\ LooksFirst'
  BY KillStep, StopLooks DEF UInv, Kill
<1>2. /\ UNCHANGED <<fetcher, pin, vendored, marker, bumps, found>> /\ pc # "idle"
      /\ kills' \in Nat /\ kills' # 0 /\ bumps \in Nat /\ "cut" \in Content
  BY DEF Kill, choice, disk, UInv, Content
<1>3. FoundAtRest' /\ UsesWhatIsPinned'
  BY <1>2, NothingFound
<1>4. UNCHANGED disk => TreeInv'
  BY <1>2 DEF disk, UInv, TreeInv, NothingOlder, NothingCut, OneHeader, Parts
<1>5. pc = "download" /\ Transferred("cut") => TreeInv'
  BY <1>2, TransferWrites
<1>6. ASSUME pc = "unpack", NEW f \in todo, tree' = Written({f}, "cut")
      PROVE  TreeInv'
  BY <1>2, <1>6, UnpackWrites
<1>7. TreeInv'
  BY <1>4, <1>5, <1>6 DEF Kill
<1> QED BY <1>1, <1>2, <1>3, <1>7 DEF UInv, TreeInv

\* Another version takes the targets back.
LEMMA BumpKeeps == UInv /\ Bump => UInv'
<1> SUFFICES ASSUME UInv, Bump  PROVE UInv'
  OBVIOUS
<1>1. IInv'
  BY BumpStep DEF UInv
<1>2. /\ UNCHANGED <<fetcher, vendored, pc, part, tree, marker, kills>> /\ pc = "idle"
      /\ found' = NotFound
      /\ kills \in Nat /\ bumps' \in Nat /\ bumps' # 0
  BY DEF Bump, disk, UInv
<1>3. FoundAtRest' /\ UsesWhatIsPinned'
  BY <1>2, NothingFound
<1>4. TreeInv'
  BY <1>2 DEF UInv, TreeInv, NothingOlder, NothingCut, OneHeader, Parts
<1>5. LooksFirst'
  BY <1>2 DEF UInv, LooksFirst, Fetching
<1> QED BY <1>1, <1>2, <1>3, <1>4, <1>5 DEF UInv, TreeInv

\* Every step of the fetchers keeps the invariant of what is used.
LEMMA UInvStep == UInv /\ [Next]_vars => UInv'
<1>1. UInv /\ UNCHANGED vars => UInv'
  <2> SUFFICES ASSUME UInv, UNCHANGED vars  PROVE UInv'
    OBVIOUS
  <2>1. IInv'
    BY IInvStep DEF UInv
  <2>2. UNCHANGED <<fetcher, pin, vendored, pc, part, tree, marker, found, kills, bumps>>
    BY DEF vars, choice, disk
  <2>3. TreeInv' /\ kills' \in Nat /\ bumps' \in Nat
    BY <2>2, TreeKept
  <2>4. FoundAtRest' /\ UsesWhatIsPinned' /\ LooksFirst'
    BY <2>2 DEF UInv, FoundAtRest, NotFound, UsesWhatIsPinned, Configured, Promises,
                Parts, Whole, LooksFirst, Fetching
  <2> QED BY <2>1, <2>3, <2>4 DEF UInv, TreeInv
<1> QED BY <1>1, QuietKeeps, UnpackStepKeeps, MarkKeeps, UseKeeps, DownloadKeeps,
           KillKeeps, BumpKeeps
        DEF Next, Step

\* A configure that succeeds makes its targets of a complete tree of the version
\* asked for, always (ArmPL, a vendored header), until the version is changed
\* (MKL) or, besides, until a configure is killed (PocketFFT, IPP).
THEOREM PinnedCorrect == Spec => []UsesWhatIsPinned
<1>1. Spec => []UInv
  BY InitUInv, UInvStep, PTL DEF Spec
<1> QED BY <1>1, PTL DEF UInv

=============================================================================
