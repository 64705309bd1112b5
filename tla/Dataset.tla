------------------------------ MODULE Dataset ------------------------------
(* From the dataset of a job to the DATA_PATH its notebook is given: the    *)
(* download, extraction, flattening and renaming of workspace.py, and the   *)
(* search of docker_runner.py.  A path is a sequence of names below data/;  *)
(* a file is known by where it was in the dataset.                          *)
EXTENDS Integers, SequencesExt

CONSTANTS
    Members,    \* paths that a dataset may consist of
    DataNames,  \* names that end in .csv, .parquet, .json or .xlsx
    Safe        \* each name with its blanks replaced by underscores

\* Replacing blanks is idempotent and leaves the end of a name as it is; "input" has
\* neither a blank nor one of the ends.
ASSUME DatasetAssumption ==
    /\ Members \subseteq Seq(DOMAIN Safe) \ {<<>>}
    /\ \A n \in DOMAIN Safe : Safe[n] \in DOMAIN Safe /\ Safe[Safe[n]] = Safe[n]
    /\ \A n \in DataNames : n \in DOMAIN Safe /\ Safe[n] \in DataNames
    /\ "input" \in DOMAIN Safe \ DataNames /\ Safe["input"] = "input"

VARIABLES
    pc,         \* the step of download_file and what follows
    kind,       \* a plain file, an archive, or a Kaggle dataset
    contents,   \* the members of the dataset
    files,      \* the files below data/: where they are, which member each was
    dataPath    \* DATA_PATH, below /workspace/data, which is data/input

vars == <<pc, kind, contents, files, dataPath>>

\* No member is a directory of another.
Datasets == {C \in SUBSET Members : \A p, q \in C : ~IsStrictPrefix(p, q)}

File(p, m) == [at |-> p, of |-> m]
Rest(p, n) == SubSeq(p, n + 1, Len(p))

Present(F, p) == \E f \in F : IsPrefix(p, f.at)
IsDir(F, p)   == \E f \in F : IsStrictPrefix(p, f.at)
IsFile(F, p)  == \E f \in F : f.at = p

\* The names of a directory.
List(F, p) == {f.at[Len(p) + 1] : f \in {g \in F : IsStrictPrefix(p, g.at)}}

\* Everything below a path moves, and what was at its new place is gone.
Moved(F, from, to) ==
    {f \in F : ~IsPrefix(from, f.at) /\ f.at # to}
    \cup {File(to \o Rest(f.at, Len(from)), f.of) : f \in {g \in F : IsPrefix(from, g.at)}}

Input == <<"input">>

\* Mistaken variant, for the mutation runs: a name of its own for the download.
FileNameOther == "dataset"

\* The name execute_job gives the download.
FileName == "input"

Goto(p) == pc' = p /\ UNCHANGED <<kind, contents>>

-----------------------------------------------------------------------------

\* A request that fails, HTML, a size over the limit, a missing tool.
Refuse ==
    /\ pc = "download"
    /\ Goto("failed")
    /\ UNCHANGED <<files, dataPath>>

\* The stream is written to data/input/<filename>.
Stream ==
    /\ pc = "download" /\ kind # "kaggle"
    /\ Goto(IF kind = "archive" THEN "extract" ELSE "sanitise")
    /\ files' = {File(Append(Input, FileName), Input)}
    /\ UNCHANGED dataPath

\* Members are written beside the archive, which is removed afterwards.  One that has
\* the archive's own name is written over it: it fails, or is removed with it.
Extract ==
    /\ pc = "extract"
    /\ \/ /\ \A m \in contents : m[1] = FileName => Len(m) = 1
          /\ Goto("sanitise")
          /\ files' = {File(Input \o m, m) : m \in contents \ {<<FileName>>}}
       \/ /\ \E m \in contents : m[1] = FileName
          /\ Goto("failed")
          /\ UNCHANGED files
    /\ UNCHANGED dataPath

\* kaggle datasets download --unzip, into data/ itself, where the directory input is
\* already: a member of that name makes it fail (Refuse).
Kaggle ==
    /\ pc = "download" /\ kind = "kaggle" /\ <<"input">> \notin contents
    /\ Goto("normalise")
    /\ files' = {File(m, m) : m \in contents}
    /\ UNCHANGED dataPath

\* shutil.move of dir/n to data/input/n: into a directory that is there already,
\* over a file that is.
Target(F, n) == IF IsDir(F, Append(Input, n)) THEN Input \o <<n, n>> ELSE Append(Input, n)

CanMove(F, dir, n) ==
    /\ IsDir(F, Append(Input, n)) => ~Present(F, Input \o <<n, n>>)
    /\ IsFile(F, Append(Input, n)) => ~IsDir(F, Append(dir, n))

\* All moves of one listing; they do not meet each other.
MovedAll(F, dir, names) ==
    LET name(f) == f.at[Len(dir) + 1]
        moving  == {f \in F : IsStrictPrefix(dir, f.at) /\ name(f) \in names}
    IN  {f \in F \ moving : \A n \in names : f.at # Target(F, n)}
        \cup {File(Target(F, name(f)) \o Rest(f.at, Len(dir) + 1), f.of) : f \in moving}

\* Mistaken variant: every directory is taken to be the only one.
ToFlattenFirst(F) ==
    LET entries == List(F, <<>>) \ {"input"}
        dirs    == {n \in entries : IsDir(F, <<n>>)}
    IN IF dirs # {} THEN <<CHOOSE n \in dirs : TRUE>> ELSE <<>>

\* The directory whose files are moved: the only entry of data/ but input, if it is
\* a directory, or data/ itself.
ToFlatten(F) ==
    LET entries == List(F, <<>>) \ {"input"}
        only    == {n \in entries : entries = {n} /\ IsDir(F, <<n>>)}
    IN IF only # {} THEN <<CHOOSE n \in only : TRUE>> ELSE <<>>

Normalise ==
    /\ pc = "normalise"
    /\ LET dir   == ToFlatten(files)
           names == List(files, dir) \ (IF dir = <<>> THEN {"input"} ELSE {})
       IN IF \A n \in names : CanMove(files, dir, n)
          THEN Goto("sanitise") /\ files' = MovedAll(files, dir, names)
          ELSE Goto("failed") /\ UNCHANGED files
    /\ UNCHANGED dataPath

Blank(F) == {n \in List(F, Input) : Safe[n] # n}

\* One name after the other, at the top of data/input only; os.rename replaces a
\* file and refuses a directory.
Sanitise ==
    /\ pc = "sanitise"
    /\ IF Blank(files) = {}
       THEN Goto("find") /\ UNCHANGED files
       ELSE \E n \in Blank(files) :
              LET from == Append(Input, n)
                  to   == Append(Input, Safe[n])
              IN IF Present(files, to) /\ (IsDir(files, from) \/ IsDir(files, to))
                 THEN Goto("failed") /\ UNCHANGED files
                 ELSE Goto("sanitise") /\ files' = Moved(files, from, to)
    /\ UNCHANGED dataPath

DirOf(p) == SubSeq(p, 1, Len(p) - 1)

IsData(F, p) == IsFile(F, p) /\ Last(p) \in DataNames

\* os.walk, top down: a file in a directory comes before those in its subdirectories.
\* The order among files and among directories is arbitrary.
FindDataFile(F) ==
    {p \in {f.at : f \in F} :
        /\ IsPrefix(Input, p) /\ IsData(F, p)
        /\ \A f \in F : (IsData(F, f.at) /\ IsPrefix(Input, f.at))
                           => ~IsStrictPrefix(DirOf(f.at), DirOf(p))}

\* "/workspace/data/" + basename(data_file), the directory input if nothing was found.
Find ==
    /\ pc = "find"
    /\ Goto("run")
    /\ LET found == FindDataFile(files)
       IN dataPath' \in {<<Last(p)>> : p \in IF found = {} THEN {Input} ELSE found}
    /\ UNCHANGED files

Init ==
    /\ pc = "download"
    /\ kind \in {"plain", "archive", "kaggle"}
    /\ contents \in Datasets
    /\ contents = {} <=> kind = "plain"
    /\ files = {} /\ dataPath = <<>>

Next == Refuse \/ Stream \/ Extract \/ Kaggle \/ Normalise \/ Sanitise \/ Find

Spec == Init /\ [][Next]_vars

-----------------------------------------------------------------------------

\* Datasets with a data file where the code looks for it: a plain file, a data file
\* at the top of an archive or a Kaggle dataset, or in its only directory.  Not a file
\* whose name a directory in input/ has too: it is moved into that directory.
AtHand ==
    \/ kind = "plain"
    \/ \E m \in contents : /\ Len(m) = 1 /\ m[1] \in DataNames
                           /\ \A k \in contents : ~IsStrictPrefix(Input \o m, k)
    \/ kind = "kaggle" /\ \E m \in contents : /\ Len(m) = 2 /\ m[2] \in DataNames
                                             /\ \A k \in contents : k[1] = m[1]

\* The notebook of such a dataset is given the path of a file that is there, whatever
\* was flattened, renamed or replaced on the way (agent.py:312-315).
PathLeads == pc = "run" /\ AtHand => IsFile(files, Input \o dataPath)

\* A member of the dataset is lost only to another that has its name after renaming
\* and flattening, or if it is called like the download.
MembersKept ==
    pc = "run" => \A m \in contents :
        \/ \E f \in files : f.of = m /\ IsPrefix(Input, f.at)
        \/ m = <<FileName>>
        \/ \E k \in contents \ {m} : Safe[Last(k)] = Safe[Last(m)]
=============================================================================
