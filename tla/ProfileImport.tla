---------------------------- MODULE ProfileImport ----------------------------
(***************************************************************************)
(* loadProfiles (profiles.go): newProfileCache offers the profiles in the  *)
(* service's directory to Core Metadata, once per process.                 *)
(***************************************************************************)
EXTENDS Naturals, Sequences

CONSTANTS
    Title,       \* names of profiles
    Files,       \* the names the profile files give, in directory order
    NoTitle,     \* the name of a profile that was not read: the empty one
    MaxOthers,   \* bound: profiles others add or delete
    MaxTroubles, \* bound: files not read, calls that fail or answer badly
    MaxStarts    \* bound: starts of the process

ASSUME ImportAssumption ==
    /\ Files \in Seq(Title) /\ NoTitle \notin Title
    /\ MaxOthers \in Nat /\ MaxTroubles \in Nat /\ MaxStarts \in Nat

VARIABLES
    profiles,  \* Core Metadata: the names of its profiles
    listed,    \* the names in the answer loadProfiles got when it began
    file,      \* the index of the next file; 0 before the list is fetched
    ended,     \* loadProfiles has returned
    imported,  \* the keys of pc.profiles
    excused,   \* history: files not read or whose Add failed, in this process
    cut,       \* history: it returned before its loop was over
    deleted,   \* history: names deleted by others
    others, troubles, starts

fate == <<excused, cut>>
bounds == <<others, troubles, starts>>
importVars == <<profiles, listed, file, ended, imported, fate, deleted, bounds>>

ImportInit ==
    /\ profiles \in SUBSET Title /\ listed = {}
    /\ file = 0 /\ ended = FALSE /\ imported = {}
    /\ excused = {} /\ cut = FALSE /\ deleted = {}
    /\ others = 0 /\ troubles = 0 /\ starts = 1

-----------------------------------------------------------------------------
Trouble == troubles < MaxTroubles /\ troubles' = troubles + 1

Stop == ended' = TRUE /\ cut' = TRUE

\* The names of the profiles there are; without them nothing is imported, nor
\* without the directory.
FetchProfiles ==
    /\ file = 0 /\ ~ended
    /\ \/ /\ listed' = profiles /\ file' = 1 /\ UNCHANGED <<ended, cut, troubles>>
       \/ Trouble /\ Stop /\ UNCHANGED <<listed, file>>
    /\ UNCHANGED <<profiles, imported, excused, deleted, others, starts>>

NextFile == file' = file + 1 /\ UNCHANGED <<ended, cut>>

\* What Core Metadata makes of a profile of that name, and what follows.
Skipped(n) == n \in listed /\ NextFile /\ UNCHANGED <<profiles, imported>>

Created(n) ==
    /\ n \notin listed \cup profiles
    /\ profiles' = profiles \cup {n} /\ imported' = imported \cup {n}
    /\ NextFile

\* Mutant of Refused: the import ends instead of going on.
RefusedStopping(n) ==
    /\ n \in profiles \ listed /\ ended' = TRUE
    /\ UNCHANGED <<profiles, imported, file, cut>>

\* There is one by now, since the list was fetched.
Refused(n) ==
    n \in profiles \ listed /\ NextFile /\ UNCHANGED <<profiles, imported>>

\* The call has no effect, or its answer is lost.
Failed(n) ==
    /\ n \notin listed /\ NextFile
    /\ profiles' \in {profiles, profiles \cup {n}} /\ UNCHANGED imported

\* The answer is no object id: the rest of the directory is left out.
Garbled(n) ==
    /\ n \notin listed \cup profiles /\ profiles' = profiles \cup {n}
    /\ Stop /\ UNCHANGED <<imported, file>>

\* One round of the loop.  Errors of reading and of parsing are logged, and the
\* profile is offered as it is: empty, or with what the parser had got to.
ImportFile ==
    /\ file \in DOMAIN Files /\ ~ended
    /\ \/ /\ Skipped(Files[file]) \/ Created(Files[file]) \/ Refused(Files[file])
          /\ UNCHANGED <<excused, troubles>>
       \/ \E n \in {Files[file], NoTitle} :
            /\ \/ Skipped(n) \/ Created(n) \/ Refused(n)
               \/ Failed(n) \/ Garbled(n)
            /\ Trouble /\ excused' = excused \cup {file}
    /\ UNCHANGED <<listed, deleted, others, starts>>

ImportDone ==
    /\ file = Len(Files) + 1 /\ ~ended /\ ended' = TRUE
    /\ UNCHANGED <<profiles, listed, file, imported, fate, deleted, bounds>>

\* The process ends and is started again.
Restart ==
    /\ starts < MaxStarts /\ starts' = starts + 1
    /\ file' = 0 /\ ended' = FALSE /\ listed' = {} /\ imported' = {}
    /\ excused' = {} /\ cut' = FALSE
    /\ UNCHANGED <<profiles, deleted, others, troubles>>

\* Another service adds or deletes a profile.
OtherProfile == \E n \in Title :
    /\ others < MaxOthers /\ others' = others + 1
    /\ \/ n \notin profiles /\ profiles' = profiles \cup {n} /\ UNCHANGED deleted
       \/ /\ n \in profiles /\ profiles' = profiles \ {n}
          /\ deleted' = deleted \cup {n}
    /\ UNCHANGED <<listed, file, ended, imported, fate, troubles, starts>>

ImportNext ==
    FetchProfiles \/ ImportFile \/ ImportDone \/ Restart \/ OtherProfile

ImportSpec == ImportInit /\ [][ImportNext]_importVars

-----------------------------------------------------------------------------
ImportTypeOK ==
    /\ profiles \subseteq Title \cup {NoTitle} /\ listed \subseteq Title \cup {NoTitle}
    /\ file \in 0 .. Len(Files) + 1 /\ excused \subseteq DOMAIN Files
    /\ imported \subseteq Title \cup {NoTitle}

\* When loadProfiles ends by itself, Core Metadata has a profile for every file
\* but those whose own read or Add failed, or others deleted it: files with one
\* name, profiles added since the list was fetched and what an earlier process
\* left do not keep a later file from being imported.  And pc.profiles never
\* has one Core Metadata does not.
ImportAccounts ==
    /\ ended /\ ~cut =>
         \A k \in DOMAIN Files \ excused : Files[k] \in profiles \cup deleted
    /\ imported \subseteq profiles \cup deleted
=============================================================================
