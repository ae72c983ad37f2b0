------------------------------ MODULE Recordings ------------------------------
(***************************************************************************)
(* The recordings of calls, from the carrier's "completed" callback to     *)
(* explicit deletion: handleRecordingCallback and deleteRecording of       *)
(* serve, EncryptedRecordingStore with the key it finds or makes in the    *)
(* macOS Keychain, and the CLI's own process, which plays a recording with *)
(* a store, and a cached key, of its own.                                  *)
(*                                                                         *)
(* A task is one callback, deletion or playback; it is cut into steps at   *)
(* its awaits.  A key is a number, and a file is the number of the key it  *)
(* was encrypted with.  Other statuses than "completed" do nothing.        *)
(***************************************************************************)
EXTENDS Naturals, FiniteSets

CONSTANTS
  Tasks,
  Sids,      \* the recordings there are at the carrier
  MaxLives,  \* bound: the lives of serve
  Faults     \* of "refused" (a request, or the keychain tool, fails), "lost"
             \* (it fails after it was carried out)

VARIABLES
  task,      \* per task: [kind, sid, at, key]
  life,
  cached,    \* the key serve holds, or 0
  claims,    \* provider_events: the recordings whose callback was taken
  row,       \* recordings: per recording [known, deletedLocal, deletedProvider]
  stored,    \* per recording: its recording.stored events
  minted,    \* keys made so far
  \* outside of serve
  keychain,  \* the key in the Keychain, or 0
  file,      \* per recording: the key of its .enc file, or 0
  carrier    \* the recordings the carrier still holds

index == <<claims, row, stored>>
disk == <<keychain, file, carrier>>
vars == <<task, life, cached, index, minted, disk>>

Idle == [kind |-> "none", sid |-> "none", at |-> "free", key |-> 0]
NoRow == [known |-> FALSE, deletedLocal |-> FALSE, deletedProvider |-> FALSE]
Over == {"free", "ok", "failed", "cut"}
Steps == [none |-> {}, play |-> {"find", "add", "use"},
          store |-> {"fetch", "find", "add", "use", "index"},
          local |-> {"mark"}, provider |-> {"request"}, both |-> {"mark", "request"}]

Init ==
  /\ task = [t \in Tasks |-> Idle]
  /\ life = 1 /\ cached = 0 /\ minted = 0
  /\ claims = {}
  /\ row = [s \in Sids |-> NoRow]
  /\ stored = [s \in Sids |-> 0]
  /\ keychain = 0
  /\ file = [s \in Sids |-> 0]
  /\ carrier = Sids

At(t, step) == task[t].at = step
Goes(t, step) == task' = [task EXCEPT ![t].at = step]
GoesWith(t, step, key) ==
  task' = [task EXCEPT ![t].at = step, ![t].key = key]

-----------------------------------------------------------------------------
(* handleRecordingCallback up to its first await.                          *)
MutCallback(t, s) ==
  /\ At(t, "free")
  /\ task' = [task EXCEPT ![t] =
       [kind |-> "store", sid |-> s, at |-> "fetch", key |-> 0]]
  /\ claims' = claims \cup {s}
  /\ UNCHANGED <<life, cached, row, stored, minted, disk>>

Callback(t, s) ==
  /\ At(t, "free")
  /\ task' = [task EXCEPT ![t] =
       [kind |-> "store", sid |-> s, key |-> 0,
        at |-> IF s \in claims THEN "ok" ELSE "fetch"]]
  /\ claims' = claims \cup {s}
  /\ UNCHANGED <<life, cached, row, stored, minted, disk>>

FetchAnswers(t) ==
  /\ At(t, "fetch") /\ task[t].sid \in carrier
  /\ GoesWith(t, IF cached = 0 THEN "find" ELSE "use", cached)
  /\ UNCHANGED <<life, cached, index, minted, disk>>

FetchFails(t) ==
  /\ At(t, "fetch")
  /\ "refused" \in Faults \/ task[t].sid \notin carrier
  /\ Goes(t, "failed")
  /\ UNCHANGED <<life, cached, index, minted, disk>>

(* store: the rest is done without an await but the one on store itself.   *)
WriteFile(t) ==
  /\ At(t, "use") /\ task[t].kind = "store"
  /\ file' = [file EXCEPT ![task[t].sid] = task[t].key]
  /\ Goes(t, "index")
  /\ UNCHANGED <<life, cached, index, minted, keychain, carrier>>

UpsertRecording(t) ==
  /\ At(t, "index")
  /\ row' = [row EXCEPT ![task[t].sid].known = TRUE]
  /\ stored' = [stored EXCEPT ![task[t].sid] = @ + 1]
  /\ Goes(t, "ok")
  /\ UNCHANGED <<life, cached, claims, minted, disk>>

-----------------------------------------------------------------------------
(* keychainKeyProvider, in either process: find, and if that fails for any *)
(* reason, add a key of its own.                                           *)
KeyFor(t, key) ==
  /\ GoesWith(t, "use", key)
  /\ cached' = IF task[t].kind = "store" THEN key ELSE cached

FindAnswers(t) ==
  /\ At(t, "find") /\ keychain # 0
  /\ KeyFor(t, keychain)
  /\ UNCHANGED <<life, index, minted, disk>>

FindFails(t) ==
  /\ At(t, "find")
  /\ keychain = 0 \/ "refused" \in Faults
  /\ minted' = minted + 1
  /\ GoesWith(t, "add", minted + 1)
  /\ UNCHANGED <<life, cached, index, disk>>

(* add-generic-password refuses an item that is there.                     *)
MutAddAnswers(t) ==
  /\ At(t, "add")
  /\ keychain' = task[t].key
  /\ KeyFor(t, task[t].key)
  /\ UNCHANGED <<life, index, minted, file, carrier>>

AddAnswers(t) ==
  /\ At(t, "add") /\ keychain = 0
  /\ keychain' = task[t].key
  /\ KeyFor(t, task[t].key)
  /\ UNCHANGED <<life, index, minted, file, carrier>>

AddFails(t) ==
  /\ At(t, "add")
  /\ \/ (keychain # 0 \/ "refused" \in Faults) /\ UNCHANGED keychain
     \/ keychain = 0 /\ "lost" \in Faults /\ keychain' = task[t].key
  /\ Goes(t, "failed")
  /\ UNCHANGED <<life, cached, index, minted, file, carrier>>

(* recording play and export: a process with an empty cache.               *)
Play(t, s) ==
  /\ At(t, "free")
  /\ task' = [task EXCEPT ![t] =
       [kind |-> "play", sid |-> s, at |-> "find", key |-> 0]]
  /\ UNCHANGED <<life, cached, index, minted, disk>>

Decrypt(t) ==
  /\ At(t, "use") /\ task[t].kind = "play"
  /\ Goes(t, IF file[task[t].sid] = task[t].key THEN "ok" ELSE "failed")
  /\ UNCHANGED <<life, cached, index, minted, disk>>

-----------------------------------------------------------------------------
(* deleteRecording: the row is looked up, and deleteLocal unlinks the file *)
(* before its await.                                                       *)
DeleteRecording(t, s, scope) ==
  /\ At(t, "free") /\ row[s].known
  /\ task' = [task EXCEPT ![t] =
       [kind |-> scope, sid |-> s, key |-> 0,
        at |-> IF scope = "provider" THEN "request" ELSE "mark"]]
  /\ file' = IF scope = "provider" THEN file ELSE [file EXCEPT ![s] = 0]
  /\ UNCHANGED <<life, cached, index, minted, keychain, carrier>>

MarkLocal(t) ==
  /\ At(t, "mark")
  /\ row' = [row EXCEPT ![task[t].sid].deletedLocal = TRUE]
  /\ Goes(t, IF task[t].kind = "both" THEN "request" ELSE "ok")
  /\ UNCHANGED <<life, cached, claims, stored, minted, disk>>

(* telephony.deleteRecording: a 404 is no error.                           *)
ProviderAnswers(t) ==
  /\ At(t, "request")
  /\ carrier' = carrier \ {task[t].sid}
  /\ row' = [row EXCEPT ![task[t].sid].deletedProvider = TRUE]
  /\ Goes(t, "ok")
  /\ UNCHANGED <<life, cached, claims, stored, minted, keychain, file>>

ProviderFails(t) ==
  /\ At(t, "request")
  /\ \/ "refused" \in Faults /\ UNCHANGED carrier
     \/ "lost" \in Faults /\ carrier' = carrier \ {task[t].sid}
  /\ Goes(t, "failed")
  /\ UNCHANGED <<life, cached, index, minted, keychain, file>>

(* serve dies and starts again; the CLI's process lives on.  "cut" is a    *)
(* task that died between the directory and the index.                     *)
Restart ==
  /\ life < MaxLives /\ life' = life + 1
  /\ cached' = 0
  /\ task' = [t \in Tasks |->
       IF task[t].kind = "play" \/ task[t].at \in Over THEN task[t]
       ELSE [task[t] EXCEPT !.at = IF @ \in {"index", "mark"} THEN "cut" ELSE "failed"]]
  /\ UNCHANGED <<index, minted, disk>>

Next ==
  \/ \E t \in Tasks, s \in Sids :
       \/ Callback(t, s) \/ Play(t, s)
       \/ \E scope \in {"local", "provider", "both"} : DeleteRecording(t, s, scope)
  \/ \E t \in Tasks :
       \/ FetchAnswers(t) \/ FetchFails(t) \/ WriteFile(t) \/ UpsertRecording(t)
       \/ FindAnswers(t) \/ FindFails(t) \/ AddAnswers(t) \/ AddFails(t)
       \/ Decrypt(t) \/ MarkLocal(t) \/ ProviderAnswers(t) \/ ProviderFails(t)
  \/ Restart

Spec == Init /\ [][Next]_vars

-----------------------------------------------------------------------------
TypeOK ==
  /\ \A t \in Tasks :
       /\ task[t].kind \in DOMAIN Steps
       /\ task[t].at \in Over \cup Steps[task[t].kind]
       /\ task[t].sid \in Sids \/ task[t] = Idle
       /\ task[t].key \in 0..minted
  /\ life \in 1..MaxLives /\ minted \in Nat
  /\ cached \in 0..minted /\ keychain \in 0..minted
  /\ claims \subseteq Sids /\ carrier \subseteq Sids
  /\ row \in [Sids -> [known : BOOLEAN, deletedLocal : BOOLEAN, deletedProvider : BOOLEAN]]
  /\ stored \in [Sids -> Nat]
  /\ file \in [Sids -> 0..minted]

(* Every recording on disk, and every one about to be, can be decrypted:   *)
(* its key is the one in the Keychain, whoever made it, with first stores  *)
(* and playbacks at one time, a keychain that fails, and restarts.         *)
OneKey ==
  /\ \A s \in Sids : file[s] \in {0, keychain}
  /\ cached \in {0, keychain}
  /\ \A t \in Tasks : At(t, "use") => task[t].key = keychain

(* What was deleted stays deleted: no replay of its callback brings it     *)
(* back, and the row's flags say what became of both copies.               *)
DeletedStaysDeleted ==
  \A s \in Sids :
    /\ row[s].deletedLocal => file[s] = 0
    /\ row[s].deletedProvider => s \notin carrier
    /\ stored[s] <= 1

(* The index and the directory agree, except for what a task is at this    *)
(* moment doing or a death of serve has cut: a file has its row, and a row *)
(* that is not deleted has its file.                                       *)
IndexMatchesDisk ==
  \A s \in Sids :
    \/ (file[s] # 0) <=> (row[s].known /\ ~row[s].deletedLocal)
    \/ \E t \in Tasks : task[t].sid = s /\ task[t].at \in {"index", "mark", "cut"}

(* A recording that the index lists can be played: its file is there and   *)
(* the key in the Keychain opens it.                                       *)
Playable == OneKey /\ IndexMatchesDisk

(* "Downloaded after the completed callback, retained until explicit       *)
(* deletion": a completed callback that was answered with success has its  *)
(* recording on disk, in the hands of another task, or deleted since.      *)
AnsweredMeansKept ==
  \A t \in Tasks :
    task[t].kind = "store" /\ At(t, "ok") =>
      \/ file[task[t].sid] # 0 \/ row[task[t].sid].deletedLocal
      \/ \E u \in Tasks : task[u].sid = task[t].sid /\ task[u].at \notin Over
=============================================================================
