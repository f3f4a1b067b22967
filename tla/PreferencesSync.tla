---------------------------- MODULE PreferencesSync ----------------------------
(***************************************************************************)
(* src/lib/preferences.ts, idb-prefs.ts and preferences-sync.ts, with the  *)
(* row of convex/preferences/mutations.ts: one user's preferences on        *)
(* several devices.  A device keeps them in memory (the cache) and in      *)
(* IndexedDB (the record), and syncs during passkey ceremonies: pull and   *)
(* merge, then push what differs.  The server numbers the blobs it is sent *)
(* and compares nothing.                                                   *)
(***************************************************************************)
EXTENDS Integers, Sequences, FiniteSets

CONSTANTS
  Devices,
  MaxEdits,     \* bound: changes the user makes
  MaxMishaps    \* bound: syncs that fail, sign-outs and reloads

ASSUME PreferencesAssumption == MaxEdits \in Nat /\ MaxMishaps \in Nat

\* showTestnets stands for every setting that may go to and fro;
\* mnemonicBackedUpAt is a time, 0 when absent.
Prefs == [showTestnets : BOOLEAN, mnemonicBackedUpAt : 0 .. MaxEdits]
Default == [showTestnets |-> FALSE, mnemonicBackedUpAt |-> 0]
Nothing == [none |-> TRUE]

VARIABLES
  served,       \* userPreferences: every blob the row has held; the
                \* revision is the length
  memory,       \* cache, dirty, lastSeenRevision, lastSynced of each page
  record,       \* the same in IndexedDB
  sync,         \* what the ceremony of each page is doing
  edits, mishaps,
  forgotten,    \* history: devices that wrote over a record they had not loaded
  raced         \* history: devices that changed a setting during their last push

vars == <<served, memory, record, sync, edits, mishaps, forgotten, raced>>

Loaded(cache, synced, seen, dirty) ==
  [cache |-> cache, synced |-> synced, seen |-> seen, dirty |-> dirty]

Fresh == Loaded(Default, Nothing, 0, FALSE)
NotLoaded == Loaded(Nothing, Nothing, 0, FALSE)
Idle == [pc |-> "idle", revision |-> 0, blob |-> Nothing]

Init ==
  /\ served = << >>
  /\ memory = [d \in Devices |-> Fresh] /\ record = [d \in Devices |-> Fresh]
  /\ sync = [d \in Devices |-> Idle]
  /\ edits = 0 /\ mishaps = 0
  /\ forgotten = {} /\ raced = {}

-----------------------------------------------------------------------------
(* The store of a page *)

OrDefault(prefs) == IF prefs = Nothing THEN Default ELSE prefs

\* getCurrentPrefsSnapshot
Snapshot(d) == OrDefault(memory[d].cache)

\* Every write of the memory also writes the record.
Store(d, m) ==
  /\ memory' = [memory EXCEPT ![d] = m]
  /\ record' = [record EXCEPT ![d] = m]
  /\ forgotten' = IF memory[d].cache = Nothing /\ record[d] # Fresh
                  THEN forgotten \cup {d} ELSE forgotten

\* What is read back: dirty is derived again.
FromRecord(r) ==
  [r EXCEPT !.dirty = IF r.synced = Nothing THEN @ ELSE r.cache # r.synced]

\* loadFromIdb, when a component subscribes.
Load(d) ==
  /\ memory[d].cache = Nothing
  /\ memory' = [memory EXCEPT ![d] = FromRecord(record[d])]
  /\ UNCHANGED <<served, record, sync, edits, mishaps, forgotten, raced>>

\* MaxEdits is a bound; edits is also the clock.
SetPref(d) ==
  /\ edits < MaxEdits /\ edits' = edits + 1
  /\ LET old == Snapshot(d) IN
     \E new \in {[old EXCEPT !.showTestnets = ~@],
                 [old EXCEPT !.mnemonicBackedUpAt = edits + 1]} :
       Store(d, [memory[d] EXCEPT !.cache = new,
                                  !.dirty = new # OrDefault(memory[d].synced)])
  /\ UNCHANGED <<served, sync, mishaps, raced>>

\* Mutant of MergePrefs: the server wins.
UpstreamWins(upstream, local, localDirty) ==
  [upstream EXCEPT !.mnemonicBackedUpAt =
     IF local.mnemonicBackedUpAt > @ THEN local.mnemonicBackedUpAt ELSE @]

\* Local settings win if they are dirty; the time of the backup never goes back.
MergePrefs(upstream, local, localDirty) ==
  [IF localDirty THEN local ELSE upstream EXCEPT !.mnemonicBackedUpAt =
     IF local.mnemonicBackedUpAt > upstream.mnemonicBackedUpAt
     THEN local.mnemonicBackedUpAt ELSE upstream.mnemonicBackedUpAt]

\* Mutant of ApplyPulledPrefs: the merge is taken for what the server holds.
ApplyMerged(d, merged, revision, upstream) ==
  Store(d, Loaded(merged, merged, revision, FALSE))

\* The baseline is what the server holds, not the merge.
ApplyPulledPrefs(d, merged, revision, upstream) ==
  Store(d, Loaded(merged, upstream, revision, merged # upstream))

-----------------------------------------------------------------------------
(* A ceremony: pullDuringCeremony, then pushDuringCeremony if dirty *)

\* The query; without a row there is nothing to merge.
PullRead(d) ==
  /\ sync[d].pc = "idle"
  /\ sync' = [sync EXCEPT ![d] =
       IF served = << >> THEN [Idle EXCEPT !.pc = "merged"]
       ELSE [pc |-> "pulled", revision |-> Len(served), blob |-> served[Len(served)]]]
  /\ UNCHANGED <<served, memory, record, edits, mishaps, forgotten, raced>>

\* Mutant of IsNews: one revision is missed.
IsOldNews(d) == sync[d].revision > memory[d].seen + 1

IsNews(d) == sync[d].revision > memory[d].seen

\* Its answer: skipped if it is not newer than what this page has seen.
PullMerge(d) ==
  LET row == sync[d] IN
  /\ row.pc = "pulled"
  /\ sync' = [sync EXCEPT ![d] = [Idle EXCEPT !.pc = "merged"]]
  /\ IF IsNews(d)
     THEN /\ ApplyPulledPrefs(d, MergePrefs(row.blob, Snapshot(d), memory[d].dirty),
                              row.revision, row.blob)
          /\ raced' = raced \ {d}
     ELSE UNCHANGED <<memory, record, forgotten, raced>>
  /\ UNCHANGED <<served, edits, mishaps>>

PushStart(d) ==
  /\ sync[d].pc = "merged"
  /\ sync' = [sync EXCEPT ![d] =
       IF memory[d].dirty THEN [Idle EXCEPT !.pc = "pushing", !.blob = Snapshot(d)]
       ELSE Idle]
  /\ UNCHANGED <<served, memory, record, edits, mishaps, forgotten, raced>>

\* Mutant of NextRevision: one is left out.
RevisionAfterNext == Len(served) + 2

NextRevision == Len(served) + 1

\* writeEncryptedPreferences: the row takes the blob and the next revision.
WriteEncryptedPreferences(d) ==
  /\ sync[d].pc = "pushing"
  /\ served' = Append(served, sync[d].blob)
  /\ sync' = [sync EXCEPT ![d].pc = "pushed", ![d].revision = NextRevision]
  /\ UNCHANGED <<memory, record, edits, mishaps, forgotten, raced>>

\* Whatever the cache holds by now becomes what was synced.
MarkPushed(d) ==
  LET cache == memory[d].cache IN
  /\ sync[d].pc = "pushed"
  /\ IF cache = Nothing
     THEN UNCHANGED <<memory, record, forgotten, raced>>
     ELSE /\ Store(d, Loaded(cache, cache, sync[d].revision, FALSE))
          /\ raced' = IF cache = sync[d].blob THEN raced \ {d} ELSE raced \cup {d}
  /\ sync' = [sync EXCEPT ![d] = Idle]
  /\ UNCHANGED <<served, edits, mishaps>>

Ceremony(d) ==
  \/ PullMerge(d) \/ PushStart(d) \/ WriteEncryptedPreferences(d) \/ MarkPushed(d)

-----------------------------------------------------------------------------
(* What may go wrong *)

\* MaxMishaps is a bound.
Mishap == mishaps < MaxMishaps /\ mishaps' = mishaps + 1

\* Offline, an expired session, a reply that is lost: the next ceremony retries.
SyncFails(d) ==
  /\ sync[d].pc # "idle" /\ Mishap
  /\ sync' = [sync EXCEPT ![d] = Idle]
  /\ UNCHANGED <<served, memory, record, edits, forgotten, raced>>

\* clearPrefsMemoryForSignOut: the record stays; a sync under way goes on.
SignOut(d) ==
  /\ Mishap
  /\ memory' = [memory EXCEPT ![d] = NotLoaded]
  /\ UNCHANGED <<served, record, sync, edits, forgotten, raced>>

\* A new page: its components subscribe before anybody can sign in.
Reload(d) ==
  /\ Mishap
  /\ memory' = [memory EXCEPT ![d] = FromRecord(record[d])]
  /\ sync' = [sync EXCEPT ![d] = Idle]
  /\ UNCHANGED <<served, record, edits, forgotten, raced>>

Next ==
  \E d \in Devices :
    \/ Load(d) \/ SetPref(d) \/ PullRead(d) \/ Ceremony(d)
    \/ SyncFails(d) \/ SignOut(d) \/ Reload(d)

Spec == Init /\ [][Next]_vars

\* A device is used again and again, and a ceremony goes on.
FairSpec ==
  Spec /\ \A d \in Devices : WF_vars(Load(d)) /\ WF_vars(PullRead(d)) /\ WF_vars(Ceremony(d))

-----------------------------------------------------------------------------
(* Properties *)

StoredType == [cache : Prefs \cup {Nothing}, synced : Prefs \cup {Nothing},
               seen : Nat, dirty : BOOLEAN]
SyncType == [pc : {"idle", "pulled", "merged", "pushing", "pushed"},
             revision : Nat, blob : Prefs \cup {Nothing}]

TypeOK ==
  /\ served \in Seq(Prefs)
  /\ memory \in [Devices -> StoredType] /\ record \in [Devices -> StoredType]
  /\ sync \in [Devices -> SyncType]
  /\ \A d \in Devices : {memory[d].seen, record[d].seen, sync[d].revision}
                         \subseteq 0 .. Len(served)
  /\ edits \in 0 .. MaxEdits /\ mishaps \in Nat
  /\ forgotten \subseteq Devices /\ raced \subseteq Devices

\* The baseline of a page is what the server held at the revision the page has
\* seen, and dirty is the difference to it: a page that believes itself clean
\* and up to date shows what the server holds.  Except after a setting changed
\* while a push was under way.
Honest(m) ==
  /\ m.seen > 0 => m.synced = served[m.seen]
  /\ m.cache # Nothing => m.dirty = (m.cache # OrDefault(m.synced))

BaselineIsServers ==
  \A d \in Devices \ raced : Honest(memory[d]) /\ Honest(record[d])

\* What the user changed on a device and the server does not have is not undone
\* there by what another device pushed, and no device forgets that the wallet
\* was backed up.
UnpushedSettingsStay ==
  [][\A d \in Devices \ forgotten' :
       LET old == record[d] new == record'[d] IN
       /\ (old.dirty /\ edits' = edits)
            => new.cache.showTestnets = old.cache.showTestnets
       /\ new.cache.mnemonicBackedUpAt >= old.cache.mnemonicBackedUpAt]_vars

Latest == IF served = << >> THEN Default ELSE served[Len(served)]

\* Once the user stops changing settings all devices and the server agree.
DevicesAgree ==
  <>[](\A d \in Devices \ raced : record[d].cache = Latest /\ ~record[d].dirty)
=============================================================================
