----------------------------- MODULE IdentityHome -----------------------------
(***************************************************************************)
(* The key files of one machine: identity.json in the home, what an import *)
(* moved out of its way, and a backup. Any command loads the identity or   *)
(* makes one; identity export and import carry it between machines. Two    *)
(* commands may run at once, and either may be killed between two calls to *)
(* the file system. A write truncates the file, then fills it.             *)
(*                                                                         *)
(* A key file is [key, seal], the seal being the passphrase it opens with  *)
(* or Open.                                                                *)
(***************************************************************************)
EXTENDS Naturals, FiniteSets

CONSTANTS
  Command,     \* processes that may run at once
  Passphrase,  \* what HOCMESH_IDENTITY_PASSPHRASE may hold
  Open,        \* no passphrase
  Missing,     \* no file
  Torn,        \* a file that does not parse
  MaxKeys, MaxSeconds, MaxCommands

VARIABLES
  identity,    \* identity.json
  displaced,   \* second -> identity.json.replaced-<second>
  backup,      \* the backup file
  shells,      \* command -> [at, writes, over, second, saw]
  accounts,    \* keys a command has signed with
  unlucky,     \* keys of which a copy went by a kill, a race or a --force
  minted, seconds, started

homeVars == <<identity, displaced, backup, shells, accounts, unlucky, minted, seconds, started>>

NoProcess == [at |-> "idle", writes |-> Missing, over |-> "none", second |-> 0, saw |-> Missing]
Files == {identity, backup} \cup {displaced[s] : s \in 0..MaxSeconds}
Holds(file) == file \notin {Missing, Torn}
KeysOf(files) == {f.key : f \in {g \in files : Holds(g)}}

(* open_secret.                                                            *)
Opens(file, passphrase) == Holds(file) /\ file.seal \in {Open, passphrase}

(* A command that is to write a key file, having seen what it replaces.    *)
Writes(key, passphrase, over) ==
  [at |-> "writing", writes |-> [key |-> key, seal |-> passphrase], over |-> over, second |-> 0,
   saw |-> identity]

Starts(c) == shells[c].at = "idle" /\ started < MaxCommands /\ started' = started + 1

----------------------------------------------------------------------------
(* A key already there is used, and sealed in place when a passphrase has  *)
(* been set since; otherwise one is made.                                  *)
load_or_create_sealed(c) ==
  /\ Starts(c)
  /\ \E p \in Passphrase \cup {Open} :
       \/ /\ identity = Missing /\ minted < MaxKeys
          /\ minted' = minted + 1
          /\ shells' = [shells EXCEPT ![c] = Writes(minted + 1, p, "identity")]
          /\ UNCHANGED accounts
       \/ /\ Opens(identity, p) /\ identity.seal = Open /\ p # Open
          /\ shells' = [shells EXCEPT ![c] = Writes(identity.key, p, "identity")]
          /\ UNCHANGED <<minted, accounts>>
       \/ /\ Opens(identity, p) /\ ~(identity.seal = Open /\ p # Open)
          /\ accounts' = accounts \cup {identity.key}
          /\ UNCHANGED <<minted, shells>>
  /\ UNCHANGED <<identity, displaced, backup, unlucky, seconds>>

(* A backup is always sealed, and replaces another only under --force.     *)
export_backup(c) ==
  /\ Starts(c)
  /\ \E p \in Passphrase, force \in BOOLEAN :
       /\ Opens(identity, p)
       /\ backup = Missing \/ force
       /\ shells' = [shells EXCEPT ![c] = Writes(identity.key, p, "backup")]
  /\ UNCHANGED <<identity, displaced, backup, accounts, unlucky, minted, seconds>>

\* Faulty: an import overwrites the identity in place.
Displaces_never(p) == FALSE

(* The account that is here already is written in place; another, or one   *)
(* that does not open, takes --force and is moved away first.              *)
Displaces(p) == identity # Missing /\ ~(Opens(identity, p) /\ identity.key = backup.key)
import_backup(c) ==
  /\ Starts(c)
  /\ Holds(backup)
  /\ \E p \in Passphrase \cup {Open}, force \in BOOLEAN :
       /\ Displaces(p) => force
       /\ shells' = [shells EXCEPT ![c] =
            [Writes(backup.key, p, "identity") EXCEPT !.at = IF Displaces(p) THEN "displacing" ELSE "writing"]]
  /\ UNCHANGED <<identity, displaced, backup, accounts, unlucky, minted, seconds>>

(* The new name is that of the second; a rename replaces what has it. A    *)
(* command that has the renamed file open goes on filling it there.        *)
Filling(over, second) ==
  {c \in Command : shells[c].at = "filling" /\ shells[c].over = over /\ shells[c].second = second}
displace(c) ==
  /\ shells[c].at = "displacing"
  /\ IF identity = Missing
     THEN /\ shells' = [shells EXCEPT ![c] = NoProcess]   \* the rename fails
          /\ UNCHANGED <<identity, displaced, unlucky>>
     ELSE /\ displaced' = [displaced EXCEPT ![seconds] = identity]
          /\ unlucky' = unlucky \cup KeysOf({displaced[seconds]})
                        \cup {shells[d].writes.key : d \in Filling("displaced", seconds)}
          /\ identity' = Missing
          /\ shells' = [d \in Command |->
               CASE d = c -> [shells[d] EXCEPT !.at = "writing", !.saw = Missing]
                 [] d \in Filling("identity", 0) -> [shells[d] EXCEPT !.over = "displaced", !.second = seconds]
                 [] d \in Filling("displaced", seconds) -> [shells[d] EXCEPT !.over = "nowhere"]
                 [] OTHER -> shells[d]]
  /\ UNCHANGED <<backup, accounts, minted, seconds, started>>

----------------------------------------------------------------------------
(* write_identity and write_backup.                                        *)

(* What another command put there after this one looked is lost unseen.    *)
Truncate(c) ==
  LET over_identity == shells[c].over = "identity"
  IN /\ shells[c].at = "writing"
     /\ shells' = [shells EXCEPT ![c].at = "filling"]
     /\ identity' = IF over_identity THEN Torn ELSE identity
     /\ backup' = IF over_identity THEN backup ELSE Torn
     /\ unlucky' = IF over_identity
                   THEN IF shells[c].saw # identity THEN unlucky \cup KeysOf({identity}) ELSE unlucky
                   ELSE unlucky \cup (KeysOf({backup}) \ {shells[c].writes.key})
     /\ UNCHANGED <<displaced, accounts, minted, seconds, started>>

(* Two that fill one file at once: the longer text shows behind the        *)
(* shorter, and a sealed key is the longer one.                            *)
Fill(c) ==
  LET mine == shells[c].writes
      over == shells[c].over
      theirs == CASE over = "identity" -> identity
                  [] over = "backup" -> backup
                  [] over = "displaced" -> displaced[shells[c].second]
                  [] OTHER -> Missing
      clash == Holds(theirs) /\ theirs.seal # Open /\ mine.seal = Open
      now == IF clash THEN Torn ELSE mine
  IN /\ shells[c].at = "filling"
     /\ identity' = IF over = "identity" THEN now ELSE identity
     /\ backup' = IF over = "backup" THEN now ELSE backup
     /\ displaced' = IF over = "displaced" THEN [displaced EXCEPT ![shells[c].second] = now] ELSE displaced
     /\ unlucky' = (unlucky \cup KeysOf({theirs})) \cup (IF clash THEN {mine.key} ELSE {})
     /\ accounts' = accounts \cup {mine.key}
     /\ shells' = [shells EXCEPT ![c] = NoProcess]
     /\ UNCHANGED <<minted, seconds, started>>

(* A kill after the truncation leaves a file that does not parse.          *)
Kill(c) ==
  /\ shells[c].at # "idle"
  /\ shells' = [shells EXCEPT ![c] = NoProcess]
  /\ unlucky' = IF shells[c].at = "filling" THEN unlucky \cup {shells[c].writes.key} ELSE unlucky
  /\ UNCHANGED <<identity, displaced, backup, accounts, minted, seconds, started>>

Second ==
  /\ seconds < MaxSeconds
  /\ seconds' = seconds + 1
  /\ UNCHANGED <<identity, displaced, backup, shells, accounts, unlucky, minted, started>>

----------------------------------------------------------------------------
HomeInit ==
  /\ identity = Missing
  /\ displaced = [s \in 0..MaxSeconds |-> Missing]
  /\ backup \in {Missing} \cup {[key |-> 0, seal |-> p] : p \in Passphrase}
  /\ shells = [c \in Command |-> NoProcess]
  /\ accounts = KeysOf({backup}) /\ unlucky = {}
  /\ minted = 0 /\ seconds = 0 /\ started = 0

HomeNext ==
  \/ \E c \in Command :
       \/ load_or_create_sealed(c) \/ export_backup(c) \/ import_backup(c)
       \/ displace(c) \/ Truncate(c) \/ Fill(c) \/ Kill(c)
  \/ Second

HomeSpec == HomeInit /\ [][HomeNext]_homeVars

----------------------------------------------------------------------------
(* An account that has signed anything keeps its key in some file,         *)
(* whichever import displaced it and wherever a command was killed, unless *)
(* a copy of it went by one of four accidents: a kill in the middle of an  *)
(* in-place write, another command's write into a file this one had looked *)
(* at, a second displacement within one second, or --force over a backup   *)
(* (load_or_create_sealed, import_backup, displaced_path, write_backup).   *)
AccountsSurvive ==
  accounts \subseteq KeysOf(Files) \cup unlucky
                     \cup {shells[c].writes.key : c \in {d \in Command : shells[d].at = "filling"}}
================================================================================
