---------------------------- MODULE SavedLogins ----------------------------
(***************************************************************************)
(* BrowserAuthProfileService and AuthStateManager: the logins of browser   *)
(* sessions, saved to files, in the clear or encrypted, and loaded into    *)
(* new sessions.                                                           *)
(*                                                                         *)
(* A session is named after the account its user logs in to, and a login   *)
(* after the session it was first made in.  A place is where states are    *)
(* saved: the directory of an auth profile, or a session's own directory   *)
(* for save_storage_state.  Sessions lock themselves, not the places: any  *)
(* await of one may be another's turn.  The files are not reset by a       *)
(* restart; the temporary ones it leaves behind are never read again.      *)
(***************************************************************************)
EXTENDS Naturals, Sequences, ServiceValues

CONSTANTS Account, AuthProfile,
          Lodging,   \* settings and what happens: [confidential: the sessions with that protection
                     \* mode, hosted: "off", "on" or "required", keys: per process whether there
                     \* is an encryption key, may: which operations are looked at, profiles:
                     \* the names in use, efforts: bound of the saves, openings, copies, exports
                     \* and imports]
          MaxAge, MaxHours

ASSUME LoginsAssumption ==
  /\ MaxAge \in Nat /\ MaxHours \in Nat
  /\ \A l \in Lodging : l.profiles \subseteq AuthProfile
  /\ None \notin AuthProfile \cup Account \cup [login : Account, at : Nat]
  /\ None \notin [there : BOOLEAN, plain : [login : Account, at : Nat] \cup {None},
                 sealed : [login : Account, at : Nat] \cup {None}, last : {"plain", "sealed"},
                 owner : Account \cup {None}]

Place == AuthProfile \cup Account

VARIABLES lodging, process, hours,
          dir,       \* [there, plain, sealed, last, owner]: state.json, state.json.enc, which of the
                     \* two is newer, and the session profile.json names; None for no file
          half,      \* the temporary file a state is first written to
          archive,   \* the last exported archive of a profile
          importing, \* the profile an archive is being extracted to
          user,      \* the sessions: [pc, login, name, place, remote, source]
          bared,    \* history: logins that fork_session or enable_shadow_browse wrote down in the clear
          efforts,   \* how many operations there were
          begun      \* history: the logins whose saving to a place was begun

uvars == <<lodging, process, hours, dir, half, archive, importing, user, bared, efforts, begun>>

File(login) == [login |-> login, at |-> hours]
NoDir == [there |-> FALSE, plain |-> None, sealed |-> None, last |-> "plain", owner |-> None]
Away == [pc |-> "closed", login |-> None, name |-> None, place |-> None, remote |-> "idle", source |-> None]
Effort == efforts < lodging.efforts /\ efforts' = efforts + 1
May(operation) == operation \in lodging.may

UInit ==
  /\ lodging \in Lodging
  /\ process = 1 /\ hours = 0
  /\ dir = [p \in Place |-> NoDir] /\ half = [p \in Place |-> None]
  /\ archive = [p \in AuthProfile |-> None] /\ importing = None
  /\ user = [s \in Account |-> Away]
  /\ bared = {} /\ efforts = 0 /\ begun = [p \in Place |-> {}]

-----------------------------------------------------------------------------
(* AuthStateManager.                                                       *)

encryption_enabled == lodging.keys[process]

\* inspect: how old a file may be.
Stale(file) == MaxAge > 0 /\ hours - file.at > MaxAge

\* output_path, and the replacement of the file there.
WithState(d, login) ==
  IF encryption_enabled THEN [d EXCEPT !.sealed = File(login), !.last = "sealed"]
  ELSE [d EXCEPT !.plain = File(login), !.last = "plain"]

\* resolve_state_path: of a profile's two files the newer one.  A path may name either.
Readable(p) == {k \in {"plain", "sealed"} : dir[p][k] # None /\ (p \in AuthProfile => dir[p].last = k)}

\* prepare_for_context: an encrypted state is decrypted to a file of its own, the path of a
\* plain one is given to the browser.
Openable(file, kind) == ~Stale(file) /\ (kind = "sealed" => encryption_enabled)

-----------------------------------------------------------------------------
(* Sessions.                                                               *)

\* A session without a saved state, whose user logs in.
LogIn(s) ==
  /\ user[s].pc = "closed"
  /\ user' = [user EXCEPT ![s].pc = "open", ![s].login = s]
  /\ UNCHANGED <<lodging, process, hours, dir, half, archive, importing, bared, efforts, begun>>

Confidential(s) == s \in lodging.confidential

AsOpen(s) == [user EXCEPT ![s].pc = "open", ![s].place = None, ![s].source = None]

\* create: the state is checked, then a browser is waited for.
OpenFrom(s, p, kind) ==
  /\ Effort /\ user[s].pc = "closed" /\ kind \in Readable(p) /\ Openable(dir[p][kind], kind)
  /\ user' = [user EXCEPT ![s].pc = "opening", ![s].place = p, ![s].source = kind,
                          ![s].login = IF kind = "sealed" THEN dir[p].sealed.login ELSE None]
  /\ UNCHANGED <<lodging, process, hours, dir, half, archive, importing, bared, begun>>

\* The browser reads the file it was given: a plain one as it is by then.
Opened(s) ==
  /\ user[s].pc = "opening" /\ user[s].source # "gone"
  /\ user[s].source = "plain" => dir[user[s].place].plain # None
  /\ user' = [AsOpen(s) EXCEPT ![s].login = IF user[s].source = "plain" THEN dir[user[s].place].plain.login ELSE @,
                             ![s].name = IF user[s].place \in AuthProfile THEN user[s].place ELSE None]
  /\ UNCHANGED <<lodging, process, hours, dir, half, archive, importing, bared, efforts, begun>>

OpenFails(s) ==
  /\ user[s].pc = "opening" /\ user' = [user EXCEPT ![s] = Away]
  /\ UNCHANGED <<lodging, process, hours, dir, half, archive, importing, bared, efforts, begun>>

CloseSession(s) ==
  /\ user[s].pc = "open" /\ user' = [user EXCEPT ![s] = Away]
  /\ UNCHANGED <<lodging, process, hours, dir, half, archive, importing, bared, efforts, begun>>

\* The login is written to a file of the session in the clear, which is never deleted, and another
\* session is made from it.
Copied(s, t) ==
  /\ Effort /\ user[s].pc = "open" /\ user[t].pc = "closed"
  /\ bared' = bared \cup {user[s].login}
  /\ user' = [user EXCEPT ![t].pc = "opening", ![t].login = user[s].login, ![t].source = "copy"]
  /\ UNCHANGED <<lodging, process, hours, dir, half, archive, importing, begun>>

\* fork_session: the new session has the protection mode new sessions have.
Fork(s, t) == May("fork") /\ Copied(s, t)

\* enable_shadow_browse: the new session, in a browser of its own, is never confidential.
ShadowBrowse(s, t) == May("shadow") /\ ~Confidential(t) /\ Copied(s, t)

-----------------------------------------------------------------------------
(* save and save_storage_state, under the lock of the session.             *)

\* ensure_remote_ready.
RemoteReady(s, answer) == lodging.hosted = "required" /\ Confidential(s) => answer
Checked(s, answer) ==
  IF lodging.hosted = "required" /\ Confidential(s)
  THEN [user EXCEPT ![s].remote = IF answer THEN "healthy" ELSE "failed"] ELSE user

\* Mutant: the policy looks at the profile of the session only where a profile is named.
PolicyOfProfiles(s, p) == Confidential(s) /\ p \in AuthProfile /\ ~encryption_enabled

\* evaluate_action: a confidential session stores its login encrypted or not at all.
PolicyBlocks(s, p) == Confidential(s) /\ ~encryption_enabled

Save(s, p, answer) ==
  /\ Effort /\ user[s].pc = "open" /\ (p \in lodging.profiles \/ (p = s /\ May("own")))
  /\ LET ready == RemoteReady(s, answer) /\ ~PolicyBlocks(s, p) IN
     /\ user' = [Checked(s, answer) EXCEPT ![s].pc = IF ready THEN "storing" ELSE "recording",
                                           ![s].place = IF ready THEN p ELSE None]
     /\ dir' = IF ready \/ p \in Account THEN [dir EXCEPT ![p].there = TRUE] ELSE dir
     /\ begun' = IF ready THEN [begun EXCEPT ![p] = @ \cup {user[s].login}] ELSE begun
  /\ UNCHANGED <<lodging, process, hours, half, archive, importing, bared>>

\* Mutant: one temporary file for all profiles.
TempOfAll(p) == CHOOSE q \in AuthProfile : TRUE

\* write_storage_state: the name of the temporary file comes from that of the final one.
TempOf(p) == p

\* The browser has written the state to the temporary file.
StateStored(s) ==
  /\ user[s].pc = "storing" /\ dir[user[s].place].there
  /\ half' = [half EXCEPT ![TempOf(user[s].place)] = user[s].login]
  /\ user' = [user EXCEPT ![s].pc = "stored"]
  /\ UNCHANGED <<lodging, process, hours, dir, archive, importing, bared, efforts, begun>>

\* It is encrypted, or moved as it is, to its place.
Sealed(s) ==
  LET p == user[s].place IN
  /\ user[s].pc = "stored" /\ half[TempOf(p)] # None /\ dir[p].there
  /\ dir' = [dir EXCEPT ![p] = WithState(@, half[TempOf(p)])]
  /\ half' = [half EXCEPT ![TempOf(p)] = None]
  /\ user' = IF p \in AuthProfile THEN [user EXCEPT ![s].pc = "naming", ![s].name = p] ELSE [user EXCEPT ![s].pc = "recording"]
  /\ UNCHANGED <<lodging, process, hours, archive, importing, bared, efforts, begun>>

\* The file or the directory is gone, or the browser is: the request fails.
SaveFails(s) ==
  /\ user[s].pc \in {"storing", "stored", "naming"} /\ user' = AsOpen(s)
  /\ UNCHANGED <<lodging, process, hours, dir, half, archive, importing, bared, efforts, begun>>

\* The page has told its title: profile.json.
Named(s) ==
  /\ user[s].pc = "naming" /\ dir[user[s].place].there
  /\ dir' = [dir EXCEPT ![user[s].place].owner = s]
  /\ user' = [user EXCEPT ![s].pc = "recording"]
  /\ UNCHANGED <<lodging, process, hours, half, archive, importing, bared, efforts, begun>>

\* record_receipt, of a save or of one that was blocked: the hosted Witness gets the receipt, or does not; the answer is the same.
Recorded(s, answer) ==
  /\ user[s].pc = "recording"
  /\ user' = [AsOpen(s) EXCEPT ![s].remote = IF lodging.hosted = "off" THEN @
                                           ELSE IF answer THEN "delivered" ELSE "failed"]
  /\ UNCHANGED <<lodging, process, hours, dir, half, archive, importing, bared, efforts, begun>>

\* get: looking a profile up makes its directory.
ReadProfile(p) ==
  /\ May("archive") /\ ~dir[p].there
  /\ dir' = [dir EXCEPT ![p].there = TRUE]
  /\ UNCHANGED <<lodging, process, hours, half, archive, importing, user, bared, efforts, begun>>

-----------------------------------------------------------------------------
(* Archives of profiles, written and read by threads of their own.         *)

Export(p) ==
  /\ Effort /\ May("archive") /\ dir[p].there
  /\ archive' = [archive EXCEPT ![p] = dir[p]]
  /\ UNCHANGED <<lodging, process, hours, dir, half, importing, user, bared, begun>>

\* import_profile: with overwrite what is there is removed, decrypted copies of states included.
ImportBegin(p, overwrite) ==
  /\ Effort /\ May("archive") /\ importing = None /\ archive[p] # None
  /\ dir[p].there => overwrite
  /\ importing' = p
  /\ dir' = [dir EXCEPT ![p] = NoDir] /\ half' = [half EXCEPT ![p] = None]
  /\ user' = [s \in Account |-> IF user[s].pc = "opening" /\ user[s].place = p /\ user[s].source = "sealed"
                                THEN [user[s] EXCEPT !.source = "gone"] ELSE user[s]]
  /\ UNCHANGED <<lodging, process, hours, archive, bared, begun>>

Restored(file) == IF file = None THEN None ELSE [file EXCEPT !.at = hours]
Or(new, old) == IF new = None THEN old ELSE new

\* The members are written one after the other, state.json.enc after state.json, as new files.
ImportEnd ==
  /\ importing # None
  /\ LET a == archive[importing] IN
     dir' = [dir EXCEPT ![importing] =
               [there |-> TRUE, plain |-> Or(Restored(a.plain), @.plain), sealed |-> Or(Restored(a.sealed), @.sealed),
                last |-> IF a.sealed # None THEN "sealed" ELSE IF a.plain # None THEN "plain" ELSE @.last,
                owner |-> Or(a.owner, @.owner)]]
  /\ importing' = None
  /\ UNCHANGED <<lodging, process, hours, half, archive, user, bared, efforts, begun>>

-----------------------------------------------------------------------------
AnHour ==
  /\ May("age") /\ hours < MaxHours /\ hours' = hours + 1
  /\ UNCHANGED <<lodging, process, dir, half, archive, importing, user, bared, efforts, begun>>

\* The controller is stopped or killed; the next one may have another key setting.
NextProcess ==
  /\ process < Len(lodging.keys) /\ process' = process + 1
  /\ user' = [s \in Account |-> Away] /\ importing' = None
  /\ half' = [p \in Place |-> None]
  /\ UNCHANGED <<lodging, hours, dir, archive, bared, efforts, begun>>

UNext ==
  \/ \E s \in Account : LogIn(s) \/ Opened(s) \/ OpenFails(s) \/ CloseSession(s)
  \/ \E s \in Account, p \in Place, kind \in {"plain", "sealed"} : OpenFrom(s, p, kind)
  \/ \E s, t \in Account : Fork(s, t) \/ ShadowBrowse(s, t)
  \/ \E s \in Account, p \in Place, answer \in BOOLEAN : Save(s, p, answer)
  \/ \E s \in Account : StateStored(s) \/ Sealed(s) \/ SaveFails(s) \/ Named(s)
  \/ \E s \in Account, answer \in BOOLEAN : Recorded(s, answer)
  \/ \E p \in AuthProfile : ReadProfile(p) \/ Export(p)
  \/ \E p \in AuthProfile, overwrite \in BOOLEAN : ImportBegin(p, overwrite)
  \/ ImportEnd
  \/ AnHour
  \/ NextProcess

USpec == UInit /\ [][UNext]_uvars

-----------------------------------------------------------------------------
Files(p) == {f \in {dir[p].plain, dir[p].sealed} : f # None}

\* PROPERTY ProfilesApart: a file of a profile, and a session that was opened from it or saved to
\* it, has a login that somebody saved under that profile's name, however the saves, openings,
\* imports and restarts of several sessions fall together.
ProfilesApart ==
  /\ \A p \in Place : \A f \in Files(p) : f.login \in begun[p]
  /\ \A s \in Account : user[s].pc = "open" /\ user[s].name # None => user[s].login \in begun[user[s].name]

\* PROPERTY ConfidentialSealed: the login of a confidential session lies in the clear in no saved
\* state, neither by its own saves nor by those of sessions that were opened from them, with one
\* key setting or the other -- unless a session that had it was forked or shadow-browsed: the copy
\* itself is in the clear, and the new session need not be confidential.
ConfidentialSealed ==
  \A p \in Place : dir[p].plain # None /\ Confidential(dir[p].plain.login) => dir[p].plain.login \in bared
=============================================================================
