----------------------------- MODULE UserAccess -----------------------------
(***************************************************************************)
(* The user file of the WebDAV server: `splitfs adduser' and people with   *)
(* editors write it, webdav._Users reads it again when its mtime has       *)
(* changed, but not more often than every updateInterval, and _Config      *)
(* answers requests by it.                                                 *)
(*                                                                         *)
(* Get holds a mutex while it looks at the file, so requests are looked up *)
(* one after the other; what follows the look-up depends on its result     *)
(* only.  Nobody sets a mtime by hand.                                     *)
(***************************************************************************)
EXTENDS Integers, Sequences, FiniteSets, SequencesExt

CONSTANTS
  Entry,      \* the valid lines: user, password and prefixes
  Blank,      \* a line that is empty, a comment or invalid
  Adder,      \* the adduser commands
  NewEntry,   \* [Adder -> the line it adds]
  ByHand,     \* what an editor can make of the file
  Url,        \* the paths that are asked for
  UrlRoot,    \* "", "/" and "."
  Starts,     \* the pairs of a path and a prefix it begins with
  Writes, Reads, OtherMethods,  \* the methods: black list, white list, rest
  MaxLines,        \* lines that are read, 1000 in the code
  UpdateInterval,  \* in seconds
  MaxClock,   \* bound: seconds that pass
  MaxByHand   \* bound: changes with an editor

Line == Entry \cup {Blank}

ASSUME AccessAssumption ==
  /\ Blank \notin Entry
  /\ \A e \in Entry : DOMAIN e = {"user", "pass", "prefixes"}
  /\ NewEntry \in [Adder -> Entry]
  /\ ByHand \subseteq Seq(Line) \ {<< >>}
  /\ Reads \cap (Writes \cup OtherMethods) = {}
  /\ MaxLines \in Nat /\ UpdateInterval \in Nat \ {0}
  /\ MaxClock \in Nat /\ MaxByHand \in Nat

VARIABLES
  clock,      \* the present second
  lines,      \* the lines of the user file; the empty file has a blank one
  mtime,      \* its mtime, NoFile if there is no file
  adder,      \* the adduser commands: step and lines they have read
  users,      \* us.users, as the set of its values
  userFileMTime, lastUpdate,
  pc,         \* where Get is
  began,      \* when it began
  statMTime,  \* what userUpdate has got from Stat
  changedAt,  \* (ghost) when an entry came into the file or left it
  hasty,      \* (ghost) since the server read it, the file was changed in the
              \* second of the mtime the server knows
  missing,    \* (ghost) the server found no file when it last looked at it
  unopened,   \* (ghost) when it could not open the file it has seen last, Never
              \* if it could
  due,        \* (ghost) the entries that ought to be in the file
  mishap,     \* (ghost) what went wrong: commands or editors did "overlap", the
              \* file was "unread" by a command, or one has "died" in WriteFile
  byHand      \* the counter the bound is about

fileVars == <<lines, mtime>>
table == <<users, userFileMTime, lastUpdate>>
get == <<pc, began, statMTime>>
seen == <<missing, unopened>>
vars == <<clock, fileVars, adder, table, get, changedAt, hasty, seen, due,
          mishap, byHand>>

NoFile == -1
Never == -UpdateInterval   \* a time that is long past

-----------------------------------------------------------------------------
\* (mutant) all lines of a user count
AllLines(text) ==
  {text[i] : i \in {i \in 1..Len(text) : i <= MaxLines /\ text[i] # Blank}}

\* userUpdate: of several lines for a user the last one counts.
Parse(text) ==
  LET n == IF Len(text) < MaxLines THEN Len(text) ELSE MaxLines
  IN  {text[i] : i \in {i \in 1..n :
         /\ text[i] # Blank
         /\ \A j \in (i + 1)..n : text[j] # Blank => text[j].user # text[i].user}}

Listed == IF mtime = NoFile THEN {} ELSE Parse(lines)

\* The file gets new lines.
SetFile(text) ==
  /\ lines' = text /\ mtime' = clock
  /\ changedAt' = [e \in Entry |->
       IF e \in Listed <=> e \in Parse(text) THEN changedAt[e] ELSE clock]
  /\ hasty' = (hasty \/ clock \in {statMTime, userFileMTime})

Active(a) == adder[a].step \in {"write", "written"}
SomeoneActive == \E a \in Adder : Active(a)

Edit ==
  /\ byHand < MaxByHand /\ byHand' = byHand + 1
  /\ \/ \E text \in ByHand \ {lines} :
          SetFile(text) /\ due' = ToSet(text) \ {Blank}
     \/ /\ mtime # NoFile /\ mtime' = NoFile /\ due' = {}
        /\ changedAt' = [e \in Entry |-> IF e \in Listed THEN clock ELSE changedAt[e]]
        /\ UNCHANGED <<lines, hasty>>
  /\ mishap' = IF SomeoneActive THEN {"overlap"} ELSE {}
  /\ UNCHANGED <<clock, adder, table, get, seen>>

Tick ==
  /\ clock < MaxClock /\ clock' = clock + 1
  /\ UNCHANGED <<fileVars, adder, table, get, changedAt, hasty, seen, due,
                 mishap, byHand>>

-----------------------------------------------------------------------------
\* addUser reads the file.  If there is none, or reading fails, it goes on with
\* an empty text.
AddRead(a, ok) ==
  /\ adder[a].step = "read"
  /\ adder' = [adder EXCEPT ![a] =
       [step |-> "write", text |-> IF ok /\ mtime # NoFile THEN lines ELSE <<Blank>>]]
  /\ mishap' = mishap \cup (IF ~ok /\ mtime # NoFile THEN {"unread"} ELSE {})
                       \cup (IF SomeoneActive THEN {"overlap"} ELSE {})
  /\ UNCHANGED <<clock, fileVars, table, get, changedAt, hasty, seen, due, byHand>>

\* ioutil.WriteFile: the file is made empty ...
AddTruncate(a) ==
  /\ adder[a].step = "write"
  /\ adder' = [adder EXCEPT ![a].step = "written"]
  /\ SetFile(<<Blank>>)
  /\ UNCHANGED <<clock, table, get, seen, due, mishap, byHand>>

\* (mutant) without a line break the last line is spoilt
Glued(a) == [adder[a].text EXCEPT ![Len(adder[a].text)] = NewEntry[a]]

NewText(a) == Append(adder[a].text, NewEntry[a])

\* ... and gets its old lines and the new one.
AddWrite(a) ==
  /\ adder[a].step = "written"
  /\ adder' = [adder EXCEPT ![a] = [step |-> "done", text |-> << >>]]
  /\ SetFile(NewText(a))
  /\ due' = due \cup {NewEntry[a]}
  /\ UNCHANGED <<clock, table, get, seen, mishap, byHand>>

\* The command dies or WriteFile fails.
AddFails(a) ==
  /\ Active(a)
  /\ adder' = [adder EXCEPT ![a] = [step |-> "done", text |-> << >>]]
  /\ mishap' = mishap \cup IF adder[a].step = "written" THEN {"died"} ELSE {}
  /\ UNCHANGED <<clock, fileVars, table, get, changedAt, hasty, seen, due, byHand>>

-----------------------------------------------------------------------------
\* (mutant) the interval has to be exceeded
EarlyOrEqual == lastUpdate + UpdateInterval >= clock

TooEarly == lastUpdate + UpdateInterval > clock

\* (mutant) the time of the last request is kept
LastRequest == clock

\* lastUpdate when it is too early.
LastUpdate == lastUpdate

\* Get takes the mutex and calls userUpdate.
BeginGet ==
  /\ pc = "idle"
  /\ began' = clock
  /\ IF TooEarly THEN pc' = "lookup" /\ lastUpdate' = LastUpdate
                 ELSE pc' = "stat" /\ lastUpdate' = clock
  /\ UNCHANGED <<clock, fileVars, adder, users, userFileMTime, statMTime,
                 changedAt, hasty, seen, due, mishap, byHand>>

StatUsers ==
  /\ pc = "stat"
  /\ IF mtime \in {NoFile, userFileMTime}
       THEN pc' = "lookup" /\ UNCHANGED statMTime
       ELSE pc' = "open" /\ statMTime' = mtime
  /\ missing' = (mtime = NoFile)
  /\ UNCHANGED <<clock, fileVars, adder, table, began, changedAt, hasty, unopened,
                 due, mishap, byHand>>

\* The file is opened and read.  If it cannot be opened there are no users.
ReadUsers(ok) ==
  /\ pc = "open" /\ pc' = "lookup"
  /\ ok => mtime # NoFile
  /\ users' = IF ok THEN Parse(lines) ELSE {}
  /\ userFileMTime' = statMTime /\ statMTime' = NoFile
  /\ unopened' = IF ok THEN Never ELSE clock
  /\ hasty' = FALSE
  /\ UNCHANGED <<clock, fileVars, adder, lastUpdate, began, changedAt, missing,
                 due, mishap, byHand>>

\* _User.Allowed.
Allowed(e, url) ==
  url \in UrlRoot \/ \E prefix \in e.prefixes : <<url, prefix>> \in Starts

Request ==
  [user : {e.user : e \in Entry}, pass : {e.pass : e \in Entry}, url : Url,
   method : Writes \cup Reads \cup OtherMethods]

\* ServeHTTP looks the user up and decides.  A request without authorization is
\* refused before Get is called.
Status(r) ==
  IF ~\E e \in users : e.user = r.user /\ e.pass = r.pass
    THEN "not authorized"
    ELSE LET e == CHOOSE e \in users : e.user = r.user
         IN  CASE ~Allowed(e, r.url)    -> "forbidden"
               [] r.method \notin Reads -> "not allowed"
               [] OTHER                -> "served"

Answer ==
  /\ pc = "lookup" /\ pc' = "idle" /\ began' = 0
  /\ UNCHANGED <<clock, fileVars, adder, table, statMTime, changedAt, hasty,
                 seen, due, mishap, byHand>>

-----------------------------------------------------------------------------
Init ==
  /\ clock = 1
  /\ lines \in ByHand /\ mtime = 0
  /\ adder = [a \in Adder |-> [step |-> "read", text |-> << >>]]
  /\ users = {} /\ userFileMTime = NoFile /\ lastUpdate = Never
  /\ pc = "idle" /\ began = 0 /\ statMTime = NoFile
  /\ changedAt = [e \in Entry |-> Never]
  /\ hasty = FALSE /\ missing = FALSE /\ unopened = Never
  /\ due = ToSet(lines) \ {Blank} /\ mishap = {} /\ byHand = 0

Next ==
  \/ Edit \/ Tick
  \/ \E a \in Adder :
       (\E ok \in BOOLEAN : AddRead(a, ok)) \/ AddTruncate(a) \/ AddWrite(a) \/ AddFails(a)
  \/ BeginGet \/ StatUsers \/ (\E ok \in BOOLEAN : ReadUsers(ok)) \/ Answer

Spec == Init /\ [][Next]_vars

-----------------------------------------------------------------------------
TypeOK ==
  /\ lines \in Seq(Line) /\ Len(lines) > 0
  /\ mtime \in {NoFile} \cup 0..clock
  /\ \A a \in Adder : adder[a].step \in {"read", "write", "written", "done"}
  /\ users \subseteq Entry
  /\ \A e, f \in users : e.user = f.user => e = f
  /\ userFileMTime \in {NoFile} \cup 0..clock
  /\ pc \in {"idle", "stat", "open", "lookup"}
  /\ began \in 0..clock

\* An entry that was in the file for some time in the last UpdateInterval.
Recent(e) == e \in Listed \/ changedAt[e] > began - UpdateInterval

\* What is served was asked for with a method that reads, by a user who had, not
\* longer than the interval ago, this password and a prefix of this path in the
\* file: a removed user and an old password stop working, and no error lets
\* anybody in.  Exceptions are a file that is gone, of which the server keeps the
\* table, and one that is changed again in the second the server saw it change.
ServedIsListed ==
  pc = "lookup" /\ ~hasty /\ ~missing
    => \A r \in Request :
         Status(r) = "served"
           => /\ r.method \notin Writes \cup OtherMethods
              /\ \E e \in Entry : /\ Recent(e) /\ Allowed(e, r.url)
                                  /\ e.user = r.user /\ e.pass = r.pass

\* Who has been in the file for the interval is not refused as unknown.
ListedGetIn ==
  \A r \in Request :
    Status(r) = "not authorized"
      => ~\E e \in Listed : /\ changedAt[e] <= began - UpdateInterval
                            /\ e.user = r.user /\ e.pass = r.pass

\* The server could open the file it has seen last, or, longer than the interval
\* ago, the file was changed after it could not.
Openable ==
  unopened = Never \/ (unopened < mtime /\ mtime <= began - UpdateInterval)

\* Who is in the file for the interval is let in, although the file may have been
\* gone, read half-written, or impossible to open at that time.  Exceptions are a
\* second change in the second of the first one, which the server does not see,
\* and a file it could not open, which it does not try again; both last until
\* the file is changed again.
ListedIsKnown == pc = "lookup" /\ ~hasty /\ Openable => ListedGetIn

\* When no command is in WriteFile, everybody who was entered is in the file.
EverybodyIsIn ==
  (\A a \in Adder : adder[a].step # "written") /\ mtime # NoFile
    => due \subseteq ToSet(lines)

\* addUser adds: as long as commands and editors come one after the other, and
\* no command dies in WriteFile or fails to read, nobody is lost.
NobodyLost == mishap = {} => EverybodyIsIn

=============================================================================
