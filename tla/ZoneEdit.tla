------------------------------ MODULE ZoneEdit ------------------------------
(***************************************************************************)
(* Editing a zone with the SDK.                                            *)
(*                                                                         *)
(* An editor reads the zone, compares it with the zone it wants, and       *)
(* brings the difference to named: as a zone file with a new serial, or as *)
(* an update message.  A message may be lost, may be sent again when no    *)
(* answer came, and may arrive after others have changed the zone.         *)
(***************************************************************************)
EXTENDS SerialStrategy, ZoneDiff, UpdateMessage

CONSTANTS
  Zones,         \* zones somebody may want
  FirstZones,    \* zones named begins with
  FirstSerials,  \* serials named begins with
  EditDay,       \* the day of the edit, counted from 1970-01-01
  LastDay,       \* bound: the last day of the calendar
  Seconds,       \* seconds of the day at which a serial may be chosen
  OtherEntries,  \* changes by others
  MaxSends,      \* bound: times the message is sent
  MaxOthers      \* bound: changes by others

ASSUME EditAssumption ==
  /\ FirstZones \subseteq Zones /\ FirstSerials \subseteq Serials
  /\ LastDay \in Nat /\ EditDay \in 0..LastDay
  /\ Seconds \subseteq Nat
  /\ MaxSends \in Nat \ {0} /\ MaxOthers \in Nat

(* The date of today fits into a serial, as it does until the year 4294. *)
ASSUME DateAssumption ==
  /\ TodayBase(Civil(EditDay)) \in Nat
  /\ TodayBase(Civil(EditDay)) + PerDay - 1 \in Serials

VARIABLES
  day, date,      \* days since 1970-01-01, and the calendar
  zone, serial,   \* what named serves
  stage,          \* where the editor is
  base, goal,     \* the zone it read and the zone it wants
  guard,          \* the kind of prerequisites in its message
  message,        \* the message it sends
  copies, sends,  \* copies named has not processed, and copies sent
  landed,         \* copies that took effect
  others          \* changes by others so far

editVars == <<base, goal, guard, message>>
vars == <<day, date, zone, serial, stage, editVars, copies, sends, landed, others>>

Guards == {"none", "exists", "exact"}
Stages == {"unloaded", "idle", "read", "published", "sent", "refused"}
Empty  == [prerequisites |-> <<>>, updates |-> <<>>]

Legal(z) ==
  /\ Rrset(z, Apex, "NS") # {}
  /\ \A r, s \in z : r.name = s.name =>
       /\ r.type = s.type => r.ttl = s.ttl
       /\ r.type = "CNAME" => r = s

(* ANY is a type of questions and of deletions, never of a record. *)
IsRecord(r) ==
  r = [name |-> r.name, type |-> r.type, data |-> r.data, ttl |-> r.ttl] /\ r.type # "ANY"

(* named loads no other zones, and others send entries as the SDK does. *)
ASSUME ZoneAssumption ==
  /\ \A z \in Zones : IsFiniteSet(z) /\ Legal(z) /\ \A r \in z : IsRecord(r)
  /\ \A e \in OtherEntries :
       \/ e.kind = "AddRecord" /\ e.record.type # "ANY"
       \/ e.kind \in {"DeleteRecord", "DeleteRrset", "DeleteName"}
  /\ MaxCount \in Nat

(* The type invariant: whatever the editor and others do, named has a zone *)
(* it could load, and no section of a message has more than MaxCount       *)
(* records.                                                                *)
ZonesOK ==
  /\ day \in 0..LastDay
  /\ serial \in Serials
  /\ stage # "unloaded" => Legal(zone)
  /\ stage \in Stages /\ guard \in Guards
  /\ Len(message.prerequisites) <= MaxCount /\ Len(message.updates) <= MaxCount
  /\ sends \in 0..MaxSends /\ copies \in 0..sends /\ landed \in 0..(sends - copies)
  /\ others \in 0..MaxOthers

Init ==
  /\ day = 0 /\ date = [year |-> 1970, month |-> 1, day |-> 1]
  /\ zone = {} /\ serial = 0 /\ stage = "unloaded"
  /\ base = {} /\ goal = {} /\ guard = "none" /\ message = Empty
  /\ copies = 0 /\ sends = 0 /\ landed = 0 /\ others = 0

-----------------------------------------------------------------------------
(* The calendar.                                                           *)

Leap(year) == year % 4 = 0 /\ (year % 100 # 0 \/ year % 400 = 0)

DaysIn(d) == CASE d.month = 2 -> IF Leap(d.year) THEN 29 ELSE 28
               [] d.month \in {4, 6, 9, 11} -> 30
               [] OTHER -> 31

NextDate(d) ==
  IF d.day < DaysIn(d) THEN [year |-> d.year, month |-> d.month, day |-> d.day + 1]
  ELSE IF d.month < 12 THEN [year |-> d.year, month |-> d.month + 1, day |-> 1]
  ELSE [year |-> d.year + 1, month |-> 1, day |-> 1]

Tick ==
  /\ stage = "unloaded" /\ day < LastDay
  /\ day' = day + 1 /\ date' = NextDate(date)
  /\ UNCHANGED <<zone, serial, stage, editVars, copies, sends, landed, others>>

-----------------------------------------------------------------------------
(* named and the other users of the zone.                                  *)

Load ==
  /\ stage = "unloaded" /\ day = EditDay
  /\ stage' = "idle" /\ zone' \in FirstZones /\ serial' \in FirstSerials
  /\ UNCHANGED <<day, date, editVars, copies, sends, landed, others>>

(* An update that changes nothing leaves the serial as it is. *)
Change(z) ==
  /\ zone' = z
  /\ serial' = IF z = zone THEN serial ELSE WrappingAdd(serial, 1)

(* bind9 record add and delete, and programs like it *)
Other ==
  /\ stage \in {"read", "sent"} /\ others < MaxOthers
  /\ \E e \in OtherEntries : Change(ApplyUpdate(zone, <<EncodeEntry(e)>>))
  /\ others' = others + 1
  /\ UNCHANGED <<day, date, stage, editVars, copies, sends, landed>>

Process ==
  /\ copies > 0
  /\ copies' = copies - 1
  /\ IF PrerequisitesHold(zone, message.prerequisites)
     THEN Change(ApplyUpdate(zone, message.updates)) /\ landed' = landed + 1
     ELSE UNCHANGED <<zone, serial, landed>>
  /\ UNCHANGED <<day, date, stage, editVars, sends, others>>

Lose ==
  /\ copies > 0
  /\ copies' = copies - 1
  /\ UNCHANGED <<day, date, zone, serial, stage, editVars, sends, landed, others>>

-----------------------------------------------------------------------------
(* The editor.                                                             *)

Read ==
  /\ stage = "idle"
  /\ stage' = "read" /\ base' = zone /\ goal' \in Zones
  /\ UNCHANGED <<day, date, zone, serial, guard, message, copies, sends, landed, others>>

(* The file of a zone that takes no updates is replaced. *)
Publish ==
  /\ stage = "read" /\ others = 0
  /\ \E entries \in Diffs(base, goal) : zone' = ApplyDiff(base, entries)
  /\ \E strategy \in Strategies, second \in Seconds :
       serial' = NextSerial(strategy, serial, day, second)
  /\ stage' = "published"
  /\ UNCHANGED <<day, date, editVars, copies, sends, landed, others>>

Touched(entries) == {entries[i].record.name : i \in DOMAIN entries}

Types(names) == {r.type : r \in {x \in base \cup goal : x.name \in names}}

(* One prerequisite of each name and record set the edit is about *)
Prerequisites(kind, names) ==
  LET used == {n \in names : Named(base, n) # {}}
      sets == {p \in used \X Types(names) : Rrset(base, p[1], p[2]) # {}}
      exists == {[kind |-> "NameExists", name |-> n] : n \in used} \cup
                {[kind |-> "RrsetExists", name |-> p[1], type |-> p[2]] : p \in sets}
      exact == {[kind |-> "NameNotExists", name |-> n] : n \in names \ used} \cup
               {[kind |-> "RrsetNotExists", name |-> p[1], type |-> p[2]] :
                  p \in (used \X Types(names)) \ sets} \cup
               {[kind |-> "RrsetExistsWithData", name |-> p[1], type |-> p[2],
                 records |-> Rrset(base, p[1], p[2])] : p \in sets}
  IN SetToSeq(CASE kind = "none" -> {} [] kind = "exists" -> exists [] kind = "exact" -> exact)

Send ==
  /\ stage = "read"
  /\ guard' \in Guards
  /\ \E entries \in Diffs(base, goal) :
       LET m == Encode(Prerequisites(guard', Touched(entries)), ToUpdates(entries))
       IN /\ entries # <<>>
          /\ IF TooLong(m)
             THEN stage' = "refused" /\ UNCHANGED <<message, copies, sends>>
             ELSE stage' = "sent" /\ message' = m /\ copies' = 1 /\ sends' = 1
  /\ UNCHANGED <<day, date, zone, serial, base, goal, landed, others>>

(* No answer came: the caller sends the message again. *)
Resend ==
  /\ stage = "sent" /\ sends < MaxSends
  /\ copies' = copies + 1 /\ sends' = sends + 1
  /\ UNCHANGED <<day, date, zone, serial, stage, editVars, landed, others>>

Next == Tick \/ Load \/ Other \/ Process \/ Lose \/ Read \/ Publish \/ Send \/ Resend

Spec == Init /\ [][Next]_vars

-----------------------------------------------------------------------------
(* Properties.                                                             *)

(* days_to_civil gives the date of the calendar for every day.             *)
CalendarCorrect == date = Civil(day)

(* A diff applied to the zone it was computed from gives the zone it was   *)
(* computed for, names, data and TTLs (apply_diff after diff).             *)
PublishedIsGoal == stage = "published" => zone = goal

(* Some name changes from a CNAME to other records or back. *)
CnameSwitch ==
  \E r \in base, s \in goal : r.name = s.name /\ (r.type = "CNAME") # (s.type = "CNAME")

(* If nobody else changed the zone, an edit that named accepted has made   *)
(* it the zone the editor wants, whatever order the entries have and       *)
(* however often the message was sent (to_updates).                        *)
UpdateReachesGoal ==
  landed > 0 /\ others = 0 /\ ~CnameSwitch => zone = goal

(* An update whose prerequisites describe the zone the diff was computed   *)
(* from either changes nothing or leaves every record set it is about with *)
(* the records the editor wants, whoever changed the zone in between and   *)
(* however late it arrives.  One that only asks for names and record sets  *)
(* to exist brings no name back that others have deleted.                  *)
EditedNames == {r.name : r \in (base \ goal) \cup (goal \ base)}

GuardedIsGoal ==
  [][ landed' > landed =>
        \A n \in EditedNames :
          /\ guard = "exact" /\ ~CnameSwitch =>
               \A t \in Types(EditedNames) :
                 Identities(Rrset(zone', n, t)) = Identities(Rrset(goal, n, t))
          /\ guard = "exists" => (Named(base, n) # {} => Named(zone, n) # {})
    ]_vars

(* An update takes no record away, and adds none, that the edit is not     *)
(* about: what others did to the zone meanwhile survives it.  Only a CNAME *)
(* gives way to the one the editor writes at its name.                     *)
Replaceable(r) ==
  r.type = "CNAME" /\ \E s \in goal \ base : s.type = "CNAME" /\ s.name = r.name

OthersSurvive ==
  [][ landed' > landed =>
        LET before == Identities(zone)
            after  == Identities(zone')
        IN /\ \A r \in before \ after :
                Replaceable(r) \/ r \in Identities(base) \ Identities(goal)
           /\ after \ before \subseteq Identities(goal)
    ]_vars

(* Secondaries copy a zone only when its serial is newer: a zone that      *)
(* changed has a newer serial, with every strategy and around the wrap.    *)
SerialAdvances ==
  [][stage # "unloaded" /\ zone' # zone => Newer(serial', serial)]_vars

(* The design document says that applying the updates of a diff produces   *)
(* the target zone; a switch between CNAME and other records does not.     *)
UpdatesProduceTarget == landed > 0 /\ others = 0 /\ sends = 1 => zone = goal
=============================================================================
