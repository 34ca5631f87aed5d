------------------------ MODULE FortigateRegistration ------------------------
(***************************************************************************)
(* POST /api/fortinet/register: a request reads the enforced rows once and *)
(* writes them to a firewall in many calls, one address object each and    *)
(* then the members of a group, while rows change and other requests do    *)
(* the same (routes/api/fortinet/management.py; routes/api/fortinet_       *)
(* register.py holds a copy that nothing calls).  The group has names, the *)
(* firewall has addresses, and a name may have no address behind it.  The  *)
(* firewall is external: any call may be refused, and one that fails to    *)
(* answer may have been carried out.                                       *)
(***************************************************************************)
EXTENDS ReadModels

CONSTANTS
    Http,        \* threads that answer requests
    MaxJobs,     \* bound: registrations of a behaviour
    JobWrites    \* bound: writes of a behaviour that registers

ASSUME JobsAssumption == MaxJobs \in Nat /\ JobWrites \in Nat /\ None \notin Http

VARIABLES
    job,         \* thread -> its registration
    device,      \* the firewall: its group, if it exists, and its addresses, and who wrote
                 \* the members last
    jobs

registration == <<job, device, jobs>>

(* `stored`: the places of the list whose address the firewall took. *)
Idle == [pc |-> "idle", list |-> <<>>, posted |-> 0, stored |-> {}, registered |-> 0, failed |-> 0,
         answer |-> None]

InitRegistration ==
    /\ job = [h \in Http |-> Idle]
    /\ device = [exists |-> FALSE, group |-> <<>>, addresses |-> {}, writer |-> None]
    /\ jobs = 0

Answer(h, status) == [job[h] EXCEPT !.pc = "done", !.answer = status]

(* WHERE is_active AND not whitelisted ORDER BY confidence_level DESC; ties, *)
(* which the statement breaks by address, are in any order.                 *)
RegistrationList(T) == List(Enforced(T), LAMBDA r : <<NullsFirst(r.confidence)>>)

BeginRegisterAnyway(h, dry, known) ==
    /\ job[h].pc = "idle"
    /\ jobs < MaxJobs
    /\ writes <= JobWrites
    /\ jobs' = jobs + 1
    /\ \E list \in Orders(List(db.rows, LAMBDA r : <<NullsFirst(r.confidence)>>)) :
           job' = [job EXCEPT ![h] = [@ EXCEPT !.pc = "check", !.list = list]]
    /\ UNCHANGED device

(* Checks that need no firewall: the target, the device's registration, trust. *)
BeginRegister(h, dry, known) ==
    /\ job[h].pc = "idle"
    /\ jobs < MaxJobs
    /\ writes <= JobWrites
    /\ jobs' = jobs + 1
    /\ IF ~db.up THEN job' = [job EXCEPT ![h] = Answer(h, 500)]
       ELSE \E list \in Orders(RegistrationList(db)) :
                job' = [job EXCEPT ![h] =
                            IF dry THEN [Answer(h, 200) EXCEPT !.registered = Len(list)]
                            ELSE IF ~known THEN Answer(h, 400)
                            ELSE [@ EXCEPT !.pc = "check", !.list = list]]
    /\ UNCHANGED device

(* As many members as addresses were registered, the first of the list. *)
AllMembers(j) == j.list

Members(j)    == SubSeq(j.list, 1, j.registered)

(* What a call does to a firewall that carries it out. *)
EffectOffByOne(h, call) ==
    LET j == job[h]
    IN  CASE call = "create" -> [device EXCEPT !.exists = TRUE]
          [] call = "post"   -> [device EXCEPT !.addresses = @ \cup {j.list[Max({1, j.posted})].ip}]
          [] call = "put"    -> [device EXCEPT !.group = Members(j), !.writer = h]
          [] OTHER           -> device

Effect(h, call) ==
    LET j == job[h]
    IN  CASE call = "create" -> [device EXCEPT !.exists = TRUE]
          [] call = "post"   -> [device EXCEPT !.addresses = @ \cup {j.list[j.posted + 1].ip}]
          [] call = "put"    -> [device EXCEPT !.group = Members(j), !.writer = h]
          [] OTHER           -> device

(* No answer of the firewall ends the request; what was written stays. *)
Unreachable(h) ==
    /\ job[h].pc \in {"check", "create", "post", "put"}
    /\ job[h].pc = "post" => job[h].posted < Len(job[h].list)
    /\ device' \in {device} \cup (IF job[h].pc = "put" /\ ~device.exists THEN {} ELSE {Effect(h, job[h].pc)})
    /\ job' = [job EXCEPT ![h] = Answer(h, 500)]
    /\ UNCHANGED jobs

(* Only 404 has the group created: after any other answer the addresses are *)
(* posted, with or without a group.                                         *)
CheckGroup(h) ==
    /\ job[h].pc = "check"
    /\ \E status \in {200, 401, 404} :
           /\ status = 200 => device.exists
           /\ status = 404 => ~device.exists
           /\ job' = [job EXCEPT ![h].pc = IF status = 404 THEN "create" ELSE "post"]
    /\ UNCHANGED <<device, jobs>>

(* A group that is not created ends the request. *)
CreateGroup(h) ==
    /\ job[h].pc = "create"
    /\ \/ /\ ~device.exists
          /\ device' = Effect(h, "create")
          /\ job' = [job EXCEPT ![h].pc = "post"]
       \/ /\ job' = [job EXCEPT ![h] = Answer(h, 500)]
          /\ UNCHANGED device
    /\ UNCHANGED jobs

(* 424, a dependency that failed, counts like success but stores nothing. *)
PostAddress(h) ==
    /\ job[h].pc = "post"
    /\ job[h].posted < Len(job[h].list)
    /\ \E status \in {201, 424, 500} :
           LET counted == IF status \in {201, 424} THEN 1 ELSE 0
               place == job[h].posted + 1
           IN  /\ device' = IF status = 201 THEN Effect(h, "post") ELSE device
               /\ job' = [job EXCEPT ![h].posted = place, ![h].registered = @ + counted,
                                     ![h].failed = @ + 1 - counted,
                                     ![h].stored = IF status = 201 THEN @ \cup {place} ELSE @]
    /\ UNCHANGED jobs

AddressesPosted(h) ==
    /\ job[h].pc = "post"
    /\ job[h].posted = Len(job[h].list)
    /\ job' = [job EXCEPT ![h] = IF @.registered > 0 THEN [@ EXCEPT !.pc = "put"] ELSE Answer(h, 200)]
    /\ UNCHANGED <<device, jobs>>

(* A refused PUT is logged; the answer is a success all the same. *)
PutGroup(h) ==
    /\ job[h].pc = "put"
    /\ \/ device.exists /\ device' = Effect(h, "put")
       \/ UNCHANGED device
    /\ job' = [job EXCEPT ![h] = Answer(h, 200)]
    /\ UNCHANGED jobs

Register ==
    \E h \in Http :
        \/ \E dry, known \in BOOLEAN : BeginRegister(h, dry, known)
        \/ Unreachable(h)
        \/ CheckGroup(h) \/ CreateGroup(h)
        \/ PostAddress(h)
        \/ AddressesPosted(h)
        \/ PutGroup(h)

(* A behaviour has walking clients or registrations: they share no state but *)
(* the tables, which neither changes.                                        *)
SystemNext ==
    \/ /\ jobs > 0 => writes < JobWrites
       /\ Write
       /\ UNCHANGED registration
    \/ /\ jobs = 0
       /\ \/ \E name \in ListNames : StartWalk(name)
          \/ FirstStatement \/ SecondStatement \/ RequestFails
          \/ EndWalk
       /\ UNCHANGED registration
    \/ /\ walk = None
       /\ Register
       /\ UNCHANGED <<tables, walk>>

SystemInit == InitTables /\ InitRegistration

SystemSpec ==
    SystemInit /\ [][SystemNext]_<<tables, walk, registration>>

-----------------------------------------------------------------------------
(* Properties *)

(* The group names the rows that matter most: whatever addresses were       *)
(* refused and whoever else registers or writes rows meanwhile, no row its  *)
(* writer read and left out has a higher confidence than one it named, the  *)
(* names are as many as that answer says, and all if none failed.  It is    *)
(* said of names only; their addresses are the next property's.             *)
GroupNamesTheWorst ==
    \A h \in Http :
        LET j == job[h]
            group == device.group
        IN  device.writer = h /\ j.pc = "done" =>
            /\ Len(group) = j.registered
            /\ j.failed = 0 => group = j.list
            /\ \A i \in DOMAIN j.list, k \in DOMAIN group :
                   i \notin DOMAIN group => j.list[i].confidence <= group[k].confidence

(* A name has its address on the firewall, whoever else registers, unless   *)
(* the firewall refused it or answered 424 to the group's writer; and a     *)
(* stored address is left out of the group only where a refused one took    *)
(* its place.                                                               *)
NamesHaveAddresses ==
    \A h \in Http :
        LET j == job[h]
            group == device.group
        IN  device.writer = h =>
            /\ \A k \in DOMAIN group : k \in j.stored => group[k].ip \in device.addresses
            /\ Cardinality(j.stored \ DOMAIN group) <= j.failed

(* With a quiet database and a firewall that stores every address, the      *)
(* group is the feed and every address of the feed is on the firewall; dry  *)
(* runs and rejected requests write nothing.                                *)
CleanRegistrationPublishesFeed ==
    /\ \A h \in Http :
           device.writer = h /\ job[h].stored = DOMAIN job[h].list /\ writes = 0 =>
               LET feed == {r.ip : r \in GetThreatFeed(db).rows}
               IN  {r.ip : r \in ToSet(device.group)} = feed /\ feed \subseteq device.addresses
    /\ (\A h \in Http : job[h].list = <<>>) => device.addresses = {} /\ device.writer = None

(* What a registration leaves on the firewall: the names of the worst rows, *)
(* addresses behind the names that were stored, and the whole feed if       *)
(* nothing was refused (management.py).                                     *)
FirewallHoldsTheWorst == GroupNamesTheWorst /\ NamesHaveAddresses /\ CleanRegistrationPublishesFeed

=============================================================================
