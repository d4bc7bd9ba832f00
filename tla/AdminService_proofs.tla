------------------------- MODULE AdminService_proofs -------------------------
(***************************************************************************)
(* For any number of callers, requests, accounts and restarts: what the    *)
(* statements of overlapping handlers leave in the administration database *)
(* fits together.                                                          *)
(*                                                                         *)
(* ListedUsersExist needs what each step of CreateUser may rely on         *)
(* (CreationsInv).  ApprovedMeansSubmitted needs that, as long as the job  *)
(* table holds no job of a request, its row and the copies under way are   *)
(* never pending here and approved there (NoLateApproval): a late write    *)
(* can then only repeat an approval whose job exists.                      *)
(***************************************************************************)
EXTENDS AdminService, TLAPS

(* Every name of a list in use has a role.                                 *)
Backed(list) == Entries(list) \subseteq DOMAIN roles

CreationsInv ==
  \A c \in Creators :
    LET k == creations[c]
    IN  /\ k.step = "role" => k.username \in passwords \cup unsaved
        /\ k.step \in {"read_list", "write_list"} /\ k.username \notin Quoted =>
             k.username \in DOMAIN roles
        /\ Backed(k.user_list)

AccountsInv ==
  /\ AccountsTypeOK
  /\ DOMAIN roles \subseteq passwords \cup unsaved
  /\ Backed(user_list)
  /\ CreationsInv

-----------------------------------------------------------------------------
LEMMA NoCreationTyped == NoCreation \in Creation /\ Entries(NoCreation.user_list) = {}
<1>1. Root \in Names
  BY AccountAssumption DEF Entries
<1> QED
  BY <1>1 DEF NoCreation, Creation, Roles, Entries

LEMMA BuiltInTyped == BuiltIn \subseteq Names /\ BuiltInList \in Seq(Names)
BY AccountAssumption DEF BuiltIn, Entries

LEMMA AppendedList ==
  ASSUME NEW list \in Seq(Names), NEW n \in Names
  PROVE  /\ Append(list, n) \in Seq(Names)
         /\ Entries(Append(list, n)) = Entries(list) \cup {n}
<1>1. /\ Append(list, n) \in Seq(Names) /\ DOMAIN list = 1..Len(list)
      /\ DOMAIN Append(list, n) = 1..(Len(list) + 1)
      /\ \A i \in 1..Len(list) : Append(list, n)[i] = list[i]
      /\ Append(list, n)[Len(list) + 1] = n /\ Len(list) \in Nat
  OBVIOUS
<1>2. \A i \in 1..(Len(list) + 1) : i \in 1..Len(list) \/ i = Len(list) + 1
  BY <1>1
<1>3. 1..Len(list) \subseteq 1..(Len(list) + 1) /\ Len(list) + 1 \in 1..(Len(list) + 1)
  BY <1>1
<1>4. Entries(Append(list, n)) \subseteq Entries(list) \cup {n}
  BY <1>1, <1>2 DEF Entries
<1>5. Entries(list) \cup {n} \subseteq Entries(Append(list, n))
  BY <1>1, <1>3 DEF Entries
<1> QED
  BY <1>1, <1>4, <1>5

LEMMA InitAccounts == AccountsInit => AccountsInv
<1> SUFFICES ASSUME AccountsInit PROVE AccountsInv
  OBVIOUS
<1>1. /\ passwords = BuiltIn /\ DOMAIN roles = BuiltIn /\ user_list = BuiltInList
      /\ roles \in [BuiltIn -> Roles] /\ unsaved = {}
      /\ creations \in [Creators -> {NoCreation}]
  BY DEF AccountsInit, Roles
<1>2. \A c \in Creators : creations[c].step = "idle" /\ Entries(creations[c].user_list) = {}
  BY <1>1, NoCreationTyped DEF NoCreation
<1> QED
  BY <1>1, <1>2, NoCreationTyped, BuiltInTyped
     DEF AccountsInv, AccountsTypeOK, CreationsInv, Backed, BuiltIn

(* The five statements of CreateUser, and the restart.                     *)
LEMMA CreateUserKeepsInv ==
  ASSUME AccountsInv, NEW c \in Creators, CreateUser(c)
  PROVE  AccountsInv'
<1>1. /\ creations \in [Creators -> Creation] /\ roles \in [DOMAIN roles -> Roles]
      /\ passwords \cup DOMAIN roles \cup unsaved \subseteq Names
      /\ user_list \in Seq(Names)
      /\ creations[c].username \in Names /\ creations[c].role \in Roles
      /\ creations[c].user_list \in Seq(Names)
  BY DEF AccountsInv, AccountsTypeOK, Creation
<1>3. CASE \E n \in Names, role \in Roles : CheckUser(c, n, role)
  <2>1. PICK n \in Names, role \in Roles : CheckUser(c, n, role)
    BY <1>3
  <2>2. /\ [step |-> "password", username |-> n, role |-> role, user_list |-> <<>>] \in Creation
        /\ Entries(<<>>) = {}
    BY DEF Creation, Entries
  <2> QED
    BY <1>1, <2>1, <2>2 DEF CheckUser, AccountsInv, AccountsTypeOK, CreationsInv, Backed
<1>4. CASE SetPassword(c)
  <2>1. /\ creations' \in [Creators -> Creation]
        /\ \A d \in Creators :
             /\ creations'[d].username = creations[d].username
             /\ creations'[d].user_list = creations[d].user_list
             /\ d # c => creations'[d].step = creations[d].step
        /\ creations'[c].step = "role"
    BY <1>1, <1>4 DEF SetPassword, GoTo, Creation
  <2>2. /\ passwords' \cup unsaved' = passwords \cup unsaved \cup {creations[c].username}
        /\ UNCHANGED <<roles, user_list>>
    BY <1>4 DEF SetPassword
  <2>3. AccountsTypeOK'
    BY <1>1, <2>1, <2>2 DEF AccountsTypeOK
  <2> QED
    BY <2>1, <2>2, <2>3 DEF AccountsInv, CreationsInv, Backed
<1>5. CASE SetRole(c)
  <2>1. /\ DOMAIN roles' = DOMAIN roles \cup ({creations[c].username} \ Quoted)
        /\ roles' \in [DOMAIN roles' -> Roles]
    BY <1>1, <1>5 DEF SetRole, Put
  <2>2. /\ creations' \in [Creators -> Creation]
        /\ \A d \in Creators :
             /\ creations'[d].username = creations[d].username
             /\ creations'[d].user_list = creations[d].user_list
             /\ d # c => creations'[d].step = creations[d].step
        /\ creations'[c].step = "read_list" /\ creations[c].step = "role"
    BY <1>1, <1>5 DEF SetRole, GoTo, Creation
  <2>3. UNCHANGED <<passwords, user_list, unsaved>>
    BY <1>5 DEF SetRole
  <2>4. AccountsTypeOK'
    BY <1>1, <2>1, <2>2, <2>3 DEF AccountsTypeOK
  <2>5. creations[c].username \in passwords \cup unsaved
    BY <2>2 DEF AccountsInv, CreationsInv
  <2>6. CreationsInv'
    BY <2>1, <2>2, <2>3 DEF AccountsInv, CreationsInv, Backed
  <2> QED
    BY <2>1, <2>3, <2>4, <2>5, <2>6 DEF AccountsInv, Backed
<1>6. CASE ReadList(c)
  <2>1. CASE creations' = [creations EXCEPT ![c] = NoCreation]
    <3>1. /\ creations' \in [Creators -> Creation]
          /\ creations'[c].step = "idle" /\ Entries(creations'[c].user_list) = {}
          /\ \A d \in Creators : d # c => creations'[d] = creations[d]
      BY <1>1, NoCreationTyped, <2>1 DEF NoCreation
    <3> QED
      BY <1>1, <1>6, <3>1 DEF ReadList, AccountsInv, AccountsTypeOK, CreationsInv, Backed
  <2>2. CASE creations' = [creations EXCEPT ![c] =
               [@ EXCEPT !.step = "write_list", !.user_list = user_list]]
    <3>1. [creations[c] EXCEPT !.step = "write_list", !.user_list = user_list] \in Creation
      BY <1>1 DEF Creation
    <3>2. /\ creations' \in [Creators -> Creation]
          /\ creations[c].step = "read_list"
          /\ creations'[c] = [creations[c] EXCEPT !.step = "write_list",
                                                !.user_list = user_list]
          /\ \A d \in Creators : d # c => creations'[d] = creations[d]
      BY <1>1, <1>6, <3>1, <2>2 DEF ReadList
    <3>3. /\ creations'[c].step = "write_list"
          /\ creations'[c].username = creations[c].username
          /\ creations'[c].user_list = user_list
      BY <1>1, <3>2 DEF Creation
    <3> QED
      BY <1>1, <1>6, <3>2, <3>3
         DEF ReadList, AccountsInv, AccountsTypeOK, CreationsInv, Backed
  <2> QED
    BY <1>1, <1>6, <2>1, <2>2 DEF ReadList
<1>7. CASE WriteList(c)
  <2>1. /\ creations' \in [Creators -> Creation]
        /\ creations'[c].step = "idle" /\ Entries(creations'[c].user_list) = {}
        /\ \A d \in Creators : d # c => creations'[d] = creations[d]
    BY <1>1, <1>7, NoCreationTyped DEF WriteList, NoCreation
  <2>2. UNCHANGED <<passwords, roles, unsaved>>
    BY <1>7 DEF WriteList
  <2>3. /\ creations[c].username \notin Quoted => creations[c].username \in DOMAIN roles
        /\ Backed(creations[c].user_list) /\ Backed(user_list)
    BY <1>7 DEF WriteList, AccountsInv, CreationsInv
  <2>4. user_list' \in Seq(Names) /\ Entries(user_list') \subseteq DOMAIN roles
    <3>1. CASE creations[c].username \in Quoted
      BY <1>1, <1>7, <2>3, <3>1 DEF WriteList, Backed
    <3>2. CASE creations[c].username \notin Quoted
      BY <1>1, <1>7, <2>3, <3>2, AppendedList DEF WriteList, Backed
    <3> QED
      BY <3>1, <3>2
  <2> QED
    BY <1>1, <2>1, <2>2, <2>4 DEF AccountsInv, AccountsTypeOK, CreationsInv, Backed
<1> QED
  BY <1>3, <1>4, <1>5, <1>6, <1>7 DEF CreateUser

LEMMA RestartKeepsAccounts ==
  ASSUME AccountsInv, AccountsRestart
  PROVE  AccountsInv'
<1>1. /\ roles \in [DOMAIN roles -> Roles]
      /\ passwords \cup DOMAIN roles \cup unsaved \subseteq Names
  BY DEF AccountsInv, AccountsTypeOK
<1>2. /\ passwords' = passwords \cup BuiltIn /\ user_list' = BuiltInList
      /\ DOMAIN roles' = DOMAIN roles \cup BuiltIn
      /\ roles' \in [DOMAIN roles' -> Roles] /\ unsaved' = unsaved
      /\ creations' \in [Creators -> {NoCreation}]
  BY <1>1 DEF AccountsRestart, Roles
<1>3. \A c \in Creators :
        /\ creations'[c] \in Creation /\ creations'[c].step = "idle"
        /\ Entries(creations'[c].user_list) = {}
  BY <1>2, NoCreationTyped DEF NoCreation
<1>4. AccountsTypeOK'
  BY <1>1, <1>2, <1>3, BuiltInTyped DEF AccountsTypeOK
<1> QED
  BY <1>2, <1>3, <1>4 DEF AccountsInv, CreationsInv, Backed, BuiltIn

-----------------------------------------------------------------------------
JobSpecs == [request: RequestIds, archive: Archives \cup {NoArchive}]

Copies == [status: RequestStatus, requested_spec: JobSpecs]

(* Every copy of a request describes the request it is a copy of.          *)
RequestsTyped ==
  /\ DOMAIN job_requests \subseteq RequestIds
  /\ job_requests \in [DOMAIN job_requests -> [status: RequestStatus, data: Copies]]
  /\ calls \in [Callers -> [step: {"idle", "submit_job", "write", "not_found"},
                            meant: RequestIds, req: Copies]]
  /\ \A id \in DOMAIN job_requests : job_requests[id].data.requested_spec.request = id
  /\ \A c \in Callers :
       calls[c].step \in {"submit_job", "write"} =>
         /\ calls[c].meant \in DOMAIN job_requests
         /\ calls[c].req.requested_spec.request = calls[c].meant
  /\ DOMAIN jobs \subseteq issued

HasJob(id) == \E j \in DOMAIN jobs : jobs[j].spec.request = id

(* The statuses a request has in its row and in the copies to be written.  *)
Seen(id) ==
  {job_requests[id].data.status} \cup
  {calls[c].req.status :
     c \in {d \in Callers : calls[d].step = "write" /\ calls[d].meant = id}}

NoLateApproval ==
  \A id \in DOMAIN job_requests :
    HasJob(id) \/ ~({"PENDING", "APPROVED"} \subseteq Seen(id))

RequestsInv == RequestsTyped /\ StatusStoredTwice /\ NoLateApproval

-----------------------------------------------------------------------------
LEMMA IdleTyped ==
  /\ Idle \in [step: {"idle", "submit_job", "write", "not_found"},
               meant: RequestIds, req: Copies]
  /\ Idle.step = "idle"
<1>1. (CHOOSE i \in RequestIds : TRUE) \in RequestIds
  BY RequestAssumption
<1> QED
  BY <1>1 DEF Idle, NoSpec, Copies, JobSpecs, RequestStatus

LEMMA InitRequests ==
  ASSUME RequestsInit, JobManagerInit
  PROVE  RequestsInv
<1>1. DOMAIN job_requests = {} /\ DOMAIN jobs = {} /\ job_requests = [k \in {} |-> 0]
  BY DEF RequestsInit, JobManagerInit, EmptyTable
<1>2. calls \in [Callers -> {Idle}]
  BY DEF RequestsInit
<1>3. \A c \in Callers : calls[c].step = "idle"
  BY <1>2, IdleTyped
<1>4. RequestsTyped
  BY <1>1, <1>2, <1>3, IdleTyped DEF RequestsTyped
<1> QED
  BY <1>1, <1>4 DEF RequestsInv, StatusStoredTwice, NoLateApproval

(* A call takes over the status of a row, or rejects.                      *)
LEMMA SeenShrinks ==
  ASSUME RequestsInv, RequestsTyped', StatusStoredTwice',
         \A id \in DOMAIN job_requests' :
           \/ HasJob(id)'
           \/ ~({"PENDING", "APPROVED"} \subseteq Seen(id)')
           \/ /\ id \in DOMAIN job_requests
              /\ Seen(id)' \subseteq Seen(id) \cup {"REJECTED"}
              /\ HasJob(id) => HasJob(id)'
  PROVE  RequestsInv'
BY DEF RequestsInv, NoLateApproval

(* SubmitPublicRequest: nobody holds a copy of a request that is not there. *)
LEMMA SubmitPublicKeepsInv ==
  ASSUME RequestsInv, NEW id \in RequestIds, SubmitPublicRequest(id)
  PROVE  RequestsInv'
<1> DEFINE req == [status |-> "PENDING", requested_spec |-> NoSpec(id)]
<1>1. req \in Copies /\ req.status = "PENDING" /\ req.requested_spec.request = id
  BY DEF Copies, JobSpecs, NoSpec, RequestStatus
<1>2. CASE id \in DOMAIN job_requests
  BY <1>2 DEF SubmitPublicRequest, add_job_request, commonVars, RequestsInv, RequestsTyped,
     StatusStoredTwice, NoLateApproval, HasJob, Seen
<1>3. CASE id \notin DOMAIN job_requests
  <2>1. /\ DOMAIN job_requests' = DOMAIN job_requests \cup {id}
        /\ job_requests'[id] = [status |-> "PENDING", data |-> req]
        /\ \A k \in DOMAIN job_requests : job_requests'[k] = job_requests[k]
        /\ UNCHANGED <<jobs, issued, calls>>
    BY <1>3 DEF SubmitPublicRequest, add_job_request, Put, commonVars
  <2> HIDE DEF req
  <2>2. job_requests' \in [DOMAIN job_requests' -> [status: RequestStatus, data: Copies]]
    BY <1>1, <2>1 DEF SubmitPublicRequest, add_job_request, Put, RequestsInv, RequestsTyped,
       RequestStatus
  <2>3. RequestsTyped' /\ StatusStoredTwice'
    BY <1>1, <2>1, <2>2 DEF RequestsInv, RequestsTyped, StatusStoredTwice
  <2>4. Seen(id)' = {"PENDING"}
    BY <1>1, <1>3, <2>1 DEF RequestsInv, RequestsTyped, Seen
  <2>5. \A k \in DOMAIN job_requests : Seen(k)' = Seen(k)
    BY <2>1 DEF Seen
  <2>6. \A k : HasJob(k)' <=> HasJob(k)
    BY <2>1 DEF HasJob
  <2> QED
    BY <2>1, <2>3, <2>4, <2>5, <2>6, SeenShrinks
<1> QED
  BY <1>2, <1>3

(* The read of a handler, which an update and a review share: the copy is  *)
(* the stored one, or a decision on it that still has to be submitted, or  *)
(* a rejection.                                                            *)
LEMMA ReadKeepsInv ==
  ASSUME RequestsInv, NEW c \in Callers, NEW meant \in RequestIds, NEW name,
         NEW step \in {"submit_job", "write"}, NEW changed,
         Read(c, meant, name, step, changed),
         name \in DOMAIN job_requests =>
           /\ changed \in Copies /\ changed.requested_spec.request = name
           /\ \/ step = "submit_job" \/ changed.status = "REJECTED"
              \/ changed.status = job_requests[name].data.status
  PROVE  RequestsInv'
<1>1. /\ UNCHANGED <<job_requests, jobs, issued>>
      /\ calls[c].step \in {"idle", "not_found"}
  BY DEF Read, commonVars
<1>2. \A k : HasJob(k)' <=> HasJob(k)
  BY <1>1 DEF HasJob
<1> DEFINE CallStates == [step: {"idle", "submit_job", "write", "not_found"},
                          meant: RequestIds, req: Copies]
<1>3. calls \in [Callers -> CallStates] /\ DOMAIN job_requests \subseteq RequestIds
  BY DEF RequestsInv, RequestsTyped
<1>4. CASE name \in DOMAIN job_requests
  <2> DEFINE k == [step |-> step, meant |-> name, req |-> changed]
  <2>1. calls' = [calls EXCEPT ![c] = k] /\ k \in CallStates
    BY <1>3, <1>4 DEF Read
  <2>2. /\ calls' \in [Callers -> CallStates]
        /\ calls'[c].step = step /\ calls'[c].meant = name /\ calls'[c].req = changed
        /\ \A d \in Callers : d # c => calls'[d] = calls[d]
    BY <1>3, <2>1
  <2>3. RequestsTyped' /\ StatusStoredTwice'
    BY <1>1, <1>4, <2>2 DEF RequestsInv, RequestsTyped, StatusStoredTwice
  <2>4. \A i \in DOMAIN job_requests : Seen(i)' \subseteq Seen(i) \cup {"REJECTED"}
    BY <1>1, <1>4, <2>2 DEF Seen
  <2> QED
    BY <1>1, <1>2, <2>3, <2>4, SeenShrinks
<1>5. CASE name \notin DOMAIN job_requests
  <2> DEFINE k == [Idle EXCEPT !.step = "not_found", !.meant = meant]
  <2>1. calls' = [calls EXCEPT ![c] = k] /\ k \in CallStates /\ k.step = "not_found"
    BY <1>5, IdleTyped DEF Read
  <2>2. /\ calls' \in [Callers -> CallStates] /\ calls'[c].step = "not_found"
        /\ \A d \in Callers : d # c => calls'[d] = calls[d]
    BY <1>3, <2>1
  <2>3. RequestsTyped' /\ StatusStoredTwice'
    BY <1>1, <2>2 DEF RequestsInv, RequestsTyped, StatusStoredTwice
  <2>4. \A i \in DOMAIN job_requests : Seen(i)' \subseteq Seen(i)
    BY <1>1, <2>2 DEF Seen
  <2> QED
    BY <1>1, <1>2, <2>3, <2>4, SeenShrinks
<1> QED
  BY <1>4, <1>5

LEMMA UpdateKeepsInv ==
  ASSUME RequestsInv, NEW c \in Callers, UpdateJobRequest(c)
  PROVE  RequestsInv'
<1>1. ASSUME NEW id \in DOMAIN job_requests, NEW name, NEW archive \in Archives \cup {NoArchive},
             ReadForUpdate(c, id, name, archive)
      PROVE  RequestsInv'
  <2> DEFINE changed == [job_requests[name].data EXCEPT !.requested_spec.archive =
                           IF archive # NoArchive THEN archive ELSE @]
  <2>1. Read(c, id, name, "write", changed) /\ id \in RequestIds
    BY <1>1 DEF ReadForUpdate, RequestsInv, RequestsTyped
  <2>2. ASSUME name \in DOMAIN job_requests
        PROVE  /\ changed \in Copies /\ changed.requested_spec.request = name
               /\ changed.status = job_requests[name].data.status
    <3>1. /\ job_requests[name].data \in Copies
          /\ job_requests[name].data.requested_spec.request = name
      BY <2>2 DEF RequestsInv, RequestsTyped
    <3> QED
      BY <3>1 DEF Copies, JobSpecs
  <2> HIDE DEF changed
  <2> QED
    BY <2>1, <2>2, ReadKeepsInv
<1> QED
  BY <1>1 DEF UpdateJobRequest, UploadFromForm

LEMMA ReviewKeepsInv ==
  ASSUME RequestsInv, NEW c \in Callers, AdminReviewRequest(c)
  PROVE  RequestsInv'
<1>1. ASSUME NEW id \in DOMAIN job_requests, NEW name, NEW approve \in BOOLEAN,
             ReadForReview(c, id, name, approve)
      PROVE  RequestsInv'
  <2> DEFINE step    == IF approve THEN "submit_job" ELSE "write"
             changed == [job_requests[name].data EXCEPT !.status =
                           IF approve THEN "APPROVED" ELSE "REJECTED"]
  <2>1. /\ Read(c, id, name, step, changed) /\ id \in RequestIds
        /\ step \in {"submit_job", "write"}
    BY <1>1 DEF ReadForReview, RequestsInv, RequestsTyped
  <2>2. ASSUME name \in DOMAIN job_requests
        PROVE  /\ changed \in Copies /\ changed.requested_spec.request = name
               /\ step = "submit_job" \/ changed.status = "REJECTED"
    <3>1. /\ job_requests[name].data \in Copies
          /\ job_requests[name].data.requested_spec.request = name
      BY <2>2 DEF RequestsInv, RequestsTyped
    <3> QED
      BY <3>1 DEF Copies, RequestStatus
  <2> HIDE DEF changed, step
  <2> QED
    BY <2>1, <2>2, ReadKeepsInv
<1> QED
  BY <1>1 DEF AdminReviewRequest, ReviewThroughRoute

LEMMA SubmitApprovedKeepsInv ==
  ASSUME RequestsInv, NEW c \in Callers, NEW j \in JobIds, SubmitApproved(c, j)
  PROVE  RequestsInv'
<1>1. /\ j \notin issued /\ j \notin DOMAIN jobs /\ issued' = issued \cup {j}
      /\ calls[c].step = "submit_job"
      /\ UNCHANGED job_requests
  BY DEF SubmitApproved, submit_job, Fresh, RequestsInv, RequestsTyped
<1>2. /\ DOMAIN jobs' = DOMAIN jobs \cup {j}
      /\ jobs'[j].spec = calls[c].req.requested_spec
      /\ \A i \in DOMAIN jobs : jobs'[i] = jobs[i]
  BY <1>1 DEF SubmitApproved, submit_job, Put
<1>3. /\ calls' \in [Callers -> [step: {"idle", "submit_job", "write", "not_found"},
                                 meant: RequestIds, req: Copies]]
      /\ calls'[c].step = "write"
      /\ calls'[c].meant = calls[c].meant /\ calls'[c].req = calls[c].req
      /\ \A d \in Callers : d # c => calls'[d] = calls[d]
  BY <1>1 DEF SubmitApproved, RequestsInv, RequestsTyped
<1>4. RequestsTyped' /\ StatusStoredTwice'
  BY <1>1, <1>2, <1>3 DEF RequestsInv, RequestsTyped, StatusStoredTwice
<1>5. PICK id : id = calls[c].meant
  OBVIOUS
<1>6. HasJob(id)'
  BY <1>1, <1>2, <1>5 DEF HasJob, RequestsInv, RequestsTyped
<1>7. \A k : HasJob(k) => HasJob(k)'
  BY <1>2 DEF HasJob
<1>8. \A k : k # id => Seen(k)' = Seen(k)
  BY <1>1, <1>3, <1>5 DEF Seen
<1> QED
  BY <1>1, <1>4, <1>6, <1>7, <1>8, SeenShrinks

LEMMA WriteBackKeepsInv ==
  ASSUME RequestsInv, NEW c \in Callers, WriteBack(c)
  PROVE  RequestsInv'
<1>1. PICK id \in DOMAIN job_requests :
        /\ calls[c].step = "write" /\ calls[c].meant = id
        /\ calls[c].req \in Copies /\ calls[c].req.requested_spec.request = id
        /\ UNCHANGED <<jobs, issued>>
  BY DEF WriteBack, RequestsInv, RequestsTyped, commonVars
<1>2. calls' = [calls EXCEPT ![c] = Idle]
  BY DEF WriteBack
<1>3. /\ calls' \in [Callers -> [step: {"idle", "submit_job", "write", "not_found"},
                                 meant: RequestIds, req: Copies]]
      /\ calls'[c].step = "idle"
      /\ \A d \in Callers : d # c => calls'[d] = calls[d]
  BY <1>2, IdleTyped DEF RequestsInv, RequestsTyped
<1>4. /\ DOMAIN job_requests' = DOMAIN job_requests
      /\ job_requests'[id] = [status |-> calls[c].req.status, data |-> calls[c].req]
      /\ \A k \in DOMAIN job_requests : k # id => job_requests'[k] = job_requests[k]
  BY <1>1 DEF WriteBack, update_request_status, RequestsInv, RequestsTyped
<1>5. job_requests' \in [DOMAIN job_requests' -> [status: RequestStatus, data: Copies]]
  <2>1. [status |-> calls[c].req.status, data |-> calls[c].req]
          \in [status: RequestStatus, data: Copies]
    BY <1>1 DEF Copies
  <2> QED
    BY <2>1 DEF WriteBack, update_request_status, RequestsInv, RequestsTyped
<1>6. RequestsTyped' /\ StatusStoredTwice'
  <2>1. /\ \A k \in DOMAIN job_requests' : job_requests'[k].data.requested_spec.request = k
        /\ StatusStoredTwice'
    BY <1>1, <1>4 DEF RequestsInv, RequestsTyped, StatusStoredTwice
  <2>2. \A d \in Callers :
          calls'[d].step \in {"submit_job", "write"} =>
            /\ calls'[d].meant \in DOMAIN job_requests'
            /\ calls'[d].req.requested_spec.request = calls'[d].meant
    BY <1>3, <1>4 DEF RequestsInv, RequestsTyped
  <2> QED
    BY <1>1, <1>3, <1>4, <1>5, <2>1, <2>2 DEF RequestsInv, RequestsTyped
<1>7. \A k \in DOMAIN job_requests : Seen(k)' \subseteq Seen(k)
  <2>1. calls[c].req.status \in Seen(id)
    BY <1>1 DEF Seen
  <2>2. Seen(id)' \subseteq Seen(id)
    BY <1>1, <1>3, <1>4, <2>1 DEF Seen
  <2> QED
    BY <1>1, <1>3, <1>4, <2>2 DEF Seen
<1>8. \A k : HasJob(k)' <=> HasJob(k)
  BY <1>1 DEF HasJob
<1> QED
  BY <1>4, <1>6, <1>7, <1>8, SeenShrinks

(* After a restart there are rows and nothing else.                        *)
LEMMA RestartKeepsRequests ==
  ASSUME RequestsInv, RequestsRestart
  PROVE  RequestsInv'
<1>1. /\ DOMAIN jobs' = {} /\ UNCHANGED <<job_requests, issued>>
      /\ calls' \in [Callers -> {Idle}]
  BY DEF RequestsRestart, EmptyTable, commonVars
<1>2. \A c \in Callers : calls'[c].step = "idle"
  BY <1>1, IdleTyped
<1>3. RequestsTyped' /\ StatusStoredTwice'
  BY <1>1, <1>2, IdleTyped DEF RequestsInv, RequestsTyped, StatusStoredTwice
<1>4. \A k \in DOMAIN job_requests : ~({"PENDING", "APPROVED"} \subseteq Seen(k)')
  BY <1>1, <1>2 DEF Seen
<1> QED
  BY <1>1, <1>3, <1>4, SeenShrinks

LEMMA RequestsStepKeepsInv ==
  ASSUME RequestsInv, RequestsStep
  PROVE  RequestsInv'
BY SubmitPublicKeepsInv, UpdateKeepsInv, ReviewKeepsInv, SubmitApprovedKeepsInv,
   WriteBackKeepsInv DEF RequestsStep

-----------------------------------------------------------------------------
AdminInv == AccountsInv /\ RequestsInv /\ restarts \in 0..MaxRestarts

LEMMA InitAdminInv == AdminInit => AdminInv
BY InitAccounts, InitRequests, AdminAssumption DEF AdminInit, AdminInv

LEMMA NextKeepsInv ==
  ASSUME AdminInv, [AdminNext]_adminVars
  PROVE  AdminInv'
<1>1. CASE RequestsStep /\ UNCHANGED <<accountVars, restarts>>
  BY <1>1, RequestsStepKeepsInv
     DEF AdminInv, accountVars, AccountsInv, AccountsTypeOK, CreationsInv, Backed
<1>2. CASE \E c \in Creators :
             CreateUser(c) /\ UNCHANGED <<jobs, commonVars, requestVars, restarts>>
  <2>1. AccountsInv'
    BY <1>2, CreateUserKeepsInv DEF AdminInv
  <2> QED
    BY <1>2, <2>1 DEF AdminInv, commonVars, requestVars, RequestsInv, RequestsTyped,
       StatusStoredTwice, NoLateApproval, HasJob, Seen
<1>3. CASE RestartMaster
  BY <1>3, RestartKeepsAccounts, RestartKeepsRequests, AdminAssumption
     DEF AdminInv, RestartMaster
<1>4. CASE UNCHANGED adminVars
  BY <1>4 DEF AdminInv, adminVars, commonVars, requestVars, accountVars, RequestsInv,
     RequestsTyped, StatusStoredTwice, NoLateApproval, HasJob, Seen, AccountsInv,
     AccountsTypeOK, CreationsInv, Backed
<1> QED
  BY <1>1, <1>2, <1>3, <1>4 DEF AdminNext, AdminStep

(* AdminInv is an invariant of the administration half.                    *)
THEOREM AdminInvariant == AdminSpec => []AdminInv
BY InitAdminInv, NextKeepsInv, PTL DEF AdminSpec

(* The store and the handlers keep their types; a row, and the copy that a *)
(* handler will write into it, describe the request it is stored under.    *)
THEOREM AdminTyped == AdminSpec => []AdminTypeOK
<1>1. AdminInv => AdminTypeOK
  <2> SUFFICES ASSUME AdminInv PROVE AdminTypeOK
    OBVIOUS
  <2>1. Copies \subseteq JobRequest
    BY RequestAssumption DEF Copies, JobRequest, JobSpecs
  <2>2. RequestsTypeOK
    BY <2>1 DEF AdminInv, RequestsInv, RequestsTyped, RequestsTypeOK, Row, CallState
  <2> QED
    BY <2>2 DEF AdminInv, AccountsInv, AdminTypeOK
<1> QED
  BY <1>1, AdminInvariant, PTL

(* grpc_service.cpp:30-80: however the statements of CreateUser calls      *)
(* interleave, whichever of them fails and wherever the master dies, who   *)
(* is listed has a role and, unless its own statement failed, a password,  *)
(* or was a piece of a listed name with a comma.                           *)
THEOREM ListIsBacked == AdminSpec => []ListedUsersExist
<1>1. AdminInv => ListedUsersExist
  <2> SUFFICES ASSUME AdminInv, NEW u \in AdminListUsers
               PROVE  \/ u.username \in DOMAIN roles \cap (passwords \cup unsaved)
                      \/ \E n \in Entries(user_list) :
                           Len(n) > 1 /\ u.username[1] \in Entries(n)
    BY DEF ListedUsersExist
  <2>1. PICK p \in Pieces(user_list) : u.username = <<p>>
    <3>1. PICK p \in Pieces(user_list) : u = [username |-> <<p>>, role |-> LoginRole(<<p>>)]
      BY Zenon DEF AdminListUsers
    <3> QED
      BY <3>1
  <2>2. PICK n \in Entries(user_list) : p \in Entries(n)
    BY DEF Pieces
  <2>3. /\ n \in DOMAIN roles \cap (passwords \cup unsaved)
        /\ n \in Seq(STRING) /\ n # <<>>
    BY AccountAssumption DEF AdminInv, AccountsInv, AccountsTypeOK, Backed
  <2>4. CASE Len(n) > 1
    BY <2>1, <2>2, <2>4
  <2>5. Len(n) > 1 \/ Len(n) = 1
    <3>1. Len(n) \in Nat
      BY <2>3
    <3>2. Len(n) # 0
      BY <2>3
    <3>3. \A k \in Nat : k # 0 => k > 1 \/ k = 1
      OBVIOUS
    <3> QED
      BY <3>1, <3>2, <3>3
  <2>6. CASE Len(n) = 1
    <3>1. n = <<n[1]>> /\ p = n[1]
      BY <2>2, <2>3, <2>6 DEF Entries
    <3>2. u.username = n
      BY <2>1, <3>1
    <3> QED
      BY <2>3, <3>2
  <2> QED
    BY <2>4, <2>5, <2>6, Zenon
<1> QED
  BY <1>1, AdminInvariant, PTL

(* state_store.cpp: the column of a row and its JSON text do not part.     *)
THEOREM StatusesAgree == AdminSpec => []StatusStoredTwice
<1>1. AdminInv => StatusStoredTwice
  BY DEF AdminInv, RequestsInv
<1> QED
  BY <1>1, AdminInvariant, PTL

(* grpc_service.cpp:258, "Automatically submit the job".                   *)
THEOREM ApprovalsAreSubmitted == AdminSpec => ApprovedMeansSubmitted
<1> DEFINE Submitted ==
      \A id \in DOMAIN job_requests :
        job_requests[id].status = "PENDING" /\ job_requests'[id].status = "APPROVED"
          => \E j \in DOMAIN jobs : jobs[j].spec.request = id
<1>1. ASSUME AdminInv, [AdminNext]_adminVars PROVE [Submitted]_<<job_requests, jobs>>
  <2> SUFFICES ASSUME NEW id \in DOMAIN job_requests,
                      job_requests[id].status = "PENDING",
                      job_requests'[id].status = "APPROVED"
               PROVE  HasJob(id)
    BY DEF HasJob
  <2>1. ~UNCHANGED job_requests
    OBVIOUS
  <2>2. PICK c \in Callers : WriteBack(c)
    <3>1. ASSUME NEW k \in RequestIds, SubmitPublicRequest(k) PROVE FALSE
      <4>1. job_requests'[id] = job_requests[id]
        BY <3>1 DEF SubmitPublicRequest, add_job_request, Put
      <4> QED
        BY <4>1
    <3>2. RequestsStep
      BY <1>1, <2>1 DEF AdminNext, AdminStep, RestartMaster, RequestsRestart, adminVars,
         requestVars
    <3> QED
      BY <2>1, <3>1, <3>2 DEF RequestsStep, UpdateJobRequest, AdminReviewRequest,
         UploadFromForm, ReviewThroughRoute, ReadForUpdate, ReadForReview, Read, SubmitApproved
  <2>3. /\ calls[c].step = "write" /\ calls[c].meant = id
        /\ calls[c].req.status = "APPROVED" /\ job_requests[id].data.status = "PENDING"
    BY <1>1, <2>2 DEF AdminInv, RequestsInv, RequestsTyped, StatusStoredTwice, WriteBack,
       update_request_status
  <2>4. {"PENDING", "APPROVED"} \subseteq Seen(id)
    BY <2>3 DEF Seen
  <2> QED
    BY <1>1, <2>4 DEF AdminInv, RequestsInv, NoLateApproval
<1> QED
  BY <1>1, AdminInvariant, PTL DEF AdminSpec, ApprovedMeansSubmitted
=============================================================================
