----------------------------- MODULE JobRequests -----------------------------
(***************************************************************************)
(* Public job requests: the table job_requests of the administration       *)
(* database (state_store.cpp), the handlers that submit, update and review *)
(* a request (grpc_service.cpp), and the names under which the gateway     *)
(* addresses a request (rest_routes.cpp, grpc_bridge.cpp).                 *)
(*                                                                         *)
(* The store locks each statement, not a handler: an update or a review    *)
(* reads the row, and writes the whole row back some steps later.          *)
(* Abstracted: applicant, goal, comment and times; a specification is the  *)
(* request it comes from and its archive.                                  *)
(***************************************************************************)
EXTENDS JobManager, Sequences

CONSTANTS
  Callers,                      \* RPCs being handled at the same time
  RequestIds,                   \* request ids, sequences of symbols
  Archives,                     \* paths of uploaded archives
  NoArchive                     \* the empty path

ASSUME RequestAssumption ==
  /\ NoArchive \notin Archives
  /\ RequestIds \subseteq Seq(STRING) \ {<<>>} /\ RequestIds # {}
  /\ [request: RequestIds, archive: Archives \cup {NoArchive}] \subseteq Specs

VARIABLES
  job_requests,                 \* request_id -> row; survives the master
  calls                         \* the locals of the handlers

requestVars == <<job_requests, calls>>

RequestStatus == {"PENDING", "APPROVED", "REJECTED"}

JobRequest == [status: RequestStatus, requested_spec: Specs]

(* A column and the JSON text, which also holds the status.                *)
Row == [status: RequestStatus, data: JobRequest]

(* The row called for, the copy read from it, and what the handler does    *)
(* next; a call that found no row ends "not_found".                        *)
CallState ==
  [step: {"idle", "submit_job", "write", "not_found"},
   meant: RequestIds, req: JobRequest]

NoSpec(id) == [request |-> id, archive |-> NoArchive]

Idle ==
  LET id == CHOOSE i \in RequestIds : TRUE
  IN  [step |-> "idle", meant |-> id,
       req |-> [status |-> "PENDING", requested_spec |-> NoSpec(id)]]

RequestsInit == job_requests = EmptyTable /\ calls = [c \in Callers |-> Idle]

-----------------------------------------------------------------------------
(* StateStore.                                                             *)

(* INSERT: fails on a second row with the same id.                         *)
add_job_request(id, req) ==
  job_requests' = IF id \in DOMAIN job_requests THEN job_requests
                  ELSE Put(job_requests, id, [status |-> req.status, data |-> req])

(* Faulty: the column is left as it is.                                    *)
update_request_status_DataOnly(id, status, req) ==
  job_requests' = [job_requests EXCEPT ![id].data = req]

update_request_status(id, status, req) ==
  job_requests' = [job_requests EXCEPT ![id] = [status |-> status, data |-> req]]

-----------------------------------------------------------------------------
(* How the gateway names a request.  Of a route only the last symbol of    *)
(* its prefix can end up in a name, so the prefix is that symbol repeated. *)
NameIn(prefix_length, start, id) ==
  LET norm_path == [i \in 1..prefix_length |-> "/"] \o id
  IN  SubSeq(norm_path, start + 1, prefix_length + Len(id))

(* POST /api/v1/public/request/<id>/upload: the prefix has 23 symbols.     *)
UploadName(id) == NameIn(23, 22, id)

(* POST /api/v1/admin/requests/<id>/review: so has this one.               *)
ReviewName(id) == NameIn(23, 24, id)

(* The bridge answers a submission with the id of the message it was       *)
(* given, which has none.                                                  *)
AnsweredId(id) == <<>>

-----------------------------------------------------------------------------
(* The handlers.                                                           *)

SubmitPublicRequest(id) ==
  /\ add_job_request(id, [status |-> "PENDING", requested_spec |-> NoSpec(id)])
  /\ UNCHANGED <<jobs, commonVars, calls>>

(* list_requests, the search for the row, and the changed copy of it.      *)
Read(c, meant, name, step, changed) ==
  /\ calls[c].step \in {"idle", "not_found"}
  /\ calls' = [calls EXCEPT ![c] =
       IF name \in DOMAIN job_requests
       THEN [step |-> step, meant |-> name, req |-> changed]
       ELSE [Idle EXCEPT !.step = "not_found", !.meant = meant]]
  /\ UNCHANGED <<job_requests, jobs, commonVars>>

(* Faulty: the first row is taken, whatever it is called.                  *)
ReadForUpdate_FirstRow(c, meant, name, archive) ==
  /\ calls[c].step = "idle"
  /\ \E id \in DOMAIN job_requests :
       calls' = [calls EXCEPT ![c] =
         [step |-> "write", meant |-> name,
          req |-> [job_requests[id].data EXCEPT !.requested_spec.archive = archive]]]
  /\ UNCHANGED <<job_requests, jobs, commonVars>>

ReadForUpdate(c, meant, name, archive) ==
  Read(c, meant, name, "write",
       [job_requests[name].data EXCEPT !.requested_spec.archive =
          IF archive # NoArchive THEN archive ELSE @])

ReadForReview(c, meant, name, approve) ==
  Read(c, meant, name, IF approve THEN "submit_job" ELSE "write",
       [job_requests[name].data EXCEPT !.status =
          IF approve THEN "APPROVED" ELSE "REJECTED"])

(* Faulty: an approved request is only marked, not submitted.              *)
SubmitApproved_Never(c, j) ==
  /\ calls[c].step = "submit_job" /\ j \in JobIds
  /\ calls' = [calls EXCEPT ![c].step = "write"]
  /\ UNCHANGED <<jobs, commonVars, job_requests>>

(* An approved request becomes a job, before the approval is stored.       *)
SubmitApproved(c, j) ==
  /\ calls[c].step = "submit_job"
  /\ submit_job(j, calls[c].req.requested_spec)
  /\ calls' = [calls EXCEPT ![c].step = "write"]
  /\ UNCHANGED <<now, job_requests>>

WriteBack(c) ==
  /\ calls[c].step = "write"
  /\ update_request_status(calls[c].meant, calls[c].req.status, calls[c].req)
  /\ calls' = [calls EXCEPT ![c] = Idle]
  /\ UNCHANGED <<jobs, commonVars>>

(* The request form of the browser uploads the archive under the id it was *)
(* answered; the gateway passes on what it cuts out of the two routes.     *)
UploadFromForm(c, id, archive) ==
  archive # NoArchive /\ ReadForUpdate(c, id, UploadName(AnsweredId(id)), archive)

ReviewThroughRoute(c, id, approve) == ReadForReview(c, id, ReviewName(id), approve)

(* Any other client of the service names a request by its id.              *)
UpdateJobRequest(c) ==
  \E id \in DOMAIN job_requests, archive \in Archives \cup {NoArchive} :
    ReadForUpdate(c, id, id, archive) \/ UploadFromForm(c, id, archive)

AdminReviewRequest(c) ==
  \E id \in DOMAIN job_requests, approve \in BOOLEAN :
    ReadForReview(c, id, id, approve) \/ ReviewThroughRoute(c, id, approve)

(* The master dies with its job table; the database is a file.             *)
RequestsRestart ==
  /\ jobs' = EmptyTable
  /\ calls' = [c \in Callers |-> Idle]
  /\ UNCHANGED <<job_requests, commonVars>>

RequestsStep ==
  \/ \E id \in RequestIds : SubmitPublicRequest(id)
  \/ \E c \in Callers :
       \/ UpdateJobRequest(c) \/ AdminReviewRequest(c) \/ WriteBack(c)
       \/ \E j \in JobIds : SubmitApproved(c, j)

-----------------------------------------------------------------------------
(* Types; and a row, as well as the copy a handler is going to write into  *)
(* it, always describes the request it is stored under.                    *)
RequestsTypeOK ==
  /\ job_requests \in [DOMAIN job_requests -> Row]
  /\ DOMAIN job_requests \subseteq RequestIds
  /\ calls \in [Callers -> CallState]
  /\ \A id \in DOMAIN job_requests : job_requests[id].data.requested_spec.request = id
  /\ \A c \in Callers :
       calls[c].step \in {"submit_job", "write"} =>
         /\ calls[c].meant \in DOMAIN job_requests
         /\ calls[c].req.requested_spec.request = calls[c].meant

(* The two copies of a request's status, the column and the one inside the *)
(* JSON text, agree, however late a handler writes what it read.           *)
StatusStoredTwice ==
  \A id \in DOMAIN job_requests :
    job_requests[id].status = job_requests[id].data.status

(* "Automatically submit the job": when a pending request becomes an       *)
(* approved one, the job table holds a job of it, also when the step is    *)
(* the late write of an update that read the approval of another handler.  *)
(* The master may die at any time and takes its jobs along, but then the   *)
(* approval is not stored either.                                          *)
ApprovedMeansSubmitted ==
  [][\A id \in DOMAIN job_requests :
       job_requests[id].status = "PENDING" /\ job_requests'[id].status = "APPROVED"
         => \E j \in DOMAIN jobs : jobs[j].spec.request = id]_<<job_requests, jobs>>

-----------------------------------------------------------------------------
(* Refuted by runs of their own.                                           *)

(* grpc_service.cpp:210, "Update fields that are set in the incoming       *)
(* request": an update carries no status, so nothing takes a reviewed      *)
(* request back to PENDING.                                                *)
ReviewIsKept ==
  [][\A id \in DOMAIN job_requests :
       job_requests[id].status # "PENDING" => job_requests'[id].status # "PENDING"]_job_requests

(* rest_routes.cpp:118, "length of /api/v1/public/request/": a route names *)
(* the request it was made for, so the handler finds a stored request.     *)
RoutesNameRequests == \A c \in Callers : calls[c].step # "not_found"
=============================================================================
