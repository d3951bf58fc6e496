---------------------------- MODULE RecordsWindow ----------------------------
(***************************************************************************)
(* The main window (apps/desktop/src/main.ts) over the commands it sends.  *)
(*                                                                         *)
(* The window is one thread: a handler runs to its next `await` and goes   *)
(* on when the answer arrives.  Commands run in the threads of the service *)
(* one at a time, so that answers may arrive in any order; what the user   *)
(* does meanwhile decides whether an answer still means anything.  The     *)
(* window tells by counters it bumps at each click (detailRequestVersion,  *)
(* speakerRequestVersion, summaryRequestVersions, summaryPollGeneration).  *)
(* A request here keeps the set of the counters that have not been bumped  *)
(* since it was sent, which is what comparing the numbers tells.           *)
(*                                                                         *)
(* The service is abstracted to the speaker versions (SpeakerVersions),    *)
(* the summary jobs (SummaryJobs) and the meeting in its snapshot          *)
(* (SessionControl), each of which has its own module.                     *)
(***************************************************************************)
EXTENDS SpeakerVersions, FiniteSets

CONSTANTS
    Meetings,
    MaxRequests, MaxVersions, MaxJobs, MaxErrors, MaxPolls  \* bounds

ASSUME RecordsAssumption == "none" \notin Meetings

VARIABLES
    versions,  \* mvp_speaker_versions of each meeting
    jobs,      \* summary jobs: their meeting and how far they are
    live,      \* the snapshot of the service: meeting, active session, queued translations
    recorded,  \* meetings the library lists
    record,    \* what the window shows of the selected meeting
    summary,   \* what it knows of summaries
    screen,    \* the snapshot it last rendered, and the timer of the next one
    requests,  \* commands in flight
    tally      \* numbers of commands and errors

backend == <<versions, jobs, live, recorded>>
windowVars == <<versions, jobs, live, recorded, record, summary, screen, requests, tally>>

-----------------------------------------------------------------------------
(* Values. *)

None == "none"
Counters == {"detail", "speaker", "summary", "poll"}

NoVersion == [meeting |-> None, version |-> 0]
NoJob == [id |-> 0, step |-> "none"]
Running == {"queued", "chunking"}
Rank(step) == CASE step = "none" -> 0 [] step = "queued" -> 1 [] step = "chunking" -> 2 [] step = "over" -> 3

NoDetail == [selected |-> None, detail |-> None, latest |-> NoVersion, shown |-> NoVersion, preview |-> None]

Snapshots == [meeting : Meetings \cup {None}, active : BOOLEAN, queued : BOOLEAN]

(* selectedMeetingId: "an explicit selection must never fall back to an     *)
(* unrelated live meeting while loading".                                   *)
Selected(rec, scr) ==
    IF rec.selected # None
    THEN IF rec.detail = rec.selected THEN rec.selected ELSE None
    ELSE scr.latest.meeting

Here == Selected(record, screen)

JobOf(sum, m) == IF m = None THEN NoJob ELSE sum.job[m]

-----------------------------------------------------------------------------
(* Requests.  Two that are alike in all this cannot be told apart by what   *)
(* becomes of them; they count as one.                                       *)

Request(kind, m, arg) ==
    [kind |-> kind, meeting |-> m, arg |-> arg, click |-> NoClick, current |-> Counters,
     step |-> "sent", reply |-> NoVersion]

(* A click: one of the bounded number of commands. *)
Click(request) ==
    /\ tally.requests < MaxRequests
    /\ tally' = [tally EXCEPT !.requests = @ + 1]
    /\ requests' = requests \cup {request}

(* Requests that remember the old number of a counter.  Counters of         *)
(* summaries are one per meeting.                                           *)
Outdated(reqs, counter, m) ==
    {[r EXCEPT !.current = IF m \in {None, r.meeting} THEN @ \ {counter} ELSE @] : r \in reqs}

(* scheduleSummaryPoll begins with stopSummaryPoll; the timer is set for the *)
(* job of the meeting now selected.                                          *)
PollSet(rec, sum, scr) ==
    LET m == Selected(rec, scr)
        polled == IF JobOf(sum, m).step \in Running /\ m \notin sum.pending THEN m ELSE None
    IN [sum EXCEPT !.timer = polled, !.lost = @ \ {polled}]

(* stopSummaryPoll. *)
PollsStopped(reqs) == Outdated(reqs, "poll", None)

IsCurrent(r, needed) == needed \subseteq r.current

-----------------------------------------------------------------------------
(* The selected record. *)

Cleared(m) == [NoDetail EXCEPT !.selected = m]

(* loadMeetingDetail *)
OpenRecord(m) ==
    /\ m \in recorded
    /\ tally.requests < MaxRequests
    /\ tally' = [tally EXCEPT !.requests = @ + 1]
    /\ record' = Cleared(m)
    /\ summary' = [summary EXCEPT !.timer = None]
    /\ requests' = PollsStopped(Outdated(requests, "detail", None))
                     \cup {Request("detail", m, 0)}
    /\ UNCHANGED screen /\ UNCHANGED backend

(* The rest of it: the detail, then the speaker labels. *)
DetailArrives(r) ==
    /\ r.kind = "detail"
    /\ LET rest == requests \ {r} IN
       IF ~IsCurrent(r, {"detail"})
       THEN /\ requests' = rest
            /\ UNCHANGED <<record, summary>>
       ELSE IF r.step = "failed"
       THEN /\ requests' = rest
            /\ UNCHANGED <<record, summary>>
       ELSE /\ record' = [record EXCEPT !.detail = r.meeting]
            /\ summary' = PollSet(record', summary, screen)
            /\ requests' = PollsStopped(Outdated(rest, "speaker", None)) \cup {Request("latest", r.meeting, 0)}
    /\ UNCHANGED <<screen, tally>>

(* saveMeetingTags; the button is enabled while a detail is shown. *)
SaveTags ==
    /\ record.detail # None /\ Here # None
    /\ Click(Request("tags", Here, 0))
    /\ UNCHANGED <<record, summary, screen>> /\ UNCHANGED backend

(* Fault: the answer is shown whatever was selected meanwhile. *)
StillSelectedAlways(r) == TRUE

StillSelected(r) == IsCurrent(r, {"detail"}) /\ Here = r.meeting

TagsSaved(r) ==
    /\ r.kind = "tags"
    /\ record' = IF r.step # "failed" /\ StillSelected(r) THEN [record EXCEPT !.detail = r.meeting] ELSE record
    /\ requests' = requests \ {r}
    /\ UNCHANGED <<summary, screen, tally>>

(* previewDelete, executeDelete and restoreDeletedMeeting: the preview tells *)
(* which meeting the other two are about.                                    *)
PreviewDelete ==
    /\ Here # None /\ ~screen.latest.active
    /\ Click(Request("preview", Here, 0))
    /\ UNCHANGED <<record, summary, screen>> /\ UNCHANGED backend

PreviewArrives(r) ==
    /\ r.kind = "preview"
    /\ record' = IF r.step # "failed" /\ StillSelected(r) THEN [record EXCEPT !.preview = r.meeting] ELSE record
    /\ requests' = requests \ {r}
    /\ UNCHANGED <<summary, screen, tally>>

RestoreDeleted ==
    /\ record.preview # None
    /\ Click(Request("restore", record.preview, 0))
    /\ UNCHANGED <<record, summary, screen>> /\ UNCHANGED backend

RestoreArrives(r) ==
    /\ r.kind = "restore"
    /\ record' = IF r.step = "failed" THEN record ELSE [record EXCEPT !.preview = None]
    /\ requests' = requests \ {r}
    /\ UNCHANGED <<summary, screen, tally>>

-----------------------------------------------------------------------------
(* Speaker labels. *)

(* A click of the workspace: its number makes the earlier ones old. *)
SpeakerClick(request) ==
    /\ tally.requests < MaxRequests
    /\ tally' = [tally EXCEPT !.requests = @ + 1]
    /\ requests' = Outdated(requests, "speaker", None)
                     \cup {request}
    /\ UNCHANGED <<record, summary, screen>> /\ UNCHANGED backend

(* refreshSpeakerVersion, runSpeakerDiarization *)
RefreshSpeakers == Here # None /\ SpeakerClick(Request("latest", Here, 0))
RunDiarization == Here # None /\ SpeakerClick(Request("diarize", Here, 0))

(* loadSpeakerVersion: any version up to the latest. *)
LoadSpeakerVersion(v) ==
    /\ Here # None /\ record.latest # NoVersion
    /\ v \in 1..record.latest.version
    /\ SpeakerClick(Request("version", Here, v))

(* The controls renderSpeakerWorkspace enables for the version it shows. *)
Editable(operation) ==
    /\ record.shown # NoVersion /\ record.shown = record.latest
    /\ LET seen == versions[record.shown.meeting][record.shown.version] IN
       /\ operation = "merge" => seen.labels.speakers > 1
       /\ operation = "undo" => seen.parent # 0

(* renameSpeaker, mergeSpeakers, undoSpeakerEdit *)
EditSpeakers(operation) ==
    /\ Here # None /\ Editable(operation)
    /\ SpeakerClick([Request(operation, Here, record.shown.version) EXCEPT !.click = record.shown])

(* Fault: only the selection is compared. *)
AnswersSelection(r) == StillSelected(r)

AnswersLastClick(r) == IsCurrent(r, {"speaker"}) /\ StillSelected(r)

(* Where the answer is a version, it is shown; `latest` is left alone when   *)
(* an earlier version was asked for.                                         *)
SpeakersArrive(r) ==
    /\ r.kind \in Edits \cup {"latest", "version"}
    /\ record' = IF r.step = "failed" \/ ~AnswersLastClick(r) THEN record
                 ELSE IF r.kind = "version" THEN [record EXCEPT !.shown = r.reply]
                 ELSE [record EXCEPT !.shown = r.reply, !.latest = r.reply]
    /\ requests' = requests \ {r}
    /\ UNCHANGED <<summary, screen, tally>>

(* After an analysis the latest version is asked for under the same number. *)
DiarizationArrives(r) ==
    /\ r.kind = "diarize"
    /\ requests' = (requests \ {r}) \cup
           (IF r.step = "failed" \/ ~AnswersLastClick(r) THEN {}
            ELSE {[Request("latest", r.meeting, 0) EXCEPT !.current = r.current]})
    /\ UNCHANGED <<record, summary, screen, tally>>

-----------------------------------------------------------------------------
(* Summaries. *)

(* runSummaryCommand *)
SummaryClick(request) ==
    /\ tally.requests < MaxRequests
    /\ tally' = [tally EXCEPT !.requests = @ + 1]
    /\ summary' = [summary EXCEPT !.pending = @ \cup {request.meeting}, !.timer = None]
    /\ requests' = PollsStopped(Outdated(requests, "summary", request.meeting))
                     \cup {request}
    /\ UNCHANGED <<record, screen>> /\ UNCHANGED backend

Usable == Here # None /\ ~screen.latest.active /\ Here \notin summary.pending

StartSummary ==
    /\ Usable /\ JobOf(summary, Here).step \notin Running
    /\ SummaryClick(Request("start", Here, 0))

(* A job that can be cancelled is one that runs; one that is over can be    *)
(* retried.                                                                 *)
CancelSummary ==
    /\ Here # None /\ Here \notin summary.pending
    /\ JobOf(summary, Here).step \in Running
    /\ SummaryClick(Request("cancel", Here, JobOf(summary, Here).id))

RetrySummary ==
    /\ Usable /\ JobOf(summary, Here).step = "over"
    /\ SummaryClick(Request("start", Here, JobOf(summary, Here).id))

PollAfterCommand(r, sum) == IF Here = r.meeting THEN PollSet(record, sum, screen) ELSE sum

(* The answer, and `finally` the poll of the meeting if it is selected. *)
SummaryAnswered(r) ==
    /\ r.kind \in {"start", "cancel"}
    /\ LET told == IF r.step = "failed" THEN summary
                   ELSE [summary EXCEPT !.job[r.meeting] = r.reply]
           sum == [told EXCEPT !.pending = @ \ {r.meeting}]
           rest == requests \ {r}
       IN IF IsCurrent(r, {"summary"})
          THEN /\ summary' = PollAfterCommand(r, sum)
               /\ requests' = IF Here = r.meeting THEN PollsStopped(rest) ELSE rest
          ELSE /\ requests' = rest
               /\ UNCHANGED summary
    /\ UNCHANGED <<record, screen, tally>>

PollsInFlight(kind) == Cardinality({r \in requests : r.kind = kind})

(* The 750 ms timer of scheduleSummaryPoll *)
SummaryTimer ==
    /\ summary.timer # None
    /\ PollsInFlight("status") < MaxPolls
    /\ summary' = [summary EXCEPT !.timer = None]
    /\ requests' = requests \cup {Request("status", summary.timer, summary.job[summary.timer].id)}
    /\ UNCHANGED <<record, screen, tally>> /\ UNCHANGED backend

PollIsCurrent(r) ==
    /\ IsCurrent(r, {"poll", "summary"})
    /\ Here = r.meeting
    /\ JobOf(summary, Here).id = r.arg

(* A poll that fails is not repeated before the meeting is selected again or *)
(* a command about it is sent.                                               *)
StatusArrives(r) ==
    /\ r.kind = "status"
    /\ LET rest == requests \ {r}
           sum == [summary EXCEPT !.job[r.meeting] = r.reply]
       IN IF ~PollIsCurrent(r)
          THEN requests' = rest /\ UNCHANGED summary
          ELSE IF r.step = "failed"
          THEN /\ requests' = rest
               /\ summary' = [summary EXCEPT !.lost = @ \cup {r.meeting}]
          ELSE /\ summary' = PollSet(record, sum, screen)
               /\ requests' = PollsStopped(rest)
    /\ UNCHANGED <<record, screen, tally>>

-----------------------------------------------------------------------------
(* The snapshot. *)

(* Fault: the poll of summaries stays with the meeting shown before. *)
RenderedOnly(scr, reqs) ==
    /\ screen' = scr /\ requests' = reqs
    /\ UNCHANGED summary

(* render: the poll of summaries follows the meeting that is now selected.   *)
Rendered(scr, reqs) ==
    /\ screen' = scr
    /\ IF Selected(record, scr) # Here
       THEN summary' = PollSet(record, summary, scr) /\ requests' = PollsStopped(reqs)
       ELSE requests' = reqs /\ UNCHANGED summary

(* schedulePoll: the 150 ms timer is set, or cleared where nothing moves.    *)
Scheduled(scr) == [scr EXCEPT !.timer = scr.latest.active \/ scr.latest.queued, !.opened = FALSE]

(* Handlers of the start, stop and open buttons *)
BeginSession ==
    /\ ~screen.starting /\ ~screen.latest.active
    /\ Click(Request("begin", None, 0))
    /\ screen' = [screen EXCEPT !.starting = TRUE]
    /\ UNCHANGED <<record, summary>> /\ UNCHANGED backend

Stop ==
    /\ screen.latest.active
    /\ Click(Request("stop", None, 0))
    /\ UNCHANGED <<record, summary, screen>> /\ UNCHANGED backend

OpenRecent ==
    /\ Click(Request("open", None, 0))
    /\ UNCHANGED <<record, summary, screen>> /\ UNCHANGED backend

BeginArrives(r) ==
    /\ r.kind = "begin"
    /\ LET scr == [screen EXCEPT !.starting = FALSE] IN
       IF r.step = "failed" THEN screen' = scr /\ requests' = requests \ {r} /\ UNCHANGED summary
       ELSE Rendered(Scheduled([scr EXCEPT !.latest = r.reply]), requests \ {r})
    /\ UNCHANGED <<record, tally>>

StopArrives(r) ==
    /\ r.kind = "stop"
    /\ IF r.step = "failed" THEN requests' = requests \ {r} /\ UNCHANGED <<summary, screen>>
       ELSE Rendered(Scheduled([screen EXCEPT !.latest = r.reply]), requests \ {r})
    /\ UNCHANGED <<record, tally>>

(* openRecentMeeting renders and leaves the timer alone. *)
OpenArrives(r) ==
    /\ r.kind = "open"
    /\ IF r.step = "failed" THEN requests' = requests \ {r} /\ UNCHANGED <<summary, screen>>
       ELSE Rendered([screen EXCEPT !.latest = r.reply, !.opened = TRUE], requests \ {r})
    /\ UNCHANGED <<record, tally>>

SnapshotTimer ==
    /\ screen.timer
    /\ PollsInFlight("poll") < MaxPolls
    /\ screen' = [screen EXCEPT !.timer = FALSE]
    /\ requests' = requests \cup {Request("poll", None, 0)}
    /\ UNCHANGED <<record, summary, tally>> /\ UNCHANGED backend

(* Good or failed, the next poll is scheduled for what is now shown. *)
SnapshotArrives(r) ==
    /\ r.kind = "poll"
    /\ LET scr == IF r.step = "failed" THEN screen ELSE [screen EXCEPT !.latest = r.reply] IN
       Rendered(Scheduled(scr), requests \ {r})
    /\ UNCHANGED <<record, tally>>

-----------------------------------------------------------------------------
(* The service.  A command that may be refused is refused in Refuse, for a   *)
(* reason this module does not model, or here for one that it does.          *)

Answered(r, reply) == requests' = (requests \ {r}) \cup {[r EXCEPT !.step = "answered", !.reply = reply]}
Refused(r) == requests' = (requests \ {r}) \cup {[r EXCEPT !.step = "failed"]}

Latest(m) == IF versions[m] = <<>> THEN NoVersion ELSE [meeting |-> m, version |-> Len(versions[m])]

Busy(m) == live.active /\ live.meeting = m

ServeRead(r) ==
    /\ r.kind \in {"detail", "tags", "preview", "restore"}
    /\ Answered(r, NoVersion)
    /\ UNCHANGED backend

ServeVersion(r) ==
    /\ r.kind \in {"latest", "version"}
    /\ Answered(r, IF r.kind = "latest" THEN Latest(r.meeting) ELSE [meeting |-> r.meeting, version |-> r.arg])
    /\ UNCHANGED backend

(* diarize_speakers, rename_speaker, merge_speakers, undo_speaker_edit       *)
ServeSpeakers(r) ==
    /\ r.kind \in Edits \cup {"diarize"}
    /\ LET m == r.meeting
           chain == versions[m]
           drafts == IF r.kind = "diarize" THEN {Diarized([speakers |-> n, named |-> FALSE]) : n \in 1..2}
                     ELSE Drafts(chain, r.kind, r.arg, r.click)
       IN \/ /\ Busy(m) \/ drafts = {} \/ Len(chain) = MaxVersions
             /\ Refused(r) /\ UNCHANGED versions
          \/ \E draft \in drafts :
                /\ ~Busy(m) /\ Len(chain) < MaxVersions
                /\ IF Conflicts(chain, draft) THEN Refused(r) /\ UNCHANGED versions
                   ELSE /\ versions' = [versions EXCEPT ![m] = Recorded(chain, draft)]
                        /\ Answered(r, [meeting |-> m, version |-> Len(versions'[m])])
    /\ UNCHANGED <<jobs, live, recorded>>

(* start_summary, retry_summary: one job at a time, and not of a recording.  *)
ServeStart(r) ==
    /\ r.kind = "start"
    /\ IF Busy(r.meeting) \/ Len(jobs) = MaxJobs \/ \E j \in DOMAIN jobs : jobs[j].step \in Running
       THEN Refused(r) /\ UNCHANGED jobs
       ELSE /\ jobs' = Append(jobs, [meeting |-> r.meeting, step |-> "queued"])
            /\ Answered(r, [id |-> Len(jobs) + 1, step |-> "queued"])
    /\ UNCHANGED <<versions, live, recorded>>

ServeCancel(r) ==
    /\ r.kind = "cancel"
    /\ jobs' = [jobs EXCEPT ![r.arg].step = "over"]
    /\ Answered(r, [id |-> r.arg, step |-> "over"])
    /\ UNCHANGED <<versions, live, recorded>>

ServeStatus(r) ==
    /\ r.kind = "status"
    /\ Answered(r, [id |-> r.arg, step |-> jobs[r.arg].step])
    /\ UNCHANGED backend

(* The thread of a job. *)
JobAdvances(j) ==
    /\ jobs[j].step \in Running
    /\ \E step \in {"chunking", "over"} :
         /\ Rank(step) > Rank(jobs[j].step)
         /\ jobs' = [jobs EXCEPT ![j].step = step]
    /\ UNCHANGED <<versions, live, recorded, record, summary, screen, requests, tally>>

(* start, stop, open_recent, snapshot *)
ServeBegin(r) ==
    /\ r.kind = "begin"
    /\ IF live.active \/ recorded = Meetings THEN Refused(r) /\ UNCHANGED <<live, recorded>>
       ELSE \E m \in Meetings \ recorded :
              /\ live' = [meeting |-> m, active |-> TRUE, queued |-> FALSE]
              /\ recorded' = recorded \cup {m}
              /\ Answered(r, live')
    /\ UNCHANGED <<versions, jobs>>

ServeStop(r) ==
    /\ r.kind = "stop"
    /\ IF ~live.active THEN Refused(r) /\ UNCHANGED live
       ELSE \E queued \in BOOLEAN :
              /\ live' = [live EXCEPT !.active = FALSE, !.queued = queued]
              /\ Answered(r, live')
    /\ UNCHANGED <<versions, jobs, recorded>>

ServeOpen(r) ==
    /\ r.kind = "open"
    /\ IF live.active \/ recorded = {} THEN Refused(r) /\ UNCHANGED live
       ELSE \E m \in recorded :
              /\ live' = [live EXCEPT !.meeting = m]
              /\ Answered(r, live')
    /\ UNCHANGED <<versions, jobs, recorded>>

ServePoll(r) ==
    /\ r.kind = "poll"
    /\ Answered(r, live)
    /\ UNCHANGED backend

QueueDrains ==
    /\ live.queued
    /\ live' = [live EXCEPT !.queued = FALSE]
    /\ UNCHANGED <<versions, jobs, recorded, record, summary, screen, requests, tally>>

Refuse(r) ==
    /\ r.kind \notin {"begin", "stop"}
    /\ tally.errors < MaxErrors
    /\ tally' = [tally EXCEPT !.errors = @ + 1]
    /\ Refused(r)
    /\ UNCHANGED backend

-----------------------------------------------------------------------------
(* The window is opened over a library; mvp_preflight has answered. *)
WindowInit ==
    /\ recorded \in SUBSET Meetings
    /\ \E analysed \in SUBSET recorded :
         versions = [m \in Meetings |-> IF m \in analysed
                                        THEN <<Diarized([speakers |-> 2, named |-> FALSE])>> ELSE <<>>]
    /\ jobs = <<>>
    /\ live \in {[meeting |-> m, active |-> FALSE, queued |-> FALSE] : m \in recorded \cup {None}}
    /\ record = NoDetail
    /\ summary = [job |-> [m \in Meetings |-> NoJob], pending |-> {}, timer |-> None, lost |-> {}]
    /\ screen = [latest |-> live, timer |-> FALSE, starting |-> FALSE, opened |-> FALSE]
    /\ requests = {}
    /\ tally = [requests |-> 0, errors |-> 0]

User ==
    \/ \E m \in Meetings : OpenRecord(m)
    \/ SaveTags \/ PreviewDelete \/ RestoreDeleted
    \/ RefreshSpeakers \/ RunDiarization
    \/ \E v \in 1..MaxVersions : LoadSpeakerVersion(v)
    \/ \E operation \in Edits : EditSpeakers(operation)
    \/ StartSummary \/ CancelSummary \/ RetrySummary
    \/ BeginSession \/ Stop \/ OpenRecent

Timers == SummaryTimer \/ SnapshotTimer

Arrives(r) ==
    /\ r.step # "sent"
    /\ \/ DetailArrives(r) \/ TagsSaved(r) \/ PreviewArrives(r) \/ RestoreArrives(r)
       \/ SpeakersArrive(r) \/ DiarizationArrives(r)
       \/ SummaryAnswered(r) \/ StatusArrives(r)
       \/ BeginArrives(r) \/ StopArrives(r) \/ OpenArrives(r) \/ SnapshotArrives(r)
    /\ UNCHANGED backend

Serve(r) ==
    /\ r.step = "sent"
    /\ \/ /\ \/ ServeRead(r) \/ ServeVersion(r) \/ ServeSpeakers(r)
             \/ ServeStart(r) \/ ServeCancel(r) \/ ServeStatus(r)
             \/ ServeBegin(r) \/ ServeStop(r) \/ ServeOpen(r) \/ ServePoll(r)
          /\ UNCHANGED tally
       \/ Refuse(r)
    /\ UNCHANGED <<record, summary, screen>>

WindowNext ==
    \/ User \/ Timers \/ QueueDrains
    \/ \E r \in requests : Arrives(r) \/ Serve(r)
    \/ \E j \in DOMAIN jobs : JobAdvances(j)

WindowSpec == WindowInit /\ [][WindowNext]_windowVars

-----------------------------------------------------------------------------
(* Properties. *)

Of(v, m) == v.meeting \in {None, m} /\ v.version <= (IF v.meeting = None THEN 0 ELSE Len(versions[v.meeting]))

(* While a record is selected, what is shown around it, the detail, the      *)
(* speaker labels and the preview of a deletion, is of that meeting, however *)
(* late the answers about others arrive; the labels are versions that exist  *)
(* and the ones shown are not later than the latest known.                   *)
RecordIsConsistent ==
    /\ live \in Snapshots /\ screen.latest \in Snapshots
    /\ record.selected # None =>
         /\ Here \in {None, record.selected}
         /\ record.detail \in {None, record.selected}
         /\ record.preview \in {None, record.selected}
         /\ Of(record.latest, record.selected) /\ Of(record.shown, record.selected)
         /\ record.shown.version <= record.latest.version

(* An edit is stored on top of the version it was drafted from, so that no   *)
(* other edit is lost under it, and an undo restores the labels before the   *)
(* edit it undoes; where a record was selected, that version is the one of   *)
(* the meeting that was looked at when the button was pressed.               *)
EditsBuildOnLatest ==
    \A m \in Meetings :
        /\ EditsAreLinear(versions[m]) /\ UndoRestores(versions[m])
        /\ \A v \in DOMAIN versions[m] :
              LET click == versions[m][v].click IN
              click.meeting = m => click.version = versions[m][v].parent

(* As long as the same record is selected the latest version known of it     *)
(* never goes back to an earlier one.                                        *)
SpeakersMoveForward ==
    [][ /\ record'.selected = record.selected /\ record'.detail = record.detail
        /\ record'.latest.meeting = record.latest.meeting
        => record'.latest.version >= record.latest.version ]_windowVars

(* What is shown of the summaries of a meeting never goes back: neither to   *)
(* an earlier job nor to an earlier step of the job; and it is a job of that *)
(* meeting.                                                                  *)
SummaryMovesForward ==
    [][ \A m \in Meetings :
          LET before == summary.job[m]  after == summary'.job[m] IN
          /\ after.id >= before.id
          /\ after.id = before.id => Rank(after.step) >= Rank(before.step)
          /\ after.id # 0 => jobs[after.id].meeting = m ]_windowVars

(* No late answer takes the window back.                                     *)
WindowMovesForward == SpeakersMoveForward /\ SummaryMovesForward

(* A running summary of the selected meeting is followed: a timer, a request *)
(* that still counts or a command is under way, unless a poll has failed.    *)
SummaryIsWatched ==
    JobOf(summary, Here).step \in Running =>
        \/ summary.timer = Here
        \/ Here \in summary.pending \cup summary.lost
        \/ \E r \in requests : r.kind = "status" /\ PollIsCurrent(r)

(* A session on the screen is followed by polls; so are translations, save   *)
(* where the answer of "open recent" came late (it schedules nothing).       *)
SnapshotIsWatched ==
    screen.latest.active \/ (screen.latest.queued /\ ~screen.opened) =>
        screen.timer \/ \E r \in requests : r.kind = "poll"

WindowKeepsWatching == SummaryIsWatched /\ SnapshotIsWatched

=============================================================================
