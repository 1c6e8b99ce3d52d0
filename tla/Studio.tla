------------------------------- MODULE Studio -------------------------------
(***************************************************************************)
(* The music video studio: the handlers of api_server.py that work on one  *)
(* session, and the ImageService and VideoService they share under         *)
(* _GEN_LOCK.  A generation queues a prompt with ComfyUI over HTTP and is  *)
(* woken by what the listener of the service's websocket hears.            *)
(*                                                                         *)
(* A handler runs from one await to the next without interruption.         *)
(* ComfyUI is external: it runs one prompt at a time, tells the client of  *)
(* the prompt in order, and tells every client of the length of its queue. *)
(***************************************************************************)
EXTENDS Naturals, Sequences

CONSTANTS Jobs,         \* requests that may be under way at the same time
          MaxPrompts,   \* bound: prompts that ComfyUI accepts
          MaxTimeline   \* bound: transcriptions of the audio

ASSUME StudioAssumption == MaxPrompts \in Nat /\ MaxTimeline \in Nat \ {0}

Services == {"image", "video"}
Prompts == 1..MaxPrompts
None == 0

VARIABLES session,   \* the Session: its segments, scene_plans, and whether its scene has an image
          jobs,      \* [Jobs -> the request: where it waits, and its local variables]
          genLock,   \* _GEN_LOCK: its holder, then those who wait for it
          connected, \* _SVC["connected"]
          service,   \* [Services -> status, _current_prompt_id, _execution_complete and _execution_error]
          wire,      \* [Services -> messages that the listener has not read yet]
          listening, \* services whose _ws_listener runs
          comfy,     \* [Prompts -> ComfyUI's state of the prompt]
          heard      \* history: prompts whose success the listener has handled

studioVars == <<session, jobs, genLock, connected, service, wire, listening, comfy, heard>>
protocolVars == <<service, wire, listening, comfy, heard>>

Idle == [at |-> "idle", kind |-> "none", prompt |-> None]
Statuses == {"disconnected", "connected", "queued", "generating"}
Places == {"idle", "aligning", "locking", "aside", "queueing", "answered", "waiting"}
Messages == [type : {"start", "success", "error"}, prompt : Prompts] \union [type : {"status"}]

\* make_lyrics has made the session: it has segments and no scenes.
StudioInit ==
    /\ session = [timeline |-> 1, plan |-> None, image |-> FALSE]
    /\ jobs = [j \in Jobs |-> Idle]
    /\ genLock = <<>>
    /\ connected = FALSE
    /\ service = [k \in Services |-> [status |-> "disconnected", current |-> None, done |-> "no"]]
    /\ wire = [k \in Services |-> <<>>]
    /\ listening = {}
    /\ comfy = [p \in Prompts |-> "new"]
    /\ heard = {}

Goto(j, place) == jobs' = [jobs EXCEPT ![j].at = place]
Answer(j) == jobs' = [jobs EXCEPT ![j] = Idle]
PlanOf(s) == [s EXCEPT !.plan = s.timeline]
PlanIfNone(s) == IF s.plan = None THEN PlanOf(s) ELSE s

-----------------------------------------------------------------------------
(* The session *)

\* plan_scenes: the planner runs without an await.
PlanScenes ==
    /\ session' = PlanOf(session)
    /\ UNCHANGED <<jobs, genLock, connected, protocolVars>>

\* realign_lyrics: the audio is transcribed in a subprocess.
Realign(j) ==
    /\ jobs[j].at = "idle"
    /\ Goto(j, "aligning")
    /\ UNCHANGED <<session, genLock, connected, protocolVars>>

\* Mutant: the scenes of the old timeline are kept.
TimelineKeepsPlan(s) == [s EXCEPT !.timeline = @ + 1]
\* New segments, no scenes; what was generated stays.
Timeline(s) == [s EXCEPT !.timeline = @ + 1, !.plan = None]

\* The worker is done, or has failed.
Realigned(j) ==
    /\ jobs[j].at = "aligning"
    /\ \/ session.timeline < MaxTimeline /\ session' = Timeline(session)
       \/ UNCHANGED session
    /\ Answer(j)
    /\ UNCHANGED <<genLock, connected, protocolVars>>

\* gen_scene_image (api_image) up to the lock.
AskImage(j) ==
    /\ jobs[j].at = "idle"
    /\ session' = PlanIfNone(session)
    /\ jobs' = [jobs EXCEPT ![j] = [Idle EXCEPT !.at = "locking", !.kind = "image"]]
    /\ genLock' = Append(genLock, j)
    /\ UNCHANGED <<connected, protocolVars>>

\* gen_scene_video (api_video) up to the lock: the scene must have an image.
AskVideo(j) ==
    /\ jobs[j].at = "idle"
    /\ session' = PlanIfNone(session)
    /\ IF session.image
       THEN /\ jobs' = [jobs EXCEPT ![j] = [Idle EXCEPT !.at = "locking", !.kind = "video"]]
            /\ genLock' = Append(genLock, j)
       ELSE UNCHANGED <<jobs, genLock>>
    /\ UNCHANGED <<connected, protocolVars>>

-----------------------------------------------------------------------------
(* A generation, under the lock *)

\* async with _GEN_LOCK: the first in line holds it.
Holds(j) == genLock # <<>> /\ Head(genLock) = j

Release == genLock' = Tail(genLock)

\* The request ends without a result.
Fail(j) == Answer(j) /\ Release /\ UNCHANGED <<session, connected>>

\* generate_image, generate_video: the shared service when it is ready
\* (image) or available (video), one of its own otherwise.
Usable(k) == service[k].status \in (IF k = "image" THEN {"connected"} ELSE Statuses \ {"disconnected"})

\* The event is cleared before the prompt is queued, and the video service
\* forgets the prompt of the last generation.
Begun(k, s) == [s EXCEPT !.done = "no", !.current = IF k = "video" THEN None ELSE s.current]

BeginGeneration(j) ==
    LET k == jobs[j].kind
    IN  /\ jobs[j].at = "locking" /\ Holds(j)
        /\ connected
        /\ IF Usable(k)
           THEN /\ service' = [service EXCEPT ![k] = Begun(k, @)]
                /\ Goto(j, "queueing")
           ELSE UNCHANGED service /\ Goto(j, "aside")
        /\ UNCHANGED <<session, genLock, connected, wire, listening, comfy, heard>>

\* _ensure_services connects both services, or says 503.
Connect(j) ==
    /\ jobs[j].at = "locking" /\ Holds(j)
    /\ ~connected
    /\ \/ /\ connected' = TRUE
          /\ service' = [k \in Services |-> [service[k] EXCEPT !.status = "connected"]]
          /\ listening' = Services
          /\ UNCHANGED <<session, jobs, genLock>>
       \/ Fail(j) /\ UNCHANGED <<service, listening>>
    /\ UNCHANGED <<wire, comfy, heard>>

\* The path is stored in the session and answered.
Store(j) ==
    /\ session' = [session EXCEPT !.image = @ \/ jobs[j].kind = "image"]
    /\ Answer(j) /\ Release
    /\ UNCHANGED connected

\* get_media_ai(): a service that is connected for this generation alone.
GenerateAside(j) ==
    /\ jobs[j].at = "aside"
    /\ \/ Store(j)
       \/ Fail(j)
    /\ UNCHANGED protocolVars

\* POST /prompt reaches ComfyUI, which tells everybody about its queue.
QueuePrompt(j) ==
    /\ jobs[j].at = "queueing"
    /\ \E p \in Prompts :
          /\ comfy[p] = "new" /\ \A q \in 1..(p - 1) : comfy[q] # "new"
          /\ comfy' = [comfy EXCEPT ![p] = jobs[j].kind]
          /\ jobs' = [jobs EXCEPT ![j] = [@ EXCEPT !.at = "answered", !.prompt = p]]
    /\ wire' = [k \in Services |-> IF k \in listening THEN Append(wire[k], [type |-> "status"]) ELSE wire[k]]
    /\ UNCHANGED <<session, genLock, connected, service, listening, heard>>

\* The answer to POST /prompt: the prompt's id.
Queued(j) ==
    /\ jobs[j].at = "answered"
    /\ service' = [service EXCEPT ![jobs[j].kind].current = jobs[j].prompt]
    /\ Goto(j, "waiting")
    /\ UNCHANGED <<session, genLock, connected, wire, listening, comfy, heard>>

\* The finally of _execute_generation; the video service keeps the id.
Abandon(j) ==
    /\ service' = [service EXCEPT ![jobs[j].kind].current = IF jobs[j].kind = "image" THEN None ELSE @]
    /\ Fail(j)

\* The request, or the answer to it, is lost.
QueueFails(j) ==
    /\ jobs[j].at \in {"queueing", "answered"}
    /\ Abandon(j)
    /\ UNCHANGED <<wire, listening, comfy, heard>>

\* Mutant: wait() without a timeout.
TimesOutNever(j) == FALSE
\* asyncio.wait_for(_execution_complete.wait(), timeout)
TimesOut(j) == jobs[j].at = "waiting" /\ service[jobs[j].kind].done = "no"

TimeOut(j) ==
    /\ TimesOut(j)
    /\ Abandon(j)
    /\ UNCHANGED <<wire, listening, comfy, heard>>

\* A generation returns, with images or without any.
Concluded(k) ==
    service' = [service EXCEPT ![k] =
                  IF k = "image" THEN [@ EXCEPT !.status = "connected", !.current = None] ELSE @]

\* The event is set: an error is raised; after a success the history of its
\* own prompt holds what was made, or nothing (yet).
WokenUp(j) ==
    LET k == jobs[j].kind
    IN  /\ jobs[j].at = "waiting" /\ service[k].done # "no"
        /\ \/ /\ service[k].done = "success" /\ comfy[jobs[j].prompt] = "ended"
              /\ Store(j) /\ Concluded(k)
           \/ service[k].done = "success" /\ Fail(j) /\ Concluded(k)
           \/ Abandon(j)
        /\ UNCHANGED <<wire, listening, comfy, heard>>

----------------------------------------------------------------------------------
(* ComfyUI and the listener *)

Tell(k, m) == wire' = [wire EXCEPT ![k] = IF k \in listening THEN Append(@, m) ELSE @]

ComfyStarts(p) ==
    /\ comfy[p] \in Services
    /\ \A q \in 1..(p - 1) : comfy[q] = "ended"
    /\ Tell(comfy[p], [type |-> "start", prompt |-> p])
    /\ comfy' = [comfy EXCEPT ![p] = IF @ = "image" THEN "painting" ELSE "filming"]
    /\ UNCHANGED <<session, jobs, genLock, connected, service, listening, heard>>

ComfyEnds(p) ==
    /\ comfy[p] \in {"painting", "filming"}
    /\ \E type \in {"success", "error"} :
          Tell(IF comfy[p] = "painting" THEN "image" ELSE "video", [type |-> type, prompt |-> p])
    /\ comfy' = [comfy EXCEPT ![p] = "ended"]
    /\ UNCHANGED <<session, jobs, genLock, connected, service, listening, heard>>

\* Mutant: only the current prompt passes.
PassesCurrent(m, s) == m.prompt = s.current
\* The filter of _handle_ws_message: without a current prompt everything
\* passes, so that a prompt may end before its id is known here.
Passes(m, s) == s.current = None \/ m.prompt = s.current

\* Mutant: any message about the prompt ends it.
HandledAsEnd(m, s) ==
    IF m.type # "status" /\ Passes(m, s) THEN [s EXCEPT !.done = m.type] ELSE s

Handled(m, s) ==
    CASE m.type = "status" -> [s EXCEPT !.status = "queued"]
      [] m.type = "start" /\ Passes(m, s) -> [s EXCEPT !.status = "generating"]
      [] m.type \in {"success", "error"} /\ Passes(m, s) -> [s EXCEPT !.done = m.type]
      [] OTHER -> s

Hear(k) ==
    /\ k \in listening /\ wire[k] # <<>>
    /\ LET m == Head(wire[k])
       IN  /\ service' = [service EXCEPT ![k] = Handled(m, @)]
           /\ heard' = IF m.type = "success" THEN heard \union {m.prompt} ELSE heard
    /\ wire' = [wire EXCEPT ![k] = Tail(@)]
    /\ UNCHANGED <<session, jobs, genLock, connected, listening, comfy>>

\* The websockets close: the listeners end, and nobody starts them again.
ConnectionLost ==
    /\ listening # {}
    /\ listening' = {}
    /\ wire' = [k \in Services |-> <<>>]
    /\ UNCHANGED <<session, jobs, genLock, connected, service, comfy, heard>>

Works(j) ==
    \/ Connect(j) \/ BeginGeneration(j) \/ GenerateAside(j) \/ QueuePrompt(j) \/ Queued(j)
    \/ QueueFails(j) \/ TimeOut(j) \/ WokenUp(j)

StudioNext ==
    \/ PlanScenes
    \/ \E j \in Jobs : Realign(j) \/ Realigned(j) \/ AskImage(j) \/ AskVideo(j) \/ Works(j)
    \/ \E p \in Prompts : ComfyStarts(p) \/ ComfyEnds(p)
    \/ \E k \in Services : Hear(k)
    \/ ConnectionLost

StudioSpec == StudioInit /\ [][StudioNext]_studioVars

\* The awaits of a generation end: HTTP calls, ffmpeg and the wait for the event
\* have a timeout, and the lock is fair.  The transcription is awaited without
\* one (_run_transcribe_worker, and its standard error is not read before its
\* output has ended), so Realigned may never come; nor do ComfyUI and the
\* websocket owe anything.
StudioFairness == \A j \in Jobs : WF_studioVars(Works(j))

-----------------------------------------------------------------------------
(* Properties *)

StudioTypeOK ==
    /\ session \in [timeline : 1..MaxTimeline, plan : 0..MaxTimeline, image : BOOLEAN]
    /\ jobs \in [Jobs -> [at : Places, kind : Services \union {"none"}, prompt : {None} \union Prompts]]
    /\ genLock \in Seq(Jobs)
    /\ connected \in BOOLEAN
    /\ service \in [Services -> [status : Statuses, current : {None} \union Prompts, done : {"no", "success", "error"}]]
    /\ wire \in [Services -> Seq(Messages)]
    /\ listening \subseteq Services /\ heard \subseteq Prompts
    /\ comfy \in [Prompts -> Services \union {"new", "painting", "filming", "ended"}]

\* The scenes that exist are those of the timeline that exists, whatever is
\* planned while a transcription is under way (realign_lyrics clears them).
PlanFitsTimeline == session.plan \in {None, session.timeline}

\* A generation that waits has been woken if the success of its prompt was
\* heard, even before the answer that brought its id (the filter on the
\* prompt, the clear before the queueing and _GEN_LOCK together).
SuccessNotLost ==
    \A j \in Jobs : jobs[j].at = "waiting" /\ jobs[j].prompt \in heard
        => service[jobs[j].kind].done # "no"

\* The requests use _GEN_LOCK as an asyncio.Lock: one generation at a time, in
\* the order in which they asked, however each of them ends.
GenLock == INSTANCE FairLock WITH
    Users <- Jobs, line <- genLock,
    taken <- \E j \in Jobs : jobs[j].at \in {"aside", "queueing", "answered", "waiting"}

GenLockIsFair == GenLock!Spec

\* Every request for an image or a video is answered, and with it _GEN_LOCK
\* freed, whatever ComfyUI and the websocket do, and although a transcription
\* may hang beside it for ever.
RequestAnswered ==
    \A j \in Jobs : jobs[j].at \notin {"idle", "aligning"} ~> jobs[j].at = "idle"
=============================================================================
