---------------------------------- MODULE Download ----------------------------------
(***************************************************************************)
(* VideoService.download_video: attempts at one job's video, each by yt-dlp    *)
(* anew, and what they leave in the job's directory.  Several deliveries of the   *)
(* task may be at it one after another, or at one time when a claim has run out.    *)
(***************************************************************************)
EXTENDS Naturals

CONSTANTS None, Deliveries,
          MaxAttempts        \* one and the VIDEO_DOWNLOAD_RETRY_DELAYS

VARIABLES
    exact,     \* is the resolver's id of the video the one yt-dlp writes it under?
    folder,    \* the kinds of file in the directory
    at,        \* of each delivery: what its worker does
    attempt,
    film       \* the kind of file it has answered with

vars == <<exact, folder, at, attempt, film>>

\* A whole film; a file with the suffix of a partial (.part, .ytdl, .temp); and a stray,
\* a partial with another suffix (.part-Frag3, .temp.mp4).
Kinds == {"whole", "part", "stray"}

Go(w, where) == at' = [at EXCEPT ![w] = where]

Start(w) ==
    /\ at[w] = "idle" /\ Go(w, "trying")
    /\ UNCHANGED <<exact, folder, attempt, film>>

\* yt-dlp keeps a whole film there is, and does with partials what it likes.
Run(w) ==
    /\ at[w] = "trying"
    /\ \E new \in SUBSET Kinds, gone \in SUBSET {"part", "stray"} : folder' = (folder \ gone) \cup new
    /\ Go(w, "ran") \/ Go(w, "raised") \/ Go(w, "killed")
    /\ UNCHANGED <<exact, attempt, film>>

\* Any file whose name begins with "<id>." and does not end like a partial.
Answer(w) ==
    /\ at[w] = "ran"
    /\ LET good == IF exact THEN folder \ {"part"} ELSE {}
       IN  \/ \E kind \in good : film' = [film EXCEPT ![w] = kind] /\ Go(w, "done")
           \/ good = {} /\ Go(w, "raised") /\ UNCHANGED film
    /\ UNCHANGED <<exact, folder, attempt>>

\* Mutant: what an attempt has left is removed, of whatever kind.
RetryAfresh(w) ==
    /\ at[w] = "raised" /\ attempt[w] < MaxAttempts
    /\ folder' = IF exact THEN {} ELSE folder
    /\ attempt' = [attempt EXCEPT ![w] = @ + 1]
    /\ Go(w, "trying")
    /\ UNCHANGED <<exact, film>>

\* The partials of the name are removed before the next attempt.
Retry(w) ==
    /\ at[w] = "raised" /\ attempt[w] < MaxAttempts
    /\ folder' = IF exact THEN folder \ {"part"} ELSE folder
    /\ attempt' = [attempt EXCEPT ![w] = @ + 1]
    /\ Go(w, "trying")
    /\ UNCHANGED <<exact, film>>

GiveUp(w) ==
    /\ at[w] = "raised" /\ attempt[w] = MaxAttempts
    /\ Go(w, "failed")
    /\ UNCHANGED <<exact, folder, attempt, film>>

Init ==
    /\ exact \in BOOLEAN /\ folder = {}
    /\ at = [w \in Deliveries |-> "idle"] /\ attempt = [w \in Deliveries |-> 1]
    /\ film = [w \in Deliveries |-> None]

Next == \E w \in Deliveries : Start(w) \/ Run(w) \/ Answer(w) \/ Retry(w) \/ GiveUp(w)

Spec == Init /\ [][Next]_vars

---------------------------------------------------------------------------------
(* Properties *)

\* The film a delivery has answered with stays where it is: no attempt of another, and
\* no cleaning between attempts, takes it away from the steps that read it.
FilmStays == \A w \in Deliveries : film[w] = "whole" => "whole" \in folder
=================================================================================
