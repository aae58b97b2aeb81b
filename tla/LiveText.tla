------------------------------ MODULE LiveText ------------------------------
(***************************************************************************)
(* What streaming an answer promises, whatever buffers, timers and tabs    *)
(* stand between the backend and the screen.  While a turn is live, what   *)
(* can be read of it is a beginning of what the backend sent, and it only  *)
(* grows.  A turn that completes keeps its final response, and the text    *)
(* that was sent where it goes on beyond the response's; a turn that is    *)
(* cut short, stopped or failed, keeps everything that was sent.           *)
(***************************************************************************)
EXTENDS Naturals, Sequences

CONSTANTS
    Requests, Chunks,
    Replies  \* what a final response may hold, on each channel

VARIABLES
    status,   \* per request: "new", "live", "done", "cut", or "gone" with its tab
    received, \* per request and channel, what the backend sent
    visible   \* and what of it can be read

vars == <<status, received, visible>>

Channels == {"text", "thinking"}
Nothing == [c \in Channels |-> <<>>]

Begins(s, u) == Len(s) <= Len(u) /\ SubSeq(u, 1, Len(s)) = s
Within(s, u) == \E i \in 0..Len(u) : i + Len(s) <= Len(u) /\ SubSeq(u, i + 1, i + Len(s)) = s

Init ==
    /\ status = [r \in Requests |-> "new"]
    /\ received = [r \in Requests |-> Nothing]
    /\ visible = [r \in Requests |-> Nothing]

Start(r) ==
    /\ status[r] = "new"
    /\ status' = [status EXCEPT ![r] = "live"]
    /\ UNCHANGED <<received, visible>>

Receive(r) ==
    /\ status[r] = "live"
    /\ \E c \in Channels, x \in Chunks :
         received' = [received EXCEPT ![r][c] = Append(@, x)]
    /\ UNCHANGED <<status, visible>>

RevealMore(r) ==
    /\ status[r] = "live"
    /\ visible' = [visible EXCEPT ![r] = received[r]]
    /\ UNCHANGED <<status, received>>

ReceiveAndReveal(r) ==
    /\ status[r] = "live"
    /\ \E c \in Channels, x \in Chunks :
         received' = [received EXCEPT ![r][c] = Append(@, x)]
    /\ visible' = [visible EXCEPT ![r] = received'[r]]
    /\ UNCHANGED status

Conclude(r, how, kept) ==
    /\ status[r] = "live"
    /\ status' = [status EXCEPT ![r] = how]
    /\ visible' = [visible EXCEPT ![r] = kept]
    /\ UNCHANGED received

\* The response decides, but text that could be read and that it only begins stays.
Complete(r) ==
    \E said \in Replies :
      Conclude(r, "done",
        [text |-> IF Begins(said["text"], received[r]["text"])
                  THEN received[r]["text"] ELSE said["text"],
         thinking |-> said["thinking"]])

\* Nothing that was sent is lost; a response that came all the same may add to it.
Cut(r) ==
    \E said \in Replies :
      Conclude(r, "cut",
        [text |-> IF Begins(received[r]["text"], said["text"])
                  THEN said["text"] ELSE received[r]["text"],
         thinking |-> IF Within(received[r]["thinking"], said["thinking"])
                      THEN said["thinking"]
                      ELSE said["thinking"] \o received[r]["thinking"]])

Abandon(r) == Conclude(r, "gone", Nothing)

Next == \E r \in Requests :
          \/ Start(r) \/ Receive(r) \/ RevealMore(r) \/ ReceiveAndReveal(r)
          \/ Complete(r) \/ Cut(r) \/ Abandon(r)

Spec == Init /\ [][Next]_vars
=============================================================================
