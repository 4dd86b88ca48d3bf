----------------------------- MODULE Utterance -----------------------------
(* What wm-stt promises to the subscribers of wm.stt.*, with no engine, no  *)
(* clock and no window: an utterance is the audio heard since it was        *)
(* opened; it is closed by at most one verdict, on exactly that audio, by   *)
(* the model that was active all the time it was open; a model swap waits   *)
(* for the open utterance.  UtteranceProcessor implements it.               *)
EXTENDS SttEvents

CONSTANT Threshold   \* a final is at least this confident

VARIABLES
    phase,    \* "idle" or "speaking"
    heard,    \* the samples of the open utterance
    model,    \* the active model
    wanted,   \* the model to swap to when the utterance closes, or None
    out       \* the events of the last step

vars == <<phase, heard, model, wanted, out>>
----------------------------------------------------------------------------
Init ==
    /\ phase = "idle"
    /\ heard = <<>>
    /\ model \in Models
    /\ wanted = None
    /\ out = <<>>

(* A new utterance starts from nothing, whatever was open before.           *)
Open ==
    /\ phase' = "speaking"
    /\ heard' = <<>>
    /\ out' = IF phase = "speaking" THEN <<ErrorEvent("protocol")>> ELSE <<>>
    /\ UNCHANGED <<model, wanted>>

(* Hearing a chunk may produce a guess about the latest part of this        *)
(* utterance, never about an earlier one.                                   *)
Hear(pcm) ==
    /\ phase = "speaking"
    /\ heard' = heard \o pcm
    /\ \/ out' = <<>>
       \/ \E k \in 1 .. Len(heard'), turn_id \in OptionalTurn :
             LET guess == Text(model, SubSeq(heard', k, Len(heard')))
             IN  out' = <<PartialEvent(guess, turn_id)>>
    /\ UNCHANGED <<phase, model, wanted>>

(* What may be said of the open utterance: a text over all of it, or that   *)
(* no words were found.                                                     *)
Transcripts == {Text(model, heard), NoText}

(* The events that may close the utterance of a turn: silence, one verdict  *)
(* or one failure.                                                          *)
Verdicts(turn_id) ==
    {<<>>, <<UncertainEvent(NoText, 0, "window_too_long", turn_id)>>}
    \cup {<<FinalEvent(text, c, model, turn_id)>>
            : text \in Transcripts, c \in Threshold .. MaxConfidence}
    \cup {<<UncertainEvent(text, c, "none", turn_id)>>
            : text \in Transcripts, c \in 0 .. Threshold - 1}
    \cup {<<ErrorEvent(kind)>> : kind \in ErrorKinds}

(* The answers to a request for a model: it is active, or nothing changed.  *)
Answered(name, said) ==
    \/ model' = name /\ out' = Append(said, ModelLoadedEvent(name))
    \/ UNCHANGED model /\ out' = Append(said, ErrorEvent("model"))

Close(turn_id) ==
    /\ phase = "speaking"
    /\ phase' = "idle"
    /\ heard' = <<>>
    /\ \E verdict \in Verdicts(turn_id) :
          IF wanted = None
          THEN out' = verdict /\ UNCHANGED model
          ELSE Answered(wanted, verdict)
    /\ wanted' = None

Ask(name) ==
    \/ /\ phase = "speaking"
       /\ wanted' = name
       /\ out' = <<>>
       /\ UNCHANGED <<phase, heard, model>>
    \/ /\ phase = "idle"
       /\ Answered(name, <<>>)
       /\ UNCHANGED <<phase, heard, wanted>>

(* What may be wrong with a request that changes nothing.  While speaking,  *)
(* "protocol" is kept for the utterance that an Open drops.                 *)
Refusals ==
    IF phase = "speaking" THEN {"io", "engine", "model"} ELSE {"protocol", "model"}

(* A request that cannot be honoured is reported and changes nothing else.  *)
Refuse ==
    /\ \E kind \in Refusals : out' = <<ErrorEvent(kind)>>
    /\ UNCHANGED <<phase, heard, model, wanted>>

Next ==
    \/ Open
    \/ \E pcm \in Chunks : Hear(pcm)
    \/ \E turn_id \in OptionalTurn : Close(turn_id)
    \/ \E name \in Models : Ask(name)
    \/ Refuse

Spec == Init /\ [][Next]_vars
============================================================================
