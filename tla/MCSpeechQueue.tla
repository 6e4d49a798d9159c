---------------------------- MODULE MCSpeechQueue ----------------------------
(* SpeechQueue with a few utterances and cancels.                           *)
EXTENDS SpeechQueue
==============================================================================
