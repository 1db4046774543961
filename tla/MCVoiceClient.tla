---------------------------- MODULE MCVoiceClient ----------------------------
(* Small instances of VoiceClient: the requests of one kind are            *)
(* interchangeable.                                                        *)
EXTENDS VoiceClient, TLC

ClientSymmetry == Permutations(Posts) \cup Permutations(Enders)
=============================================================================
