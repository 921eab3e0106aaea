-------------------------------- MODULE Actors --------------------------------
(* The runners: NewRunner creates one at start-up and one on every reload.  *)
CONSTANTS Runners,   \* every runner that may ever be created
          NoRunner   \* no runner yet

ASSUME ActorsAssumption == NoRunner \notin Runners
=============================================================================
