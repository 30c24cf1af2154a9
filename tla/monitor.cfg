\* Two starts; a request may take longer than join leaves to it after the sleep.
CONSTANTS
  MaxStarts = 2
  Interval = 2
  CheckBound = 3
  CheckRaises = TRUE
SPECIFICATION FairSpec
INVARIANTS LostLoopsWereChecking CallbacksKnowStatus
PROPERTIES ReconnectIsNoticed StoppedLoopsEnd
