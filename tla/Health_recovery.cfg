\* Two providers and one slot; a run of the ticker overlaps with the one at boot.
SPECIFICATION FairSpec
CONSTANTS
  groq = groq
  cerebras = cerebras
  request = request
  boot = boot
  Providers = {groq, cerebras}
  Requests = {request}
  Once = {boot}
  ProbeSlots = 1
  MaxChanges = 1
  MaxServed = 1
PROPERTIES RecoversToGreen EveryRunEnds GreyOnlyAfterTwo
