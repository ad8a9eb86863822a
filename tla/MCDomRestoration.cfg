CONSTANTS
  Types <- MCTypes
  NoType = NoType
  HasTtl = TRUE
  MaxEpisodes = 3
  Nav = Nav
  Drawer = Drawer
  S1 = S1
  Sections = {S1}
  FirstSection = S1
SPECIFICATION WantedSpec
INVARIANTS DomTypeOK EpisodeAccounting TimersOfLiveEpisodes HandlersOfLiveEpisodes RestoredWhenUndisturbed SectionsFollowUser
PROPERTIES EveryEpisodeEnds ImplementsLifecycle
CHECK_DEADLOCK FALSE
