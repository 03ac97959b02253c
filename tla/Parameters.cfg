CONSTANT Applications <- TwoApplications
SPECIFICATION Spec
INVARIANT WordsAsAsked
INVARIANT MixbinsSound
INVARIANT ChannelsReachTheirSpeakers
