SPECIFICATION Spec
INVARIANTS TypeOK BlocksAccounted TweaksOwnReports KindKnown ModeMatches PartsFitTogether TweaksFit
