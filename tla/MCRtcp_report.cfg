SPECIFICATION Spec
CONSTANT States <- MCStates
INVARIANTS RoundTrip NothingMistaken
