CONSTANTS MaxMessages=6 Sizes={1,2} Budget=3 TailMessages=3 RetainedMessages=1 Refusals=FALSE
SPECIFICATION Spec
CHECK_DEADLOCK FALSE
INVARIANT CountedIsSummarized
