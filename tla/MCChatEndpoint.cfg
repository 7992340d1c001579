CONSTANTS
    None = None
    Malformed = Malformed
    Required = Required
    IntTexts <- MCIntTexts
    FloatTexts <- MCFloatTexts
    Members <- MCMembers
    Requests <- MCRequests
    Payloads <- MCPayloads
    DataModel <- MCDataModel
    FormModel <- MCFormModel
    Account = "push@project"
    Speaking <- MCSpeaking
    Sends <- MCSends
    Replies <- MCReplies
    Updates <- MCUpdates
    DirectMessages <- MCDirectMessages
    Invocations <- MCInvocations
SPECIFICATION Spec
INVARIANTS OnlyChatIsHeard OneMeaning ClicksRoundTrip PrivateStaysPrivate RefusedUploadsNothing AttachmentsFit RepliesStayInThread
PROPERTIES AdvertisedIsServed
