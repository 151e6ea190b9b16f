SPECIFICATION Spec
CONSTANTS
    Deployments <- MCDeployments
    Offers <- MCOffers
    Capabilities = {"receipts", "qos"}
    Blank = Blank
    NoDocument = NoDocument
    NoOffer = NoOffer
    NoReply = NoReply
INVARIANT TypeOK
PROPERTIES
    EveryWishAnswered
    NegotiationsAgree
    DeniedOnlyIfWithdrawn
    OnlyOwnVersionsRaise
