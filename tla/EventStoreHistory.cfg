SPECIFICATION Spec
CONSTANTS
  w1 = w1
  w2 = w2
  flour = flour
  pizza = pizza
  pasta = pasta
  s1 = s1
  s2 = s2
  sku1 = sku1
  sku2 = sku2
  i1 = i1
  i2 = i2
  mon = mon
  tue = tue
  None = None
  Writers = {w1, w2}
  Ingredients = {flour}
  MenuItems = {pizza, pasta}
  Suppliers = {s1, s2}
  Skus = {sku1, sku2}
  ShiftIds = {i1, i2}
  Slots = {mon, tue}
  SkuIngredient <- IngredientOf
  SkuSupplier <- SellerOf
  InitialProjection <- Seeded
  Payloads <- AllPayloads
  Workloads <- BothOrOne
  Sources = {"trimmed"}
  Ids = {1, 2, 3}
  Skew <- NoSkew
  MaxStamps = 3
INVARIANTS TypeOK ChainVerifies ProjectionsAgree ReplayAgrees
PROPERTY ImplementsLog
